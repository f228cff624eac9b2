--------------------------- MODULE ReadersProofs ----------------------------
(***************************************************************************)
(* Readers that resume where they stopped: a pane with its cursor into the  *)
(* transcript (Panes), for any number of panes, sockets, entries and lives  *)
(* of the process; a connector with its watermark (Connector), for every    *)
(* service, stream of arrivals, batch size and set of channels.             *)
(***************************************************************************)
EXTENDS Panes, Connector, SequenceTheorems, FiniteSetTheorems, TLAPS

-----------------------------------------------------------------------------
(* The inductive invariant.                                                 *)

Bounded == Len(transcript) <= MaxEntries

\* A goroutine that broadcasts has an entry to broadcast.
FrameInHand == \A a \in Writers : at[a] \in {"cast", "tell"} => frame[a] \in Entries

\* An open socket is in the set that broadcasts go to.
Attached == \A c \in Conns : socket[c] = "up" => c \in conns

\* A pane has one open socket at most.
OneSocket ==
  \A c, d \in Conns : socket[c] = "up" /\ socket[d] = "up" /\ PaneOf[c] = PaneOf[d] => c = d

\* Nobody serves a socket that was not opened.
Unopened == \A c \in Conns : socket[c] = "unused" => at[c] = "off"

\* A connection that was loaded was opened, and is not in the middle of loading.
LoadedOnce == \A c \in loaded : socket[c] # "unused" /\ at[c] # "answer"

First(s, n) == { s[k] : k \in 1 .. n }

\* A cursor is of no later life; one of this life counts entries that the pane was shown.
CursorsCount ==
  \A p \in Panes :
    /\ cursor[p].life <= life /\ (cursor[p].life = 0 => cursor[p] = NoCursor)
    /\ cursor[p].life = life => cursor[p].n <= Len(transcript)
    /\ cursor[p].life = life /\ p \notin misplaced => First(transcript, cursor[p].n) \subseteq known[p]

\* What a pane will have been shown when the page in hand is written.
WithPage(c) == known[PaneOf[c]] \cup page[c].entries

\* A page in hand continues what its pane was shown, unless the cursor was of another life.
PageFits ==
  \A c \in Conns :
    socket[c] = "up" /\ at[c] = "answer" /\ page[c].kind = "page" =>
      /\ page[c].cursor.life = life /\ page[c].cursor.n <= Len(transcript)
      /\ PaneOf[c] \notin misplaced /\ cursor[PaneOf[c]].life \in {0, life} =>
           /\ First(transcript, page[c].cursor.n) \subseteq WithPage(c)
           /\ SeenBy(1) \subseteq WithPage(c) \cup Coming(c)

IInv ==
  /\ TypeOK /\ Bounded /\ FrameInHand /\ Attached /\ OneSocket
  /\ Unopened /\ LoadedOnce /\ CursorsCount /\ PageFits /\ PaneMissesNothing

-----------------------------------------------------------------------------
(* Lemmas about the data.                                                   *)

\* Records are told apart by their kind.
LEMMA RecordKinds ==
  /\ None.kind = "none" /\ Reset.kind = "reset"
  /\ NoCursor \in Cursors /\ NoCursor.life = 0 /\ NoCursor.n = 0
  /\ \A n \in Nat : PageFrom(n).kind = "page"
BY PanesAssumption DEF None, Reset, NoCursor, Cursors, PageFrom

\* A page in hand has a cursor, which counts.
LEMMA PageCursor ==
  ASSUME TypeOK, NEW c \in Conns, page[c].kind = "page"
  PROVE  page[c].cursor \in Cursors /\ page[c].cursor.n \in Nat
<1>1. page[c] \in [kind: {"page"}, entries: SUBSET Entries, cursor: Cursors]
  BY RecordKinds DEF TypeOK
<1>2. page[c].cursor \in Cursors
  BY <1>1
<1>3. \A x \in Cursors : x.n \in Nat
  BY PanesAssumption DEF Cursors
<1> QED
  BY <1>2, <1>3

\* What is seen of a transcript is entries.
LEMMA SeenType ==
  ASSUME transcript \in Seq(Entries), NEW n \in Nat
  PROVE  SeenBy(n + 1) \subseteq Entries
<1>1. \A k \in n + 1 .. Len(transcript) : k \in 1 .. Len(transcript)
  BY LenProperties
<1> QED
  BY <1>1, ElementOfSeq DEF SeenBy

\* A page is entries, and a cursor behind the last of them.
LEMMA PageType ==
  ASSUME TypeOK, Bounded, NEW n \in Nat
  PROVE  /\ PageFrom(n) \in [kind: {"page"}, entries: SUBSET Entries, cursor: Cursors]
         /\ PageFrom(n).cursor.life = life /\ PageFrom(n).cursor.n = Len(transcript)
         /\ PageFrom(n).entries = SeenBy(n + 1)
<1>1. Len(transcript) \in 0 .. MaxEntries
  BY LenProperties, PanesAssumption DEF TypeOK, Bounded
<1>2. life \in 0 .. MaxLives
  BY PanesAssumption DEF TypeOK
<1>3. SeenBy(n + 1) \subseteq Entries
  BY SeenType DEF TypeOK
<1> QED
  BY <1>1, <1>2, <1>3 DEF PageFrom, Cursors

\* What a history answers with is a page or a reset.
LEMMA HistoryType ==
  ASSUME TypeOK, Bounded, NEW p \in Panes
  PROVE  History(p) \in {None, Reset} \cup [kind: {"page"}, entries: SUBSET Entries, cursor: Cursors]
<1>1. cursor[p].n \in Nat
  BY PanesAssumption DEF TypeOK, Cursors
<1> QED
  BY <1>1, PageType DEF History

\* An entry that is recorded comes behind all the others.
LEMMA Recording ==
  ASSUME TypeOK, NEW e
  PROVE  /\ Len(Append(transcript, e)) = Len(transcript) + 1
         /\ \A k \in 1 .. Len(transcript) : Append(transcript, e)[k] = transcript[k]
         /\ Append(transcript, e)[Len(transcript) + 1] = e
BY AppendProperties DEF TypeOK

-----------------------------------------------------------------------------
(* Every step keeps the invariant.                                         *)

LEMMA Initially == Init => IInv
<1> SUFFICES ASSUME Init PROVE IInv
  OBVIOUS
<1>1. TypeOK
  BY PanesAssumption, RecordKinds, EmptySeq DEF Init, TypeOK, Writers
<1>2. transcript = <<>> /\ Len(transcript) = 0
  BY EmptySeq DEF Init
<1>3. Bounded
  BY <1>2, PanesAssumption DEF Bounded
<1>4. FrameInHand /\ Unopened /\ Attached /\ OneSocket /\ LoadedOnce /\ PageFits /\ PaneMissesNothing
  BY PanesAssumption
     DEF Init, FrameInHand, Unopened, Attached, OneSocket, LoadedOnce, PageFits, PaneMissesNothing,
         UpToDate, Writers
<1>5. CursorsCount
  BY RecordKinds DEF Init, CursorsCount
<1> QED
  BY <1>1, <1>3, <1>4, <1>5 DEF IInv

\* A step that changes nothing.
LEMMA Stutter == IInv /\ UNCHANGED vars => IInv'
<1> SUFFICES ASSUME IInv, UNCHANGED vars PROVE IInv'
  OBVIOUS
<1> USE DEF vars, serverVars, castVars, paneVars
<1>1. TypeOK' /\ Bounded' /\ FrameInHand'
  BY DEF IInv, TypeOK, Bounded, FrameInHand
<1>2. Attached' /\ OneSocket' /\ Unopened' /\ LoadedOnce'
  BY DEF IInv, Attached, OneSocket, Unopened, LoadedOnce
<1>3. SeenBy(1)' = SeenBy(1) /\ \A n : First(transcript', n) = First(transcript, n)
  BY DEF SeenBy, First
<1>4. \A c \in Conns : Coming(c)' = Coming(c) /\ WithPage(c)' = WithPage(c)
  BY DEF Coming, WithPage
<1>5. CursorsCount'
  BY <1>3 DEF IInv, CursorsCount
<1>6. PageFits'
  BY <1>3, <1>4 DEF IInv, PageFits
<1>7. PaneMissesNothing'
  BY <1>3, <1>4 DEF IInv, PaneMissesNothing, UpToDate
<1> QED
  BY <1>1, <1>2, <1>5, <1>6, <1>7 DEF IInv

\* A restart: nothing is served, shown or counted yet in the new life.
LEMMA Restarted == IInv /\ Restart => IInv'
<1> SUFFICES ASSUME IInv, Restart PROVE IInv'
  OBVIOUS
<1>1. TypeOK'
  BY EmptySeq, PanesAssumption DEF IInv, TypeOK, Restart, Writers
<1>2. transcript' = <<>> /\ Len(transcript') = 0
  BY EmptySeq DEF Restart
<1>3. Bounded'
  BY <1>2, PanesAssumption DEF Bounded
<1>4. (FrameInHand /\ Unopened /\ Attached /\ OneSocket /\ LoadedOnce /\ PageFits)'
  BY PanesAssumption
     DEF IInv, TypeOK, Restart, FrameInHand, Unopened, Attached, OneSocket, LoadedOnce, PageFits, Writers
<1>5. PaneMissesNothing'
  BY DEF Restart, PaneMissesNothing, UpToDate
<1>6. CursorsCount'
  <2>1. \A p \in Panes : cursor[p].life \in Nat /\ life \in Nat
    BY PanesAssumption DEF IInv, TypeOK, Cursors
  <2> QED
    BY <2>1 DEF IInv, CursorsCount, Restart
<1> QED
  BY <1>1, <1>3, <1>4, <1>5, <1>6 DEF IInv

\* The steps of a connection.
LEMMA ConnTypes ==
  ASSUME IInv, NEW c \in Conns, Dial(c) \/ Drop(c) \/ ReadEnds(c) \/ Load(c) \/ Answer(c)
  PROVE  TypeOK' /\ Bounded' /\ FrameInHand'
<1> c \in Writers /\ PaneOf[c] \in Panes
  BY PanesAssumption DEF Writers
<1> USE DEF IInv, TypeOK, Bounded, FrameInHand, serverVars, castVars, paneVars
<1>1. CASE Dial(c)
  BY <1>1 DEF Dial
<1>2. CASE Drop(c)
  BY <1>2 DEF Drop
<1>3. CASE ReadEnds(c)
  BY <1>3 DEF ReadEnds
<1>4. CASE Load(c)
  BY <1>4, HistoryType DEF Load
<1>5. CASE Answer(c)
  <2>1. page[c].kind = "page" => page[c].entries \subseteq Entries /\ page[c].cursor \in Cursors
    BY RecordKinds
  <2>2. NoCursor \in Cursors
    BY RecordKinds
  <2> QED
    BY <1>5, <2>1, <2>2 DEF Answer, Show
<1> QED
  BY <1>1, <1>2, <1>3, <1>4, <1>5

\* The steps of a broadcast.
LEMMA CastTypes ==
  ASSUME IInv, NEW a \in Writers, Record(a) \/ Cast(a) \/ Told(a) \/ \E c \in Conns : Tell(a, c)
  PROVE  TypeOK' /\ Bounded' /\ FrameInHand'
<1> USE DEF IInv, TypeOK, Bounded, FrameInHand, serverVars, castVars, paneVars
<1>1. CASE Record(a)
  <2> DEFINE e == [ life |-> life, id |-> Len(transcript) + 1 ]
  <2>1. e \in Entries
    BY <1>1, LenProperties, PanesAssumption DEF Record, Entries
  <2>2. Append(transcript, e) \in Seq(Entries) /\ Len(Append(transcript, e)) = Len(transcript) + 1
    BY <2>1, AppendProperties
  <2>3. Len(transcript) \in Nat /\ Len(transcript) < MaxEntries
    BY <1>1, LenProperties DEF Record
  <2> HIDE DEF e
  <2>4. transcript' = Append(transcript, e) /\ frame' = [frame EXCEPT ![a] = e]
    BY <1>1 DEF Record, e
  <2>5. Bounded'
    BY <2>2, <2>3, <2>4, PanesAssumption
  <2> QED
    BY <1>1, <2>1, <2>2, <2>4, <2>5 DEF Record
<1>2. CASE Cast(a)
  BY <1>2 DEF Cast
<1>3. CASE Told(a)
  BY <1>3 DEF Told
<1>4. ASSUME NEW c \in Conns, Tell(a, c) PROVE TypeOK' /\ Bounded' /\ FrameInHand'
  <2>1. frame[a] \in Entries /\ PaneOf[c] \in Panes
    BY <1>4, PanesAssumption DEF Tell
  <2> QED
    BY <1>4, <2>1 DEF Tell
<1> QED
  BY <1>1, <1>2, <1>3, <1>4

\* Types, by the kind of step; a step that is no restart stays in its life.
LEMMA Types ==
  ASSUME IInv, Next, life' = life
  PROVE  TypeOK' /\ Bounded' /\ FrameInHand'
<1>1. ~ Restart
  BY PanesAssumption DEF Restart, IInv, TypeOK
<1> QED
  BY <1>1, ConnTypes, CastTypes DEF Next

\* Sockets are attached as they open and detached when they are down.
LEMMA Sockets ==
  ASSUME IInv, Next, life' = life
  PROVE  Attached' /\ OneSocket' /\ Unopened' /\ LoadedOnce'
<1> USE DEF IInv, TypeOK, Attached, OneSocket, Unopened, LoadedOnce, serverVars, castVars, paneVars,
            Writers
<1>1. ASSUME NEW c \in Conns, Dial(c) PROVE Attached' /\ OneSocket' /\ Unopened' /\ LoadedOnce'
  BY <1>1 DEF Dial
<1>2. ASSUME NEW c \in Conns, Drop(c) PROVE Attached' /\ OneSocket' /\ Unopened' /\ LoadedOnce'
  BY <1>2 DEF Drop
<1>3. ASSUME NEW c \in Conns, ReadEnds(c) PROVE Attached' /\ OneSocket' /\ Unopened' /\ LoadedOnce'
  BY <1>3 DEF ReadEnds
<1>4. ASSUME NEW c \in Conns, Load(c) PROVE Attached' /\ OneSocket' /\ Unopened' /\ LoadedOnce'
  BY <1>4 DEF Load
<1>5. ASSUME NEW c \in Conns, Answer(c) PROVE Attached' /\ OneSocket' /\ Unopened' /\ LoadedOnce'
  BY <1>5 DEF Answer, Show
<1>6. ASSUME NEW a \in Writers, Record(a) \/ Cast(a) \/ Told(a)
      PROVE Attached' /\ OneSocket' /\ Unopened' /\ LoadedOnce'
  BY <1>6 DEF Record, Cast, Told
<1>7. ASSUME NEW a \in Writers, NEW c \in Conns, Tell(a, c)
      PROVE Attached' /\ OneSocket' /\ Unopened' /\ LoadedOnce'
  BY <1>7 DEF Tell
<1>8. ~ Restart
  BY PanesAssumption DEF Restart
<1> QED
  BY <1>1, <1>2, <1>3, <1>4, <1>5, <1>6, <1>7, <1>8 DEF Next

\* Within a life the transcript only grows, by an entry that its writer then has in hand.
LEMMA TranscriptGrows ==
  ASSUME IInv, Next, life' = life
  PROVE  /\ Len(transcript) \in Nat /\ Len(transcript) <= Len(transcript')
         /\ \A k \in 1 .. Len(transcript) : transcript'[k] = transcript[k]
         /\ \A c : SeenBy(1)' \subseteq SeenBy(1) \cup Coming(c)'
<1>1. Len(transcript) \in Nat
  BY LenProperties DEF IInv, TypeOK
<1>2. CASE UNCHANGED transcript
  BY <1>1, <1>2 DEF SeenBy
<1>3. ASSUME NEW a \in Writers, Record(a)
      PROVE  /\ Len(transcript) <= Len(transcript')
             /\ \A k \in 1 .. Len(transcript) : transcript'[k] = transcript[k]
             /\ \A c : SeenBy(1)' \subseteq SeenBy(1) \cup Coming(c)'
  <2> DEFINE e == [ life |-> life, id |-> Len(transcript) + 1 ]
  <2>1. /\ transcript' = Append(transcript, e) /\ frame' = [frame EXCEPT ![a] = e]
        /\ at' = [at EXCEPT ![a] = "cast"]
    BY <1>3 DEF Record
  <2> HIDE DEF e
  <2>2. /\ Len(transcript') = Len(transcript) + 1 /\ transcript'[Len(transcript) + 1] = e
        /\ \A k \in 1 .. Len(transcript) : transcript'[k] = transcript[k]
    BY <2>1, Recording DEF IInv
  <2>3. frame'[a] = e /\ at'[a] = "cast"
    BY <2>1 DEF IInv, TypeOK
  <2>4. \A c : e \in Coming(c)'
    BY <2>3 DEF Coming
  <2>5. \A k \in 1 .. Len(transcript') : k \in 1 .. Len(transcript) \/ k = Len(transcript) + 1
    BY <2>2, <1>1
  <2>6. SeenBy(1)' \subseteq SeenBy(1) \cup {e}
    BY <2>2, <2>5 DEF SeenBy
  <2> QED
    BY <1>1, <2>2, <2>4, <2>6
<1>4. ~ Restart
  BY PanesAssumption DEF Restart, IInv, TypeOK
<1>5. UNCHANGED transcript \/ \E a \in Writers : Record(a)
  BY <1>4 DEF Next, Dial, Drop, ReadEnds, Load, Answer, Cast, Told, Tell, serverVars
<1> QED
  BY <1>1, <1>2, <1>3, <1>5

\* What is coming to an open connection keeps coming until its pane was shown it.
LEMMA ComingArrives ==
  ASSUME IInv, Next, life' = life, NEW c \in Conns, socket[c] = "up", socket'[c] = "up"
  PROVE  Coming(c) \subseteq Coming(c)' \cup known'[PaneOf[c]]
<1> c \in Writers /\ PaneOf[c] \in Panes /\ Conns \subseteq Writers
  BY PanesAssumption DEF Writers
<1> USE DEF IInv, TypeOK, serverVars, castVars, paneVars, Coming
<1>1. ASSUME NEW d \in Conns, Dial(d) PROVE Coming(c) \subseteq Coming(c)'
  BY <1>1 DEF Dial, Unopened
<1>2. ASSUME NEW d \in Conns, Drop(d) PROVE Coming(c) \subseteq Coming(c)'
  BY <1>2 DEF Drop
<1>3. ASSUME NEW d \in Conns, ReadEnds(d) PROVE Coming(c) \subseteq Coming(c)'
  BY <1>3 DEF ReadEnds
<1>4. ASSUME NEW d \in Conns, Load(d) PROVE Coming(c) \subseteq Coming(c)'
  BY <1>4 DEF Load
<1>5. ASSUME NEW d \in Conns, Answer(d) PROVE Coming(c) \subseteq Coming(c)'
  BY <1>5 DEF Answer
<1>6. ASSUME NEW a \in Writers, Record(a) PROVE Coming(c) \subseteq Coming(c)'
  BY <1>6 DEF Record
<1>7. ASSUME NEW a \in Writers, Cast(a) PROVE Coming(c) \subseteq Coming(c)'
  BY <1>7 DEF Cast, Attached
<1>8. ASSUME NEW a \in Writers, Told(a) PROVE Coming(c) \subseteq Coming(c)'
  BY <1>8 DEF Told
<1>9. ASSUME NEW a \in Writers, NEW d \in Conns, Tell(a, d)
      PROVE Coming(c) \subseteq Coming(c)' \cup known'[PaneOf[c]]
  <2>1. CASE d = c
    <3>1. frame[a] \in known'[PaneOf[c]]
      BY <1>9, <2>1 DEF Tell
    <3>2. \A w \in Writers : w # a => targets'[w] = targets[w]
      BY <1>9 DEF Tell
    <3> QED
      BY <1>9, <3>1, <3>2 DEF Tell
  <2>2. CASE d # c
    <3>1. \A w \in Writers : c \in targets[w] => c \in targets'[w]
      BY <1>9, <2>2 DEF Tell
    <3> QED
      BY <1>9, <3>1 DEF Tell
  <2> QED
    BY <2>1, <2>2
<1>10. ~ Restart
  BY PanesAssumption DEF Restart
<1> QED
  BY <1>1, <1>2, <1>3, <1>4, <1>5, <1>6, <1>7, <1>8, <1>9, <1>10 DEF Next

\* A pane to which no page is being written keeps its place and what it was shown.
LEMMA KnownGrows ==
  ASSUME IInv, Next, life' = life, NEW p \in Panes,
         ~ \E c \in Conns : PaneOf[c] = p /\ socket[c] = "up" /\ Answer(c)
  PROVE  /\ known[p] \subseteq known'[p] /\ cursor'[p] = cursor[p]
         /\ p \in misplaced' <=> p \in misplaced
         /\ \A c \in Conns : PaneOf[c] = p => (c \in loaded' <=> c \in loaded)
<1> USE DEF IInv, TypeOK, serverVars, castVars, paneVars
<1>1. ASSUME NEW c \in Conns, Dial(c) \/ Drop(c) \/ ReadEnds(c) \/ Load(c) PROVE UNCHANGED paneVars
  BY <1>1 DEF Dial, Drop, ReadEnds, Load
<1>2. ASSUME NEW a \in Writers, Record(a) \/ Cast(a) \/ Told(a) PROVE UNCHANGED paneVars
  BY <1>2 DEF Record, Cast, Told
<1>3. ASSUME NEW a \in Writers, NEW c \in Conns, Tell(a, c)
      PROVE  known[p] \subseteq known'[p] /\ UNCHANGED <<cursor, loaded, misplaced>>
  <2>1. PaneOf[c] \in Panes
    BY PanesAssumption
  <2> QED
    BY <1>3, <2>1 DEF Tell
<1>4. ASSUME NEW c \in Conns, Answer(c)
      PROVE  /\ known[p] \subseteq known'[p] /\ cursor'[p] = cursor[p]
             /\ p \in misplaced' <=> p \in misplaced
             /\ \A d \in Conns : PaneOf[d] = p => (d \in loaded' <=> d \in loaded)
  <2>1. CASE socket[c] # "up"
    BY <1>4, <2>1 DEF Answer
  <2>2. CASE socket[c] = "up"
    <3>1. PaneOf[c] # p /\ PaneOf[c] \in Panes
      BY <1>4, <2>2, PanesAssumption
    <3> QED
      BY <1>4, <2>2, <3>1 DEF Answer, Show
  <2> QED
    BY <2>1, <2>2
<1>5. ~ Restart
  BY PanesAssumption DEF Restart
<1> QED
  BY <1>1, <1>2, <1>3, <1>4, <1>5 DEF Next

\* What writing a page does to its pane.
LEMMA PageShown ==
  ASSUME IInv, NEW c \in Conns, socket[c] = "up", Answer(c)
  PROVE  LET p == PaneOf[c] IN
         /\ UNCHANGED <<transcript, life>> /\ Coming(c)' = Coming(c)
         /\ \/ /\ page[c].kind = "page" /\ known'[p] = WithPage(c) /\ cursor'[p] = page[c].cursor
               /\ p \notin misplaced' => p \notin misplaced /\ cursor[p].life \in {0, life}
            \/ c \notin loaded /\ cursor'[p] = NoCursor /\ loaded' = loaded
<1> c \in Writers /\ PaneOf[c] \in Panes
  BY PanesAssumption DEF Writers
<1>1. Coming(c)' = Coming(c)
  BY DEF Answer, IInv, TypeOK, Coming
<1>2. c \notin loaded
  BY DEF Answer, IInv, LoadedOnce
<1> QED
  BY <1>1, <1>2 DEF Answer, Show, IInv, TypeOK, WithPage

\* Where a cursor points, its pane was shown all before.
LEMMA CursorsHold ==
  ASSUME IInv, Next, life' = life
  PROVE  CursorsCount'
<1> SUFFICES ASSUME NEW p \in Panes
    PROVE  /\ cursor'[p].life <= life /\ (cursor'[p].life = 0 => cursor'[p] = NoCursor)
           /\ cursor'[p].life = life => cursor'[p].n <= Len(transcript')
           /\ cursor'[p].life = life /\ p \notin misplaced' => First(transcript', cursor'[p].n) \subseteq known'[p]
  BY DEF CursorsCount
<1>1. /\ Len(transcript) \in Nat /\ Len(transcript) <= Len(transcript')
      /\ \A k \in 1 .. Len(transcript) : transcript'[k] = transcript[k]
  BY TranscriptGrows
<1>2. Len(transcript') \in Nat
  BY Types, LenProperties DEF TypeOK
<1>3. life \in Nat /\ life > 0 /\ cursor[p] \in Cursors /\ cursor[p].n \in Nat
  BY PanesAssumption DEF IInv, TypeOK, Cursors
<1>4. \A n \in Nat : n <= Len(transcript) => First(transcript', n) \subseteq First(transcript, n) /\ n <= Len(transcript')
  BY <1>1, <1>2 DEF First
<1>5. ASSUME NEW c \in Conns, PaneOf[c] = p, socket[c] = "up", Answer(c), page[c].kind = "page",
             known'[p] = WithPage(c), cursor'[p] = page[c].cursor,
             p \notin misplaced' => p \notin misplaced /\ cursor[p].life \in {0, life}
      PROVE  /\ cursor'[p].life <= life /\ (cursor'[p].life = 0 => cursor'[p] = NoCursor)
             /\ cursor'[p].life = life => cursor'[p].n <= Len(transcript')
             /\ cursor'[p].life = life /\ p \notin misplaced' => First(transcript', cursor'[p].n) \subseteq known'[p]
  <2>1. /\ page[c].cursor.life = life /\ page[c].cursor.n <= Len(transcript)
        /\ p \notin misplaced' => First(transcript, page[c].cursor.n) \subseteq WithPage(c)
    BY <1>5 DEF IInv, PageFits, Answer
  <2>2. page[c].cursor.n \in Nat
    BY <1>5, PageCursor DEF IInv
  <2> QED
    BY <1>3, <1>4, <1>5, <2>1, <2>2
<1>6. ASSUME NEW c \in Conns, PaneOf[c] = p, socket[c] = "up", Answer(c)
      PROVE  /\ cursor'[p].life <= life /\ (cursor'[p].life = 0 => cursor'[p] = NoCursor)
             /\ cursor'[p].life = life => cursor'[p].n <= Len(transcript')
             /\ cursor'[p].life = life /\ p \notin misplaced' => First(transcript', cursor'[p].n) \subseteq known'[p]
  BY <1>3, <1>5, <1>6, PageShown, RecordKinds
<1>7. CASE ~ \E c \in Conns : PaneOf[c] = p /\ socket[c] = "up" /\ Answer(c)
  <2>1. known[p] \subseteq known'[p] /\ cursor'[p] = cursor[p] /\ (p \in misplaced' <=> p \in misplaced)
    BY <1>7, KnownGrows
  <2> QED
    BY <1>3, <1>4, <2>1 DEF IInv, CursorsCount
<1> QED
  BY <1>6, <1>7

\* A page that is made continues what its pane has: from the cursor, or from the first entry.
LEMMA PageMade ==
  ASSUME IInv, NEW c \in Conns, NEW r, r = History(PaneOf[c]), r.kind = "page",
         PaneOf[c] \notin misplaced, cursor[PaneOf[c]].life \in {0, life}
  PROVE  /\ First(transcript, r.cursor.n) \subseteq known[PaneOf[c]] \cup r.entries
         /\ SeenBy(1) \subseteq known[PaneOf[c]] \cup r.entries
<1> DEFINE p == PaneOf[c]
<1> p \in Panes
  BY PanesAssumption
<1>1. cursor[p].n \in Nat /\ Len(transcript) \in Nat /\ TypeOK /\ Bounded
  BY LenProperties, PanesAssumption DEF IInv, TypeOK, Cursors
<1>2. CASE cursor[p] = NoCursor
  <2>1. r = PageFrom(0)
    BY <1>2 DEF History
  <2>2. r.entries = SeenBy(1) /\ r.cursor.n = Len(transcript)
    <3>1. PageFrom(0).entries = SeenBy(0 + 1) /\ PageFrom(0).cursor.n = Len(transcript)
      BY <1>1, PageType
    <3>2. 0 + 1 = 1
      OBVIOUS
    <3> QED
      BY <2>1, <3>1, <3>2
  <2>3. First(transcript, Len(transcript)) = SeenBy(1)
    BY DEF First, SeenBy
  <2> QED
    BY <2>2, <2>3
<1>3. CASE cursor[p] # NoCursor
  <2>1. cursor[p].life = life /\ cursor[p].n <= Len(transcript) /\ First(transcript, cursor[p].n) \subseteq known[p]
    BY <1>3 DEF IInv, CursorsCount
  <2>2. r = PageFrom(cursor[p].n)
    BY <1>1, <1>3, <2>1 DEF History
  <2>3. r.entries = SeenBy(cursor[p].n + 1) /\ r.cursor.n = Len(transcript)
    <3>1. /\ PageFrom(cursor[p].n).entries = SeenBy(cursor[p].n + 1)
          /\ PageFrom(cursor[p].n).cursor.n = Len(transcript)
      BY <1>1, PageType
    <3> QED
      BY <2>2, <3>1
  <2>4. \A k \in 1 .. Len(transcript) : k \in 1 .. cursor[p].n \/ k \in cursor[p].n + 1 .. Len(transcript)
    BY <1>1
  <2>5. SeenBy(1) \subseteq First(transcript, cursor[p].n) \cup SeenBy(cursor[p].n + 1)
    BY <2>4 DEF SeenBy, First
  <2>6. First(transcript, Len(transcript)) = SeenBy(1)
    BY DEF First, SeenBy
  <2> QED
    BY <2>1, <2>3, <2>5, <2>6
<1> QED
  BY <1>2, <1>3

\* A history answers with a page of this life, if with a page.
LEMMA HistoryCursor ==
  ASSUME IInv, NEW p \in Panes, History(p).kind = "page"
  PROVE  History(p).cursor.life = life /\ History(p).cursor.n = Len(transcript)
<1>1. cursor[p].n \in Nat /\ TypeOK /\ Bounded
  BY PanesAssumption DEF IInv, TypeOK, Cursors
<1> QED
  BY <1>1, PageType, RecordKinds DEF History

LEMMA Pages ==
  ASSUME IInv, Next, life' = life
  PROVE  PageFits'
<1> SUFFICES ASSUME NEW c \in Conns, socket'[c] = "up", at'[c] = "answer", page'[c].kind = "page"
    PROVE  /\ page'[c].cursor.life = life /\ page'[c].cursor.n <= Len(transcript')
           /\ PaneOf[c] \notin misplaced' /\ cursor'[PaneOf[c]].life \in {0, life} =>
                /\ First(transcript', page'[c].cursor.n) \subseteq WithPage(c)'
                /\ SeenBy(1)' \subseteq WithPage(c)' \cup Coming(c)'
  BY DEF PageFits
<1> DEFINE p == PaneOf[c]
<1> c \in Writers /\ p \in Panes
  BY PanesAssumption DEF Writers
<1>1. /\ Len(transcript) \in Nat /\ Len(transcript) <= Len(transcript')
      /\ \A k \in 1 .. Len(transcript) : transcript'[k] = transcript[k]
      /\ SeenBy(1)' \subseteq SeenBy(1) \cup Coming(c)'
  BY TranscriptGrows
<1>2. CASE Load(c)
  <2>1. /\ page'[c] = History(p) /\ known' = known /\ cursor' = cursor /\ misplaced' = misplaced
        /\ transcript' = transcript
    BY <1>2 DEF Load, IInv, TypeOK, paneVars, serverVars
  <2>2. page'[c].cursor.life = life /\ page'[c].cursor.n = Len(transcript)
    BY <2>1, HistoryCursor
  <2>3. p \notin misplaced /\ cursor[p].life \in {0, life} =>
          /\ First(transcript, page'[c].cursor.n) \subseteq known[p] \cup page'[c].entries
          /\ SeenBy(1) \subseteq known[p] \cup page'[c].entries
    BY <2>1, PageMade
  <2>4. \A n : First(transcript', n) = First(transcript, n) /\ SeenBy(n)' = SeenBy(n)
    BY <2>1 DEF First, SeenBy
  <2>5. WithPage(c)' = known[p] \cup page'[c].entries
    BY <2>1 DEF WithPage
  <2> QED
    BY <1>1, <2>1, <2>2, <2>3, <2>4, <2>5
<1>3. CASE ~ Load(c)
  <2>1. /\ page'[c] = page[c] /\ at[c] = "answer" /\ socket[c] = "up" /\ ~ Answer(c)
    <3> USE DEF IInv, TypeOK, serverVars, castVars, paneVars
    <3>1. ASSUME NEW d \in Conns, Dial(d) \/ Drop(d) \/ ReadEnds(d)
          PROVE  page'[c] = page[c] /\ at[c] = "answer" /\ socket[c] = "up" /\ ~ Answer(c)
      BY <3>1 DEF Dial, Drop, ReadEnds, Answer
    <3>2. ASSUME NEW d \in Conns, Load(d)
          PROVE  page'[c] = page[c] /\ at[c] = "answer" /\ socket[c] = "up" /\ ~ Answer(c)
      BY <1>3, <3>2 DEF Load, Answer
    <3>3. ASSUME NEW d \in Conns, Answer(d)
          PROVE  page'[c] = page[c] /\ at[c] = "answer" /\ socket[c] = "up" /\ ~ Answer(c)
      BY <3>3 DEF Answer
    <3>4. ASSUME NEW a \in Writers, Record(a) \/ Cast(a) \/ Told(a)
          PROVE  page'[c] = page[c] /\ at[c] = "answer" /\ socket[c] = "up" /\ ~ Answer(c)
      BY <3>4 DEF Record, Cast, Told, Answer
    <3>5. ASSUME NEW a \in Writers, NEW d \in Conns, Tell(a, d)
          PROVE  page'[c] = page[c] /\ at[c] = "answer" /\ socket[c] = "up" /\ ~ Answer(c)
      BY <3>5 DEF Tell, Answer
    <3>6. ~ Restart
      BY PanesAssumption DEF Restart
    <3> QED
      BY <3>1, <3>2, <3>3, <3>4, <3>5, <3>6 DEF Next
  <2>2. ~ \E d \in Conns : PaneOf[d] = p /\ socket[d] = "up" /\ Answer(d)
    BY <2>1 DEF IInv, OneSocket
  <2>3. known[p] \subseteq known'[p] /\ cursor'[p] = cursor[p] /\ (p \in misplaced' <=> p \in misplaced)
    BY <2>2, KnownGrows
  <2>4. Coming(c) \subseteq Coming(c)' \cup known'[p]
    BY <2>1, ComingArrives
  <2>5. WithPage(c) \subseteq WithPage(c)' /\ known'[p] \subseteq WithPage(c)'
    BY <2>1, <2>3 DEF WithPage
  <2>6. /\ page[c].cursor.life = life /\ page[c].cursor.n <= Len(transcript)
        /\ p \notin misplaced /\ cursor[p].life \in {0, life} =>
             /\ First(transcript, page[c].cursor.n) \subseteq WithPage(c)
             /\ SeenBy(1) \subseteq WithPage(c) \cup Coming(c)
    BY <2>1 DEF IInv, PageFits
  <2>7. page[c].cursor.n \in Nat /\ Len(transcript') \in Nat
    <3>1. page[c].cursor.n \in Nat
      BY <2>1, PageCursor DEF IInv
    <3>2. Len(transcript') \in Nat
      BY Types, LenProperties DEF TypeOK
    <3> QED
      BY <3>1, <3>2
  <2>8. First(transcript', page[c].cursor.n) \subseteq First(transcript, page[c].cursor.n)
    BY <1>1, <2>1, <2>6, <2>7 DEF First
  <2> QED
    BY <1>1, <2>1, <2>3, <2>4, <2>5, <2>6, <2>7, <2>8 DEF First
<1> QED
  BY <1>2, <1>3

\* Nothing is missed: by a page that is written, or because what was known or coming stays so.
LEMMA NothingMissed ==
  ASSUME IInv, Next, life' = life
  PROVE  PaneMissesNothing'
<1> SUFFICES ASSUME NEW c \in Conns, PaneOf[c] \notin misplaced', c \in loaded', socket'[c] = "up"
    PROVE  SeenBy(1)' \subseteq known'[PaneOf[c]] \cup Coming(c)'
  BY DEF PaneMissesNothing, UpToDate
<1> DEFINE p == PaneOf[c]
<1> p \in Panes
  BY PanesAssumption
<1>1. SeenBy(1)' \subseteq SeenBy(1) \cup Coming(c)'
  BY TranscriptGrows
<1>2. CASE \E d \in Conns : PaneOf[d] = p /\ socket[d] = "up" /\ Answer(d)
  <2>1. PICK d \in Conns : PaneOf[d] = p /\ socket[d] = "up" /\ Answer(d)
    BY <1>2
  <2>2. socket[c] = "up" /\ d = c
    BY <2>1 DEF Answer, IInv, OneSocket
  <2>3. Answer(c)
    BY <2>1, <2>2
  <2>4. /\ SeenBy(1)' = SeenBy(1) /\ Coming(c)' = Coming(c) /\ known'[p] = WithPage(c)
        /\ page[c].kind = "page" /\ p \notin misplaced /\ cursor[p].life \in {0, life}
    BY <2>2, <2>3, PageShown DEF SeenBy
  <2> QED
    BY <2>2, <2>3, <2>4 DEF IInv, PageFits, Answer
<1>3. CASE ~ \E d \in Conns : PaneOf[d] = p /\ socket[d] = "up" /\ Answer(d)
  <2>1. known[p] \subseteq known'[p] /\ p \notin misplaced /\ c \in loaded
    BY <1>3, KnownGrows
  <2>2. socket[c] = "up"
    <3>1. ~ Restart
      BY PanesAssumption DEF Restart, IInv, TypeOK
    <3>2. socket[c] # "unused"
      BY <2>1 DEF IInv, LoadedOnce
    <3> QED
      BY <3>1, <3>2 DEF IInv, TypeOK, Next, Dial, Drop, ReadEnds, Load, Answer, Record, Cast, Told,
                        Tell, castVars
  <2>3. Coming(c) \subseteq Coming(c)' \cup known'[p]
    BY <2>2, ComingArrives
  <2>4. SeenBy(1) \subseteq known[p] \cup Coming(c)
    BY <2>1, <2>2 DEF IInv, PaneMissesNothing, UpToDate
  <2> QED
    BY <1>1, <2>1, <2>3, <2>4
<1> QED
  BY <1>2, <1>3

LEMMA Steps == IInv /\ [Next]_vars => IInv'
<1>1. ASSUME IInv, Next, life' = life PROVE IInv'
  BY <1>1, Types, Sockets, CursorsHold, Pages, NothingMissed DEF IInv
<1>2. Next => Restart \/ life' = life
  BY DEF Next, Dial, Drop, ReadEnds, Load, Answer, Record, Cast, Told, Tell
<1> QED
  BY <1>1, <1>2, Restarted, Stutter

-----------------------------------------------------------------------------
(* The theorems.                                                           *)

\* The invariant holds in every reachable state, whoever connects, writes, drops and restarts.
THEOREM Invariance == Spec => []IInv
<1>1. Init => IInv
  BY Initially
<1>2. IInv /\ [Next]_vars => IInv'
  BY Steps
<1> QED
  BY <1>1, <1>2, PTL DEF Spec

\* Every variable keeps its type: a page is entries and a cursor, a frame in hand an entry.
THEOREM TypeCorrectness == Spec => []TypeOK
<1>1. IInv => TypeOK
  BY DEF IInv
<1> QED
  BY <1>1, Invariance, PTL

\* serve, broadcast and historyPayload: between the page a pane reads and the broadcasts around
\* it no entry is lost, for any number of panes, reconnections and lives.
THEOREM NoEntryIsMissed == Spec => []PaneMissesNothing
<1>1. IInv => PaneMissesNothing
  BY DEF IInv
<1> QED
  BY <1>1, Invariance, PTL

-----------------------------------------------------------------------------
(* The inductive invariant of a connector.                                    *)

\* What the one watermark, or that of a channel, will be once the work in hand is saved.
Reach == IF up = "saving" \/ (up = "deciding" /\ kind = "telegram") THEN reached ELSE Since
ChannelReach(c) == IF up \in {"deciding", "saving"} /\ c = Head(rest) THEN reached ELSE mark[c]

\* The arrivals that can be shown without a crash or a failed write to bring them back.
Ahead(m) ==
  \/ m \in due
  \/ kind \in {"gmail", "slack"} /\ Stamp[m] > Reach
  \/ kind = "telegram" /\ m >= Reach
  \/ kind = "discord" /\ m > ChannelReach(Place[m])
  \/ kind = "wa" /\ m > forgotten

\* What is ahead was shown for a fault only.
Repeats ==
  \A m \in Mail : shown[m] <= 1 + faults /\ (Ahead(m) => shown[m] <= faults)

\* The types, but for the bounds that the other parts give.
ReaderTypes ==
  /\ kind \in Services /\ box \in 0 .. MaxMail /\ forgotten \in Nat
  /\ key \in {"none", "stale", "fresh"} /\ mark \in [Channels -> Nat]
  /\ up \in {"down", "idle", "deciding", "saving", "next"}
  /\ cancelled \in BOOLEAN /\ table \subseteq Senders
  /\ rest \in Seq(Channels) /\ reached \in Nat /\ due \subseteq Arrived
  /\ shown \in [Mail -> Nat] /\ asked \in Seq(Arrived) /\ left \subseteq Arrived
  /\ faults \in 0 .. MaxFaults /\ lost \in BOOLEAN

\* Arrivals are in hand only while they are put to the decider; gmail and slack save in between.
Phases ==
  /\ up \in {"down", "idle", "next"} => due = {}
  /\ up = "saving" /\ kind \in {"telegram", "discord"} => due = {}
  /\ kind = "wa" => up \in {"down", "idle", "deciding"}
  /\ kind # "discord" => up # "next"

\* An arrival is settled once it, or one with its stamp, was put to the decider or left out.
Settled(m) == m \in Handled \cup left \/ \E x \in Handled : Stamp[x] = Stamp[m]

\* gmail and slack: what the watermark will pass is settled, and so is what is older than an
\* arrival in hand, unless it is in hand too.
StampInv ==
  kind \in {"gmail", "slack"} =>
  /\ forgotten = 0 /\ Since <= Reach
  /\ Since = 0 \/ \E x \in Handled : Stamp[x] = Since
  /\ Reach = 0 \/ \E x \in Handled : Stamp[x] = Reach
  /\ \A m \in due : Reach <= Stamp[m]
  /\ \A x \in Arrived : Stamp[x] <= Reach => Settled(x)
  /\ \A m \in due, x \in Arrived : Stamp[x] < Stamp[m] => x \in due \/ Settled(x)

\* telegram: what is below the offset to come is in hand or was put to the decider.
OffsetInv ==
  kind = "telegram" =>
  /\ forgotten <= box + 1 /\ Since <= Reach /\ Reach <= box + 1
  /\ \A m \in due : m < Reach
  /\ \A m \in Arrived \ Nobody : /\ m < forgotten => m \in Handled
                                 /\ m < Since => m \in Handled
                                 /\ m < Reach => m \in Handled \cup due

\* discord: the same of each channel, and of what is older than an arrival in hand.
ChannelInv ==
  kind = "discord" =>
  /\ forgotten = 0
  /\ up \in {"deciding", "saving", "next"} => rest # <<>>
  /\ \A c \in Channels : mark[c] <= box
  /\ \A m \in Arrived \ Nobody : m <= mark[Place[m]] => m \in Handled \cup left
  /\ up \in {"deciding", "saving"} =>
       /\ reached <= box /\ mark[Head(rest)] <= reached /\ due \subseteq In(Head(rest))
       /\ \A x \in In(Head(rest)) \ Nobody :
            /\ x <= reached => x \in Handled \cup left \cup due
            /\ \A m \in due : x < m => x \in Handled \cup left \cup due

\* wa: what was pushed is in hand, one arrival at a time, was put to the decider, or was lost.
PushInv ==
  kind = "wa" =>
  /\ forgotten <= box
  /\ \A m \in due : m <= forgotten /\ \A x \in due : x = m
  /\ \A m \in Arrived \ Nobody : m <= forgotten => m \in Handled \cup left \cup due

ConnectorIInv ==
  /\ ReaderTypes /\ Phases /\ Repeats
  /\ StampInv /\ OffsetInv /\ ChannelInv /\ PushInv

-----------------------------------------------------------------------------
(* Lemmas about arrivals and pages.                                           *)

LEMMA MailNumbers ==
  /\ Mail \subseteq Nat /\ \A m \in Mail : m >= 1 /\ Stamp[m] \in Nat /\ Stamp[m] >= 1 /\ Place[m] \in Channels
  /\ \A m, n \in Mail : m < n => Stamp[m] <= Stamp[n]
  /\ Head(ChannelList) \in Channels
<1>1. MaxMail \in Nat /\ Stamp \in [Mail -> Nat \ {0}] /\ Place \in [Mail -> Channels]
      /\ \A m, n \in Mail : m < n => Stamp[m] <= Stamp[n]
  BY ConnectorAssumption
<1>2. Head(ChannelList) \in Channels
  BY ConnectorAssumption, HeadTailProperties
<1> QED
  BY <1>1, <1>2 DEF Mail

LEMMA ArrivedMail ==
  ASSUME box \in 0 .. MaxMail
  PROVE  /\ Arrived \subseteq Mail /\ box \in Nat
         /\ \A m \in Arrived : m \in Nat /\ m >= 1 /\ m <= box
         /\ IsFiniteSet(Arrived)
<1>1. MaxMail \in Nat
  BY ConnectorAssumption
<1>2. IsFiniteSet(1 .. box)
  BY <1>1, FS_Interval
<1> QED
  BY <1>1, <1>2 DEF Arrived, Mail

\* What was put to the decider is remembered.
LEMMA HandledGrows ==
  ASSUME asked \in Seq(Arrived), NEW m \in Arrived, Ask(m)
  PROVE  Handled' = Handled \cup {m} /\ asked' \in Seq(Arrived)
<1>1. CASE m \in Handled
  <2>1. asked' = asked
    BY <1>1 DEF Ask
  <2>2. Handled' = Handled
    BY <2>1 DEF Handled
  <2> QED
    BY <1>1, <2>1, <2>2
<1>2. CASE m \notin Handled
  <2>1. asked' = Append(asked, m)
    BY <1>2 DEF Ask
  <2>2. /\ Len(asked) \in Nat /\ DOMAIN asked = 1 .. Len(asked)
        /\ asked' \in Seq(Arrived) /\ Len(asked') = Len(asked) + 1 /\ DOMAIN asked' = 1 .. Len(asked')
        /\ asked'[Len(asked) + 1] = m
        /\ \A i \in 1 .. Len(asked) : asked'[i] = asked[i]
    BY <2>1, AppendProperties, LenProperties
  <2>3. \A i \in 1 .. Len(asked') : i = Len(asked) + 1 \/ i \in 1 .. Len(asked)
    BY <2>2
  <2>4. \A i \in 1 .. Len(asked) : i \in 1 .. Len(asked')
    BY <2>2
  <2>5. Len(asked) + 1 \in 1 .. Len(asked')
    BY <2>2
  <2>6. Handled' = { asked'[i] : i \in 1 .. Len(asked') } /\ Handled = { asked[i] : i \in 1 .. Len(asked) }
    BY <2>2 DEF Handled
  <2> QED
    BY <2>2, <2>3, <2>4, <2>5, <2>6
<1> QED
  BY <1>1, <1>2

LEMMA HandledArrived ==
  ASSUME asked \in Seq(Arrived)
  PROVE  Handled \subseteq Arrived
BY LenProperties, ElementOfSeq DEF Handled

\* The oldest n of a set of arrivals hold with each what is older.
LEMMA OldestFirst ==
  ASSUME NEW S, IsFiniteSet(S), S \subseteq Nat, NEW n \in Nat, NEW m \in Oldest(S, n),
         NEW x \in S, x < m
  PROVE  x \in Oldest(S, n)
<1> DEFINE older(y) == { z \in S : z < y }
<1>a. m \in S /\ m \in Nat /\ x \in Nat /\ Cardinality(older(m)) < n
  BY DEF Oldest
<1>1. ASSUME NEW z \in older(x)
      PROVE  z \in older(m)
  <2>1. z \in S /\ z \in Nat /\ z < x
    BY <1>1
  <2> QED
    BY <1>a, <2>1
<1>2. IsFiniteSet(older(m))
  BY FS_Subset
<1> HIDE DEF older
<1>b. older(x) \subseteq older(m)
  BY <1>1
<1>4. /\ Cardinality(older(x)) \in Nat /\ Cardinality(older(m)) \in Nat
      /\ Cardinality(older(x)) <= Cardinality(older(m))
  BY <1>1, <1>2, <1>b, FS_Subset, FS_CardinalityType
<1>5. Cardinality(older(x)) < n
  BY <1>a, <1>4
<1> QED
  BY <1>5 DEF Oldest, older

\* A page of updates has a last one.
LEMMA LastOf ==
  ASSUME NEW S, S \subseteq Arrived, S # {}, box \in 0 .. MaxMail
  PROVE  Last(S) \in S /\ \A x \in S : x <= Last(S)
<1> SUFFICES \E m \in S : \A x \in S : x <= m
  BY DEF Last
<1> DEFINE above(m) == { x \in S : x > m }
           T == { above(m) : m \in S }
<1>1. \A m \in S : m \in Nat
  BY ArrivedMail
<1>2. IsFiniteSet(S)
  BY ArrivedMail, FS_Subset
<1>3. T \subseteq SUBSET S /\ T # {}
  OBVIOUS
<1>4. PICK A \in T : \A B \in T : ~ (B \subseteq A /\ B # A)
  <2>1. T \subseteq FiniteSubsetsOf(S)
    BY <1>2, <1>3, FS_Subset DEF FiniteSubsetsOf
  <2>2. PICK A \in T : \A B \in T : <<B, A>> \notin StrictSubsetOrdering(S)
    BY <1>3, <2>1, FS_StrictSubsetOrderingWellFounded, WFMin
  <2>3. \A B \in T : ~ (B \subseteq A /\ B # A)
    BY <1>3, <2>2 DEF StrictSubsetOrdering
  <2> QED
    BY <2>3
<1>5. PICK m \in S : A = above(m)
  BY <1>4
<1>6. ASSUME NEW x \in S, ~ (x <= m)
      PROVE  FALSE
  <2>1. above(x) \subseteq above(m) /\ x \in above(m) /\ x \notin above(x)
    BY <1>1, <1>6
  <2> QED
    BY <1>4, <1>5, <2>1
<1> QED
  BY <1>6

\* The two ways an arrival goes through the decider: with its answer, or with a failed write.
LEMMA Presenting ==
  ASSUME NEW m \in Mail, shown \in [Mail -> Nat]
  PROVE  /\ Decide(m) => faults' = faults
         /\ FilingFails(m) => faults < MaxFaults /\ faults' = faults + 1
         /\ Decide(m) \/ FilingFails(m) =>
              /\ shown' \in [Mail -> Nat]
              /\ \A x \in Mail : x # m => shown'[x] = shown[x]
              /\ shown'[m] = shown[m] \/ shown'[m] = shown[m] + 1
<1>1. ASSUME Decide(m) \/ FilingFails(m)
      PROVE  shown' = shown \/ shown' = [shown EXCEPT ![m] = @ + 1]
  BY <1>1 DEF Decide, Unanswered, Refused, Presented, Delivered, FilingFails
<1>2. Decide(m) => faults' = faults
  BY DEF Decide, Unanswered, Refused, Presented
<1>3. FilingFails(m) => faults < MaxFaults /\ faults' = faults + 1
  BY DEF FilingFails
<1> QED
  BY <1>1, <1>2, <1>3

\* An arrival is shown for a fault, or is behind the watermark from then on.
LEMMA RepeatsKeep ==
  ASSUME ReaderTypes, Repeats, faults' = faults \/ faults' = faults + 1,
         \A x \in Mail :
            \/ shown'[x] = shown[x] /\ (faults' = faults => (Ahead(x)' => Ahead(x)))
            \/ shown'[x] = shown[x] + 1 /\ Ahead(x) /\ (faults' = faults => ~ Ahead(x)')
  PROVE  Repeats'
<1> SUFFICES ASSUME NEW x \in Mail
             PROVE  shown'[x] <= 1 + faults' /\ (Ahead(x)' => shown'[x] <= faults')
  BY DEF Repeats
<1>1. shown[x] \in Nat /\ faults \in Nat /\ shown[x] <= 1 + faults /\ (Ahead(x) => shown[x] <= faults)
  BY ConnectorAssumption DEF ReaderTypes, Repeats
<1> HIDE DEF Ahead
<1>2. CASE shown'[x] = shown[x] /\ (faults' = faults => (Ahead(x)' => Ahead(x)))
  BY <1>1, <1>2
<1>3. CASE shown'[x] = shown[x] + 1 /\ Ahead(x) /\ (faults' = faults => ~ Ahead(x)')
  BY <1>1, <1>3
<1> QED
  BY <1>2, <1>3

-----------------------------------------------------------------------------
(* Steps that touch no arrival: the owner, the start, a new arrival, an end.   *)

\* The owner, the credential, the start and the stop.
Aside ==
  /\ UNCHANGED <<kind, box, forgotten, mark, rest, due, reached, shown, asked, left, lost>>
  /\ up' = up \/ (up = "down" /\ up' = "idle")
  /\ faults' = faults \/ (faults < MaxFaults /\ faults' = faults + 1)
  /\ key' \in {key, "none", "stale", "fresh"} /\ table' \in {table} \cup SUBSET Senders
  /\ cancelled' \in {cancelled, TRUE}

\* The process ends: told to between two readings (wa at any time), or by a crash.
Abandons ==
  /\ UNCHANGED <<kind, box, forgotten, key, mark, shown, asked, lost>>
  /\ up' = "down" /\ cancelled' = FALSE /\ table' = {} /\ rest' = <<>> /\ due' = {} /\ reached' = 0
  /\ left' = IF kind = "wa" THEN left \cup due ELSE left
  /\ \/ (up = "idle" \/ kind = "wa") /\ faults' = faults
     \/ faults < MaxFaults /\ faults' = faults + 1

LEMMA OwnerAside == Login \/ TokenAges \/ GmailAccessToken \/ Run \/ Stop => Aside \/ UNCHANGED connectorVars
<1> USE DEF Aside, service, process, history
<1>1. Login => Aside
  BY DEF Login, GmailLogin, SlackLogin, Pair, PasteToken
<1>2. TokenAges => Aside
  BY DEF TokenAges
<1>3. GmailAccessToken => Aside
  BY DEF GmailAccessToken
<1>4. Run => Aside
  BY DEF Run, GmailRun, SlackRun, DiscordRun, TelegramRun, WaRun, Boot, LoadTable
<1>5. Stop => Aside
  BY DEF Stop
<1> QED
  BY <1>1, <1>2, <1>3, <1>4, <1>5

LEMMA EndAbandons == Exit \/ Crash => Abandons
BY DEF Exit, Crash, Ended, Abandons, service, history

LEMMA AsideKeeps ==
  ASSUME ConnectorIInv, Aside \/ UNCHANGED connectorVars
  PROVE  ConnectorIInv'
<1>1. /\ kind' = kind /\ box' = box /\ forgotten' = forgotten /\ mark' = mark /\ rest' = rest
      /\ due' = due /\ reached' = reached /\ shown' = shown /\ asked' = asked /\ left' = left
      /\ lost' = lost /\ (up' = up \/ (up = "down" /\ up' = "idle"))
      /\ faults' = faults \/ (faults < MaxFaults /\ faults' = faults + 1)
  BY DEF Aside, connectorVars
<1>2. /\ Reach' = Reach /\ Since' = Since /\ Handled' = Handled /\ Arrived' = Arrived
      /\ \A c : ChannelReach(c)' = ChannelReach(c) /\ In(c)' = In(c)
      /\ \A m : Settled(m)' <=> Settled(m)
  BY <1>1 DEF Reach, ChannelReach, Since, Handled, Arrived, In, Settled
<1>3. \A m : Ahead(m)' <=> Ahead(m)
  BY <1>1, <1>2 DEF Ahead
<1>4. ReaderTypes'
  <2>1. key' \in {"none", "stale", "fresh"} /\ table' \subseteq Senders /\ cancelled' \in BOOLEAN
    BY DEF Aside, connectorVars, ConnectorIInv, ReaderTypes
  <2>2. faults' \in 0 .. MaxFaults
    BY <1>1, ConnectorAssumption DEF ConnectorIInv, ReaderTypes
  <2> QED
    BY <1>1, <1>2, <2>1, <2>2 DEF ConnectorIInv, ReaderTypes
<1>5. Phases'
  BY <1>1 DEF ConnectorIInv, Phases
<1>6. Repeats'
  BY <1>1, <1>3, RepeatsKeep DEF ConnectorIInv
<1>7. StampInv' /\ OffsetInv'
  BY <1>1, <1>2 DEF ConnectorIInv, StampInv, OffsetInv
<1>8. ChannelInv' /\ PushInv'
  BY <1>1, <1>2 DEF ConnectorIInv, ChannelInv, PushInv
<1> QED
  BY <1>4, <1>5, <1>6, <1>7, <1>8 DEF ConnectorIInv

LEMMA AbandonsKeeps ==
  ASSUME ConnectorIInv, Abandons
  PROVE  ConnectorIInv'
<1>1. /\ kind' = kind /\ box' = box /\ forgotten' = forgotten /\ mark' = mark /\ rest' = <<>>
      /\ due' = {} /\ reached' = 0 /\ shown' = shown /\ asked' = asked
      /\ left' = (IF kind = "wa" THEN left \cup due ELSE left)
      /\ lost' = lost /\ up' = "down" /\ key' = key /\ cancelled' = FALSE /\ table' = {}
      /\ \/ (up = "idle" \/ kind = "wa") /\ faults' = faults
         \/ faults < MaxFaults /\ faults' = faults + 1
  BY DEF Abandons
<1>2. /\ Reach' = Since /\ Since' = Since /\ Handled' = Handled /\ Arrived' = Arrived
      /\ \A c : ChannelReach(c)' = mark[c] /\ In(c)' = In(c)
      /\ kind # "wa" => left' = left /\ \A m : Settled(m)' <=> Settled(m)
  BY <1>1 DEF Reach, ChannelReach, Since, Handled, Arrived, In, Settled
<1>3. ReaderTypes'
  <2>1. faults' \in 0 .. MaxFaults
    BY <1>1, ConnectorAssumption DEF ConnectorIInv, ReaderTypes
  <2>2. <<>> \in Seq(Channels) /\ left' \subseteq Arrived
    BY <1>1 DEF ConnectorIInv, ReaderTypes
  <2> QED
    BY <1>1, <1>2, <2>1, <2>2 DEF ConnectorIInv, ReaderTypes
<1>4. Phases'
  BY <1>1 DEF Phases
<1>5. Repeats'
  <2>1. ASSUME NEW x \in Mail, faults' = faults, Ahead(x)'
        PROVE  Ahead(x)
    <3>1. kind = "wa" \/ (Reach = Since /\ ChannelReach(Place[x]) = mark[Place[x]])
      BY <1>1, <2>1, ConnectorAssumption DEF ConnectorIInv, ReaderTypes, Reach, ChannelReach
    <3> QED
      BY <1>1, <1>2, <2>1, <3>1 DEF Ahead
  <2> QED
    BY <1>1, <2>1, RepeatsKeep DEF ConnectorIInv
<1>6. StampInv'
  <2> SUFFICES ASSUME kind \in {"gmail", "slack"} PROVE StampInv'
    BY <1>1 DEF StampInv
  <2>1. Since \in Nat /\ Reach \in Nat /\ \A x \in Arrived : Stamp[x] \in Nat
    BY MailNumbers, ArrivedMail DEF ConnectorIInv, ReaderTypes, Since, Reach
  <2>2. \A x \in Arrived : Stamp[x] <= Since => Settled(x)
    BY <2>1 DEF ConnectorIInv, StampInv
  <2> QED
    BY <1>1, <1>2, <2>1, <2>2 DEF ConnectorIInv, StampInv
<1>7. OffsetInv'
  <2> SUFFICES ASSUME kind = "telegram" PROVE OffsetInv'
    BY <1>1 DEF OffsetInv
  <2>1. Since \in Nat /\ Reach \in Nat /\ box \in Nat
    BY MailNumbers, ArrivedMail DEF ConnectorIInv, ReaderTypes, Since, Reach
  <2> QED
    BY <1>1, <1>2, <2>1 DEF ConnectorIInv, OffsetInv
<1>8. ChannelInv'
  BY <1>1, <1>2 DEF ConnectorIInv, ChannelInv
<1>9. PushInv'
  BY <1>1, <1>2 DEF ConnectorIInv, PushInv
<1> QED
  BY <1>3, <1>4, <1>5, <1>6, <1>7, <1>8, <1>9 DEF ConnectorIInv

\* A new arrival is behind no watermark; gmail's and slack's may tie with it, and then with an
\* arrival that was put to the decider.
LEMMA ArriveKeeps ==
  ASSUME ConnectorIInv, Arrive
  PROVE  ConnectorIInv'
<1>1. /\ kind' = kind /\ box' = box + 1 /\ forgotten' = forgotten /\ mark' = mark /\ rest' = rest
      /\ due' = due /\ reached' = reached /\ shown' = shown /\ asked' = asked /\ left' = left
      /\ lost' = lost /\ up' = up /\ key' = key /\ cancelled' = cancelled /\ table' = table
      /\ faults' = faults /\ box < MaxMail
  BY DEF Arrive, process, history
<1> DEFINE new == box + 1
<1>2. /\ box \in 0 .. MaxMail /\ box \in Nat /\ MaxMail \in Nat /\ new \in Mail /\ new \notin Arrived
      /\ Arrived' = Arrived \cup {new} /\ box' = new /\ new > box /\ box' \in 0 .. MaxMail
      /\ \A m \in Arrived : m \in Nat /\ m \in Mail /\ m < new
  <2>1. box \in 0 .. MaxMail /\ MaxMail \in Nat
    BY ConnectorAssumption DEF ConnectorIInv, ReaderTypes
  <2>2. /\ box \in Nat /\ new \in 1 .. MaxMail /\ new \notin 1 .. box /\ new > box /\ new \in 0 .. MaxMail
        /\ 1 .. new = (1 .. box) \cup {new} /\ \A m \in 1 .. box : m \in Nat /\ m \in 1 .. MaxMail /\ m < new
    BY <1>1, <2>1
  <2> QED
    BY <1>1, <2>1, <2>2 DEF Arrived, Mail
<1> HIDE DEF new
<1>3. /\ Reach' = Reach /\ Since' = Since /\ Handled' = Handled
      /\ \A c : ChannelReach(c)' = ChannelReach(c)
      /\ \A m : Settled(m)' <=> Settled(m)
  BY <1>1 DEF Reach, ChannelReach, Since, Handled, Settled
<1>4. ReaderTypes'
  <2>1. asked \in Seq(Arrived')
    BY <1>2 DEF ConnectorIInv, ReaderTypes
  <2> QED
    BY <1>1, <1>2, <2>1 DEF ConnectorIInv, ReaderTypes
<1>5. Phases'
  BY <1>1 DEF ConnectorIInv, Phases
<1>6. Repeats'
  <2>1. \A m : Ahead(m)' <=> Ahead(m)
    BY <1>1, <1>3 DEF Ahead
  <2> QED
    BY <1>1, <2>1, RepeatsKeep DEF ConnectorIInv
<1>7. StampInv'
  <2> SUFFICES ASSUME kind \in {"gmail", "slack"} PROVE StampInv'
    BY <1>1 DEF StampInv
  <2>1. /\ Since \in Nat /\ Reach \in Nat /\ due \subseteq Arrived /\ Handled \subseteq Arrived
        /\ Stamp[new] \in Nat /\ Stamp[new] >= 1
        /\ \A x \in Arrived : Stamp[x] \in Nat /\ Stamp[x] <= Stamp[new]
    BY <1>2, MailNumbers, HandledArrived DEF ConnectorIInv, ReaderTypes, Since, Reach
  <2>2. Stamp[new] <= Reach => Settled(new)
    BY <2>1 DEF ConnectorIInv, StampInv, Settled
  <2>3. \A m \in due : ~ (Stamp[new] < Stamp[m])
    BY <2>1
  <2> QED
    BY <1>1, <1>2, <1>3, <2>2, <2>3 DEF ConnectorIInv, StampInv
<1>8. OffsetInv'
  <2> SUFFICES ASSUME kind = "telegram" PROVE OffsetInv'
    BY <1>1 DEF OffsetInv
  <2>1. Since \in Nat /\ Reach \in Nat /\ forgotten \in Nat
    BY MailNumbers DEF ConnectorIInv, ReaderTypes, Since, Reach
  <2>2. forgotten <= new /\ Since <= Reach /\ Reach <= new
    BY DEF ConnectorIInv, OffsetInv, new
  <2>3. /\ ~ (new < forgotten) /\ ~ (new < Since) /\ ~ (new < Reach)
        /\ forgotten <= box' + 1 /\ Reach <= box' + 1
    BY <1>2, <2>1, <2>2
  <2> QED
    BY <1>1, <1>2, <1>3, <2>2, <2>3 DEF ConnectorIInv, OffsetInv
<1>9. ChannelInv'
  <2> SUFFICES ASSUME kind = "discord" PROVE ChannelInv'
    BY <1>1 DEF ChannelInv
  <2>1. /\ Place[new] \in Channels /\ \A c \in Channels : mark[c] \in Nat /\ mark[c] <= box
        /\ reached \in Nat /\ due \subseteq Arrived
    BY <1>2, MailNumbers DEF ConnectorIInv, ReaderTypes, ChannelInv
  <2>2. \A c \in Channels : mark[c] <= box'
    BY <1>2, <2>1
  <2>3. \A m \in Arrived' \ Nobody : m <= mark'[Place[m]] => m \in Handled' \cup left'
    BY <1>1, <1>2, <1>3, <2>1 DEF ConnectorIInv, ChannelInv
  <2>4. ASSUME up \in {"deciding", "saving"}
        PROVE  /\ reached <= box' /\ mark[Head(rest)] <= reached /\ due \subseteq In(Head(rest))'
               /\ \A x \in In(Head(rest))' \ Nobody :
                    /\ x <= reached => x \in Handled \cup left \cup due
                    /\ \A m \in due : x < m => x \in Handled \cup left \cup due
    <3>1. /\ reached <= box /\ mark[Head(rest)] <= reached /\ due \subseteq In(Head(rest))
          /\ \A x \in In(Head(rest)) \ Nobody :
               /\ x <= reached => x \in Handled \cup left \cup due
               /\ \A m \in due : x < m => x \in Handled \cup left \cup due
      BY <2>4 DEF ConnectorIInv, ChannelInv
    <3>2. /\ In(Head(rest)) \subseteq In(Head(rest))'
          /\ \A x \in In(Head(rest))' : x \in In(Head(rest)) \/ x = new
      BY <1>1, <1>2 DEF In
    <3>3. ~ (new <= reached) /\ \A m \in due : ~ (new < m)
      BY <1>2, <2>1, <3>1
    <3> QED
      BY <1>2, <2>1, <3>1, <3>2, <3>3
  <2>5. forgotten' = 0 /\ (up' \in {"deciding", "saving", "next"} => rest' # <<>>)
    BY <1>1 DEF ConnectorIInv, ChannelInv
  <2> QED
    BY <1>1, <1>3, <2>2, <2>3, <2>4, <2>5 DEF ChannelInv
<1>10. PushInv'
  <2> SUFFICES ASSUME kind = "wa" PROVE PushInv'
    BY <1>1 DEF PushInv
  <2>1. forgotten \in Nat /\ forgotten <= box
    BY DEF ConnectorIInv, ReaderTypes, PushInv
  <2>2. ~ (new <= forgotten) /\ forgotten <= box'
    BY <1>2, <2>1
  <2> QED
    BY <1>1, <1>2, <1>3, <2>2 DEF ConnectorIInv, PushInv
<1> QED
  BY <1>4, <1>5, <1>6, <1>7, <1>8, <1>9, <1>10 DEF ConnectorIInv

-----------------------------------------------------------------------------
(* gmail and slack.                                                           *)

\* A page holds arrivals after the watermark, whichever it leaves out.
LEMMA PagesAfter ==
  /\ GmailPage(Since) \subseteq After(Since)
  /\ SlackPage(Since) \subseteq After(Since)
<1>1. ASSUME NEW S, NEW n
      PROVE  Newest(S, n) \subseteq S
  BY DEF Newest
<1>2. GmailPage(Since) \subseteq After(Since)
  BY <1>1 DEF GmailPage, After
<1>3. ASSUME NEW m \in SlackPage(Since)
      PROVE  m \in After(Since)
  <2> DEFINE late(c) == In(c) \cap After(Since)
             before(i) == UNION { late(ChannelList[j]) : j \in 1 .. i - 1 }
             room(i) == IF Cardinality(before(i)) < MaxBatch THEN MaxBatch - Cardinality(before(i)) ELSE 0
  <2>1. SlackPage(Since) = UNION { Newest(late(ChannelList[i]), room(i)) : i \in Listed }
    BY DEF SlackPage
  <2> HIDE DEF room
  <2>2. PICK i \in Listed : m \in Newest(late(ChannelList[i]), room(i))
    BY <2>1
  <2>3. m \in late(ChannelList[i])
    BY <1>1, <2>2
  <2> QED
    BY <2>3
<1> QED
  BY <1>2, <1>3

LEMMA StampFetchKeeps ==
  ASSUME ConnectorIInv, GmailFetch \/ SlackFetch
  PROVE  ConnectorIInv'
<1>1. /\ kind \in {"gmail", "slack"} /\ up = "idle" /\ due' \subseteq After(Since)
      /\ left' = left \cup (After(Since) \ due') /\ up' = IF due' = {} THEN "idle" ELSE "deciding"
      /\ kind' = kind /\ box' = box /\ forgotten' = forgotten /\ key' = key /\ mark' = mark
      /\ rest' = rest /\ reached' = reached /\ cancelled' = cancelled /\ table' = table
      /\ shown' = shown /\ asked' = asked /\ faults' = faults /\ lost' = lost
  BY PagesAfter DEF GmailFetch, SlackFetch, Reading, process
<1>2. /\ box \in 0 .. MaxMail /\ mark \in [Channels -> Nat] /\ due = {} /\ After(Since) \subseteq Arrived
      /\ Since \in Nat /\ \A x \in Arrived : x \in Mail /\ Stamp[x] \in Nat
      /\ \A x \in After(Since) : Stamp[x] > Since
      /\ \A x \in Arrived : x \in After(Since) \/ Stamp[x] <= Since
  BY <1>1, MailNumbers, ArrivedMail DEF ConnectorIInv, ReaderTypes, Phases, After, Since
<1>3. /\ Reach = Since /\ Reach' = Since /\ Since' = Since /\ Handled' = Handled /\ Arrived' = Arrived
      /\ \A m : Settled(m) => Settled(m)'
  BY <1>1 DEF Reach, Since, Handled, Arrived, Settled
<1>4. ReaderTypes'
  BY <1>1, <1>2, <1>3 DEF ConnectorIInv, ReaderTypes
<1>5. Phases'
  BY <1>1 DEF Phases
<1>6. Repeats'
  <2>1. ASSUME NEW x \in Mail, Ahead(x)'
        PROVE  Ahead(x)
    BY <1>1, <1>2, <1>3, <2>1 DEF Ahead
  <2> QED
    BY <1>1, <2>1, RepeatsKeep DEF ConnectorIInv
<1>7. StampInv'
  <2>1. /\ forgotten = 0 /\ (Since = 0 \/ \E x \in Handled : Stamp[x] = Since)
        /\ \A x \in Arrived : Stamp[x] <= Since => Settled(x)
    BY <1>1, <1>3 DEF ConnectorIInv, StampInv
  <2>2. \A m \in due' : Since <= Stamp[m]
    BY <1>1, <1>2
  <2>3. ASSUME NEW m \in due', NEW x \in Arrived, Stamp[x] < Stamp[m]
        PROVE  x \in due' \/ Settled(x)'
    <3>1. CASE Stamp[x] <= Since
      BY <1>3, <2>1, <3>1
    <3>2. CASE x \in After(Since)
      BY <1>1, <3>2 DEF Settled
    <3> QED
      BY <1>2, <3>1, <3>2
  <2> QED
    BY <1>1, <1>2, <1>3, <2>1, <2>2, <2>3 DEF StampInv
<1>8. OffsetInv' /\ ChannelInv' /\ PushInv'
  BY <1>1 DEF OffsetInv, ChannelInv, PushInv
<1> QED
  BY <1>4, <1>5, <1>6, <1>7, <1>8 DEF ConnectorIInv

\* The oldest in hand goes to the decider: everything older is settled, and so is a tie with it.
LEMMA StampHandlesKeeps ==
  ASSUME ConnectorIInv, NEW m \in due, GmailHandles(m) \/ SlackHandles(m)
  PROVE  ConnectorIInv'
<1>1. /\ kind \in {"gmail", "slack"} /\ up = "deciding" /\ Ask(m) /\ \A x \in due : ~ (Stamp[x] < Stamp[m])
      /\ kind' = kind /\ box' = box /\ forgotten' = forgotten /\ key' = key /\ mark' = mark
      /\ cancelled' = cancelled /\ table' = table /\ left' = left /\ lost' = lost
      /\ EachThenSave(m) \/ GivesUp(m)
  BY DEF GmailHandles, SlackHandles, Taking, Next1, Precedes, service, process
<1>2. /\ box \in 0 .. MaxMail /\ mark \in [Channels -> Nat] /\ due \subseteq Arrived /\ m \in Arrived
      /\ m \in Mail /\ shown \in [Mail -> Nat] /\ asked \in Seq(Arrived) /\ faults \in 0 .. MaxFaults
      /\ Since \in Nat /\ \A x \in Arrived : x \in Mail /\ Stamp[x] \in Nat
  BY MailNumbers, ArrivedMail DEF ConnectorIInv, ReaderTypes, Since
<1>3. /\ Handled' = Handled \cup {m} /\ asked' \in Seq(Arrived)
      /\ Reach = Since /\ Since' = Since /\ Arrived' = Arrived
      /\ \A x : Settled(x) => Settled(x)'
  BY <1>1, <1>2, HandledGrows DEF Reach, Since, Arrived, Settled
<1>4. StampInv
  BY DEF ConnectorIInv
<1>5. /\ forgotten = 0 /\ (Since = 0 \/ \E x \in Handled : Stamp[x] = Since)
      /\ \A x \in Arrived : Stamp[x] <= Since => Settled(x)
      /\ \A y \in due, x \in Arrived : Stamp[x] < Stamp[y] => x \in due \/ Settled(x)
      /\ \A y \in due : Since <= Stamp[y]
  BY <1>1, <1>3, <1>4 DEF StampInv
<1>6. OffsetInv' /\ ChannelInv' /\ PushInv'
  BY <1>1 DEF OffsetInv, ChannelInv, PushInv
<1>7. CASE EachThenSave(m)
  <2>1. /\ Decide(m) /\ due' = due \ {m} /\ reached' = Stamp[m] /\ up' = "saving" /\ rest' = rest
    BY <1>7 DEF EachThenSave
  <2>2. /\ faults' = faults /\ shown' \in [Mail -> Nat] /\ \A x \in Mail : x # m => shown'[x] = shown[x]
        /\ shown'[m] = shown[m] \/ shown'[m] = shown[m] + 1
    BY <1>2, <2>1, Presenting
  <2>3. Reach' = Stamp[m]
    BY <2>1 DEF Reach
  <2>4. ReaderTypes' /\ Phases'
    BY <1>1, <1>2, <1>3, <2>1, <2>2 DEF ConnectorIInv, ReaderTypes, Phases
  <2>5. Repeats'
    <3>1. ~ Ahead(m)' /\ Ahead(m)
      BY <1>1, <1>2, <2>1, <2>3 DEF Ahead
    <3>2. ASSUME NEW x \in Mail, Ahead(x)'
          PROVE  Ahead(x)
      <4>1. Stamp[x] \in Nat /\ (Stamp[x] > Stamp[m] => Stamp[x] > Since)
        BY <1>2, <1>5, MailNumbers
      <4> QED
        BY <1>1, <1>3, <2>1, <2>3, <3>2, <4>1 DEF Ahead
    <3> QED
      BY <2>2, <3>1, <3>2, RepeatsKeep DEF ConnectorIInv
  <2>6. StampInv'
    <3>1. ASSUME NEW x \in Arrived, Stamp[x] <= Stamp[m]
          PROVE  Settled(x)'
      <4>1. CASE Stamp[x] = Stamp[m]
        BY <1>3, <4>1 DEF Settled
      <4>2. CASE Stamp[x] < Stamp[m]
        BY <1>1, <1>3, <1>5, <4>2
      <4> QED
        BY <1>2, <3>1, <4>1, <4>2
    <3>2. ASSUME NEW y \in due', NEW x \in Arrived, Stamp[x] < Stamp[y]
          PROVE  x \in due' \/ Settled(x)'
      <4>1. CASE x = m
        BY <1>3, <4>1 DEF Settled
      <4> QED
        BY <1>3, <1>5, <2>1, <3>2, <4>1
    <3>3. \A y \in due' : Stamp[m] <= Stamp[y]
      BY <1>1, <1>2, <2>1
    <3>4. Since <= Stamp[m] /\ \E x \in Handled' : Stamp[x] = Stamp[m]
      BY <1>3, <1>5
    <3>5. Since' = 0 \/ \E x \in Handled' : Stamp[x] = Since'
      BY <1>3, <1>5
    <3> QED
      BY <1>1, <1>3, <1>5, <2>3, <3>1, <3>2, <3>3, <3>4, <3>5 DEF StampInv
  <2> QED
    BY <1>6, <2>4, <2>5, <2>6 DEF ConnectorIInv
<1>8. CASE GivesUp(m)
  <2>1. FilingFails(m) /\ due' = {} /\ rest' = <<>> /\ reached' = 0 /\ up' = "idle"
    BY <1>8 DEF GivesUp
  <2>2. /\ faults < MaxFaults /\ faults' = faults + 1
        /\ shown' \in [Mail -> Nat] /\ \A x \in Mail : x # m => shown'[x] = shown[x]
        /\ shown'[m] = shown[m] \/ shown'[m] = shown[m] + 1
    BY <1>2, <2>1, Presenting
  <2>3. Reach' = Since
    BY <1>3, <2>1 DEF Reach
  <2>4. ReaderTypes' /\ Phases'
    <3>1. faults' \in 0 .. MaxFaults /\ <<>> \in Seq(Channels)
      BY <1>2, <2>2, ConnectorAssumption
    <3> QED
      BY <1>1, <1>2, <1>3, <2>1, <2>2, <3>1 DEF ConnectorIInv, ReaderTypes, Phases
  <2>5. Repeats'
    <3>1. Ahead(m) /\ faults' # faults
      BY <1>2, <2>2 DEF Ahead
    <3> QED
      BY <2>2, <3>1, RepeatsKeep DEF ConnectorIInv
  <2>6. StampInv'
    <3>1. Since' = 0 \/ \E x \in Handled' : Stamp[x] = Since'
      BY <1>3, <1>5
    <3> QED
      BY <1>1, <1>2, <1>3, <1>5, <2>1, <2>3, <3>1 DEF StampInv
  <2> QED
    BY <1>6, <2>4, <2>5, <2>6 DEF ConnectorIInv
<1> QED
  BY <1>1, <1>7, <1>8

\* A watermark that was lost passes nothing.
LEMMA StampSaveKeeps ==
  ASSUME ConnectorIInv, GmailSave \/ SlackSave
  PROVE  ConnectorIInv'
<1>1. /\ kind \in {"gmail", "slack"} /\ up = "saving" /\ up' = (IF due = {} THEN "idle" ELSE "deciding")
      /\ kind' = kind /\ box' = box /\ forgotten' = forgotten /\ key' = key /\ due' = due
      /\ rest' = rest /\ reached' = 0 /\ cancelled' = cancelled /\ table' = table
      /\ shown' = shown /\ asked' = asked /\ left' = left
      /\ \/ mark' = [c \in Channels |-> reached] /\ faults' = faults /\ lost' = lost
         \/ faults < MaxFaults /\ faults' = faults + 1 /\ mark' = [c \in Channels |-> 0] /\ lost' = TRUE
  BY DEF GmailSave, SlackSave, Saved, service, process
<1>2. /\ box \in 0 .. MaxMail /\ mark \in [Channels -> Nat] /\ due \subseteq Arrived /\ reached \in Nat
      /\ faults \in 0 .. MaxFaults /\ MaxFaults \in Nat
      /\ \A x \in Arrived : Stamp[x] \in Nat /\ Stamp[x] >= 1
  BY MailNumbers, ArrivedMail, ConnectorAssumption DEF ConnectorIInv, ReaderTypes
<1>3. /\ Reach = reached /\ Reach' = Since' /\ Handled' = Handled /\ Arrived' = Arrived
      /\ \A x : Settled(x)' <=> Settled(x)
  BY <1>1 DEF Reach, Since, Handled, Arrived, Settled
<1>4. ReaderTypes'
  <2>1. mark' \in [Channels -> Nat] /\ faults' \in 0 .. MaxFaults
    BY <1>1, <1>2
  <2>2. lost' \in BOOLEAN
    BY <1>1 DEF ConnectorIInv, ReaderTypes
  <2> QED
    BY <1>1, <1>3, <2>1, <2>2 DEF ConnectorIInv, ReaderTypes
<1>5. Phases'
  BY <1>1 DEF Phases
<1>6. OffsetInv' /\ ChannelInv' /\ PushInv'
  BY <1>1 DEF OffsetInv, ChannelInv, PushInv
<1>7. StampInv
  BY DEF ConnectorIInv
<1>8. CASE mark' = [c \in Channels |-> reached] /\ faults' = faults
  <2>1. Since' = reached
    BY <1>8, MailNumbers DEF Since
  <2>2. Repeats'
    <3>1. \A x \in Mail : Ahead(x)' => Ahead(x)
      BY <1>1, <1>3, <2>1 DEF Ahead
    <3> QED
      BY <1>1, <1>8, <3>1, RepeatsKeep DEF ConnectorIInv
  <2>3. StampInv'
    BY <1>1, <1>2, <1>3, <1>7, <2>1 DEF StampInv
  <2> QED
    BY <1>4, <1>5, <1>6, <2>2, <2>3 DEF ConnectorIInv
<1>9. CASE mark' = [c \in Channels |-> 0] /\ faults' = faults + 1
  <2>1. Since' = 0
    BY <1>9, MailNumbers DEF Since
  <2>2. Repeats'
    <3>1. faults' # faults
      BY <1>2, <1>9
    <3> QED
      BY <1>1, <1>9, <3>1, RepeatsKeep DEF ConnectorIInv
  <2>3. StampInv'
    BY <1>1, <1>2, <1>3, <1>7, <2>1 DEF StampInv
  <2> QED
    BY <1>4, <1>5, <1>6, <2>2, <2>3 DEF ConnectorIInv
<1> QED
  BY <1>1, <1>8, <1>9

-----------------------------------------------------------------------------
(* telegram.                                                                  *)

\* Updates below the next offset were below the last one, or are of the page.
LEMMA UpdatesPage ==
  ASSUME box \in 0 .. MaxMail, NEW offset \in Nat, forgotten \in Nat, offset <= box + 1
  PROVE  LET updates == ParseUpdates(TelegramPage(offset), offset)
         IN  /\ updates.arrivals \subseteq Arrived
             /\ updates.next \in Nat /\ offset <= updates.next /\ updates.next <= box + 1
             /\ \A m \in updates.arrivals : offset <= m /\ m < updates.next
             /\ \A m \in Arrived \ Nobody :
                  m < updates.next => m \in updates.arrivals \/ m < offset \/ m < forgotten
<1> DEFINE held == { m \in Arrived : m >= offset /\ m >= forgotten }
           new == Oldest(held, MaxBatch)
           updates == ParseUpdates(TelegramPage(offset), offset)
<1>1. /\ held \subseteq Arrived /\ IsFiniteSet(held) /\ held \subseteq Nat /\ new \subseteq held
      /\ MaxBatch \in Nat /\ box \in Nat /\ \A m \in held : m >= offset /\ m <= box
      /\ \A m \in Arrived : m \in Nat
      /\ \A m \in Arrived : m \in held \/ m < offset \/ m < forgotten
  <2>1. held \subseteq Arrived /\ IsFiniteSet(Arrived) /\ MaxBatch \in Nat
        /\ \A m \in Arrived : m \in Nat /\ m <= box
    BY ArrivedMail, ConnectorAssumption
  <2>2. IsFiniteSet(held)
    BY <2>1, FS_Subset
  <2>3. new \subseteq held
    BY DEF Oldest
  <2> QED
    BY <2>1, <2>2, <2>3, ArrivedMail
<1>2. /\ updates.arrivals = new \ Nobody
      /\ updates.next = IF new = {} THEN offset ELSE Last(new) + 1
  BY DEF ParseUpdates, TelegramPage
<1>3. \A m \in new, x \in held : x < m => x \in new
  BY <1>1, OldestFirst
<1> HIDE DEF held, new, updates
<1>4. CASE new = {}
  <2>1. updates.next = offset /\ updates.arrivals = {}
    BY <1>2, <1>4
  <2> QED
    BY <1>1, <2>1 DEF updates
<1>5. CASE new # {}
  <2>1. Last(new) \in new /\ \A x \in new : x <= Last(new)
    BY <1>1, <1>5, LastOf
  <2>2. /\ updates.next = Last(new) + 1 /\ Last(new) \in Nat /\ Last(new) <= box /\ offset <= Last(new)
        /\ \A x \in new : x \in Nat
    BY <1>1, <1>2, <1>5, <2>1
  <2>3. ASSUME NEW m \in Arrived \ Nobody, m < updates.next, ~ (m < offset), ~ (m < forgotten)
        PROVE  m \in updates.arrivals
    <3>1. m \in held /\ m \in Nat /\ (m = Last(new) \/ m < Last(new))
      BY <1>1, <2>2, <2>3
    <3> QED
      BY <1>2, <1>3, <2>1, <2>3, <3>1
  <2>4. ASSUME NEW m \in updates.arrivals
        PROVE  offset <= m /\ m < updates.next /\ m \in Arrived
    <3>1. m \in new /\ m \in held /\ m \in Nat /\ m <= Last(new)
      BY <1>1, <1>2, <2>1, <2>2
    <3> QED
      BY <1>1, <2>2, <3>1
  <2> QED
    BY <1>1, <2>2, <2>3, <2>4 DEF updates
<1> QED
  BY <1>4, <1>5

LEMMA OffsetFetchKeeps ==
  ASSUME ConnectorIInv, TelegramFetch
  PROVE  ConnectorIInv'
<1> DEFINE updates == ParseUpdates(TelegramPage(Since), Since)
<1>1. /\ kind = "telegram" /\ up = "idle" /\ up' = (IF due' = {} THEN "saving" ELSE "deciding")
      /\ due' = updates.arrivals /\ reached' = updates.next
      /\ forgotten' = (IF Since > forgotten THEN Since ELSE forgotten)
      /\ kind' = kind /\ box' = box /\ key' = key /\ mark' = mark /\ rest' = rest
      /\ cancelled' = cancelled /\ table' = table /\ left' = left
      /\ shown' = shown /\ asked' = asked /\ faults' = faults /\ lost' = lost
  BY DEF TelegramFetch, Reading, process
<1> HIDE DEF updates
<1>2. /\ box \in 0 .. MaxMail /\ mark \in [Channels -> Nat] /\ due = {} /\ forgotten \in Nat
      /\ Since \in Nat /\ \A x \in Arrived : x \in Nat
  BY <1>1, MailNumbers, ArrivedMail DEF ConnectorIInv, ReaderTypes, Phases, Since
<1>3. /\ Reach = Since /\ Reach' = reached' /\ Since' = Since /\ Handled' = Handled /\ Arrived' = Arrived
  BY <1>1 DEF Reach, Since, Handled, Arrived
<1>4. /\ forgotten <= box + 1 /\ Since <= box + 1
      /\ \A m \in Arrived \ Nobody : (m < forgotten => m \in Handled) /\ (m < Since => m \in Handled)
  BY <1>1, <1>3 DEF ConnectorIInv, OffsetInv
<1>5. /\ due' \subseteq Arrived /\ reached' \in Nat /\ Since <= reached' /\ reached' <= box + 1
      /\ \A m \in due' : Since <= m /\ m < reached'
      /\ \A m \in Arrived \ Nobody : m < reached' => m \in due' \/ m < Since \/ m < forgotten
  BY <1>1, <1>2, <1>4, UpdatesPage DEF updates
<1>6. forgotten' \in Nat /\ (forgotten' = Since \/ forgotten' = forgotten)
  BY <1>1, <1>2
<1>7. ReaderTypes' /\ Phases'
  BY <1>1, <1>3, <1>5, <1>6 DEF ConnectorIInv, ReaderTypes, Phases
<1>8. Repeats'
  <2>1. ASSUME NEW x \in Mail, Ahead(x)'
        PROVE  Ahead(x)
    <3>1. x \in Nat /\ (x \in due' \/ x >= reached')
      BY <1>1, <1>3, <2>1, MailNumbers DEF Ahead
    <3>2. x >= Since
      BY <1>2, <1>5, <3>1
    <3> QED
      BY <1>1, <1>3, <3>2 DEF Ahead
  <2> QED
    BY <1>1, <2>1, RepeatsKeep DEF ConnectorIInv
<1>9. OffsetInv'
  <2>1. \A m \in Arrived \ Nobody : /\ m < forgotten' => m \in Handled
                                    /\ m < Since => m \in Handled
                                    /\ m < reached' => m \in Handled \cup due'
    BY <1>4, <1>5, <1>6
  <2>2. forgotten' <= box' + 1 /\ Since' <= Reach' /\ Reach' <= box' + 1
    BY <1>1, <1>3, <1>4, <1>5, <1>6
  <2> QED
    BY <1>3, <1>5, <2>1, <2>2 DEF OffsetInv
<1>10. StampInv' /\ ChannelInv' /\ PushInv'
  BY <1>1 DEF StampInv, ChannelInv, PushInv
<1> QED
  BY <1>7, <1>8, <1>9, <1>10 DEF ConnectorIInv

LEMMA OffsetHandlesKeeps ==
  ASSUME ConnectorIInv, NEW m \in due, TelegramHandles(m)
  PROVE  ConnectorIInv'
<1>1. /\ kind = "telegram" /\ up = "deciding" /\ Ask(m)
      /\ kind' = kind /\ box' = box /\ forgotten' = forgotten /\ key' = key /\ mark' = mark
      /\ cancelled' = cancelled /\ table' = table /\ left' = left /\ lost' = lost
      /\ \/ /\ Decide(m) /\ due' = due \ {m} /\ up' = (IF due' = {} THEN "saving" ELSE "deciding")
            /\ rest' = rest /\ reached' = reached
         \/ GivesUp(m)
  BY DEF TelegramHandles, Taking, service, process
<1>2. /\ box \in 0 .. MaxMail /\ mark \in [Channels -> Nat] /\ due \subseteq Arrived /\ m \in Arrived
      /\ m \in Mail /\ shown \in [Mail -> Nat] /\ asked \in Seq(Arrived) /\ faults \in 0 .. MaxFaults
      /\ Since \in Nat /\ reached \in Nat /\ \A x \in Arrived : x \in Nat
  BY MailNumbers, ArrivedMail DEF ConnectorIInv, ReaderTypes, Since
<1>3. /\ Handled' = Handled \cup {m} /\ asked' \in Seq(Arrived)
      /\ Reach = reached /\ Since' = Since /\ Arrived' = Arrived
  BY <1>1, <1>2, HandledGrows DEF Reach, Since, Arrived
<1>4. /\ forgotten <= box + 1 /\ Since <= reached /\ reached <= box + 1
      /\ \A x \in due : x < reached
      /\ \A x \in Arrived \ Nobody : /\ x < forgotten => x \in Handled
                                     /\ x < Since => x \in Handled
                                     /\ x < reached => x \in Handled \cup due
  BY <1>1, <1>3 DEF ConnectorIInv, OffsetInv
<1>5. StampInv' /\ ChannelInv' /\ PushInv'
  BY <1>1 DEF StampInv, ChannelInv, PushInv
<1>6. CASE /\ Decide(m) /\ due' = due \ {m} /\ up' = (IF due' = {} THEN "saving" ELSE "deciding")
           /\ rest' = rest /\ reached' = reached
  <2>1. /\ faults' = faults /\ shown' \in [Mail -> Nat] /\ \A x \in Mail : x # m => shown'[x] = shown[x]
        /\ shown'[m] = shown[m] \/ shown'[m] = shown[m] + 1
    BY <1>2, <1>6, Presenting
  <2>2. Reach' = reached
    BY <1>1, <1>6 DEF Reach
  <2>3. ReaderTypes' /\ Phases'
    BY <1>1, <1>2, <1>3, <1>6, <2>1 DEF ConnectorIInv, ReaderTypes, Phases
  <2>4. Repeats'
    <3>1. ~ Ahead(m)' /\ Ahead(m)
      BY <1>1, <1>2, <1>4, <1>6, <2>2 DEF Ahead
    <3>2. \A x \in Mail : Ahead(x)' => Ahead(x)
      BY <1>1, <1>3, <1>6, <2>2 DEF Ahead
    <3> QED
      BY <2>1, <3>1, <3>2, RepeatsKeep DEF ConnectorIInv
  <2>5. OffsetInv'
    BY <1>1, <1>3, <1>4, <1>6, <2>2 DEF OffsetInv
  <2> QED
    BY <1>5, <2>3, <2>4, <2>5 DEF ConnectorIInv
<1>7. CASE GivesUp(m)
  <2>1. FilingFails(m) /\ due' = {} /\ rest' = <<>> /\ reached' = 0 /\ up' = "idle"
    BY <1>7 DEF GivesUp
  <2>2. /\ faults < MaxFaults /\ faults' = faults + 1
        /\ shown' \in [Mail -> Nat] /\ \A x \in Mail : x # m => shown'[x] = shown[x]
        /\ shown'[m] = shown[m] \/ shown'[m] = shown[m] + 1
    BY <1>2, <2>1, Presenting
  <2>3. Reach' = Since
    BY <1>3, <2>1 DEF Reach
  <2>4. ReaderTypes' /\ Phases'
    <3>1. faults' \in 0 .. MaxFaults /\ <<>> \in Seq(Channels)
      BY <1>2, <2>2, ConnectorAssumption
    <3> QED
      BY <1>1, <1>2, <1>3, <2>1, <2>2, <3>1 DEF ConnectorIInv, ReaderTypes, Phases
  <2>5. Repeats'
    <3>1. Ahead(m) /\ faults' # faults
      BY <1>2, <2>2 DEF Ahead
    <3> QED
      BY <2>2, <3>1, RepeatsKeep DEF ConnectorIInv
  <2>6. OffsetInv'
    <3>1. Since <= box + 1
      BY <1>2, <1>4, ArrivedMail
    <3> QED
      BY <1>1, <1>2, <1>3, <1>4, <2>1, <2>3, <3>1 DEF OffsetInv
  <2> QED
    BY <1>5, <2>4, <2>5, <2>6 DEF ConnectorIInv
<1> QED
  BY <1>1, <1>6, <1>7

LEMMA OffsetSaveKeeps ==
  ASSUME ConnectorIInv, TelegramSave
  PROVE  ConnectorIInv'
<1>1. /\ kind = "telegram" /\ up = "saving" /\ up' = "idle"
      /\ kind' = kind /\ box' = box /\ forgotten' = forgotten /\ key' = key /\ due' = due
      /\ rest' = rest /\ reached' = 0 /\ cancelled' = cancelled /\ table' = table
      /\ shown' = shown /\ asked' = asked /\ left' = left
      /\ \/ mark' = [c \in Channels |-> reached] /\ faults' = faults /\ lost' = lost
         \/ faults < MaxFaults /\ faults' = faults + 1 /\ mark' = [c \in Channels |-> 0] /\ lost' = TRUE
  BY DEF TelegramSave, Saved, service, process
<1>2. /\ box \in 0 .. MaxMail /\ due = {} /\ reached \in Nat /\ faults \in 0 .. MaxFaults
      /\ MaxFaults \in Nat /\ \A x \in Arrived : x \in Nat
  BY <1>1, ArrivedMail, ConnectorAssumption DEF ConnectorIInv, ReaderTypes, Phases
<1>3. Reach = reached /\ Reach' = Since' /\ Handled' = Handled /\ Arrived' = Arrived
  BY <1>1 DEF Reach, Since, Handled, Arrived
<1>4. ReaderTypes' /\ Phases'
  <2>1. mark' \in [Channels -> Nat] /\ faults' \in 0 .. MaxFaults
    BY <1>1, <1>2
  <2>2. lost' \in BOOLEAN
    BY <1>1 DEF ConnectorIInv, ReaderTypes
  <2> QED
    BY <1>1, <1>2, <1>3, <2>1, <2>2 DEF ConnectorIInv, ReaderTypes, Phases
<1>5. StampInv' /\ ChannelInv' /\ PushInv'
  BY <1>1 DEF StampInv, ChannelInv, PushInv
<1>6. OffsetInv
  BY DEF ConnectorIInv
<1>7. CASE mark' = [c \in Channels |-> reached] /\ faults' = faults
  <2>1. Since' = reached
    BY <1>7, MailNumbers DEF Since
  <2>2. Repeats'
    <3>1. \A x \in Mail : Ahead(x)' => Ahead(x)
      BY <1>1, <1>3, <2>1 DEF Ahead
    <3> QED
      BY <1>1, <1>7, <3>1, RepeatsKeep DEF ConnectorIInv
  <2>3. OffsetInv'
    BY <1>1, <1>2, <1>3, <1>6, <2>1 DEF OffsetInv
  <2> QED
    BY <1>4, <1>5, <2>2, <2>3 DEF ConnectorIInv
<1>8. CASE mark' = [c \in Channels |-> 0] /\ faults' = faults + 1
  <2>1. Since' = 0
    BY <1>8, MailNumbers DEF Since
  <2>2. Repeats'
    <3>1. faults' # faults
      BY <1>2, <1>8
    <3> QED
      BY <1>1, <1>8, <3>1, RepeatsKeep DEF ConnectorIInv
  <2>3. OffsetInv'
    BY <1>1, <1>2, <1>3, <1>6, <2>1, ArrivedMail DEF OffsetInv
  <2> QED
    BY <1>4, <1>5, <2>2, <2>3 DEF ConnectorIInv
<1> QED
  BY <1>1, <1>7, <1>8

-----------------------------------------------------------------------------
(* discord.                                                                   *)

\* A page is of its channel and after its watermark; what is older than a message of the page
\* is of the page too, unless the channel had no watermark.
LEMMA ChannelPage ==
  ASSUME box \in 0 .. MaxMail, NEW c \in Channels, mark \in [Channels -> Nat]
  PROVE  /\ DiscordPage(c) \subseteq In(c) /\ \A m \in DiscordPage(c) : m > mark[c]
         /\ \A m \in DiscordPage(c), x \in In(c) :
              x < m => x \in DiscordPage(c) \/ x <= mark[c] \/ mark[c] = 0
<1>1. /\ In(c) \subseteq Arrived /\ mark[c] \in Nat /\ MaxBatch \in Nat
      /\ \A m \in In(c) : m \in Nat /\ m >= 1
      /\ IsFiniteSet(Arrived)
  BY ArrivedMail, ConnectorAssumption DEF In
<1>2. CASE mark[c] = 0
  <2>1. DiscordPage(c) \subseteq In(c)
    BY <1>2 DEF DiscordPage, Newest
  <2>2. \A m \in DiscordPage(c) : m > mark[c]
    BY <1>1, <1>2, <2>1
  <2> QED
    BY <1>2, <2>1, <2>2
<1>3. CASE mark[c] # 0
  <2> DEFINE S == { m \in In(c) : m > mark[c] }
  <2>1. S \subseteq In(c) /\ S \subseteq Nat /\ IsFiniteSet(S)
    <3>1. S \subseteq Arrived /\ S \subseteq In(c) /\ S \subseteq Nat
      BY <1>1
    <3> QED
      BY <1>1, <3>1, FS_Subset
  <2>2. DiscordPage(c) = Oldest(S, MaxBatch)
    BY <1>3 DEF DiscordPage
  <2>3. DiscordPage(c) \subseteq S
    BY <2>2 DEF Oldest
  <2>4. ASSUME NEW m \in DiscordPage(c), NEW x \in In(c), x < m, ~ (x <= mark[c])
        PROVE  x \in DiscordPage(c)
    <3>1. x \in S
      BY <1>1, <2>4
    <3> QED
      BY <1>1, <2>1, <2>2, <2>4, <3>1, OldestFirst
  <2> QED
    BY <2>1, <2>3, <2>4
<1> QED
  BY <1>2, <1>3

LEMMA ChannelReadKeeps ==
  ASSUME ConnectorIInv, kind = "discord", up \in {"idle", "next"},
         NEW c \in Channels, ReadChannel(c),
         rest' \in Seq(Channels), rest' # <<>>, Head(rest') = c
  PROVE  ConnectorIInv'
<1> DEFINE new == DiscordPage(c)
<1>1. /\ due' = new \ Nobody /\ reached' = mark[c]
      /\ left' = (IF mark[c] = 0 THEN left \cup (In(c) \ new) ELSE left)
      /\ up' = (IF due' = {} THEN "next" ELSE "deciding")
      /\ kind' = kind /\ box' = box /\ forgotten' = forgotten /\ key' = key /\ mark' = mark
      /\ cancelled' = cancelled /\ table' = table
      /\ shown' = shown /\ asked' = asked /\ faults' = faults /\ lost' = lost
  BY DEF ReadChannel, ParseMessages, process
<1>2. /\ box \in 0 .. MaxMail /\ mark \in [Channels -> Nat] /\ mark[c] \in Nat /\ due = {}
      /\ \A x \in Arrived : x \in Nat /\ Place[x] \in Channels
      /\ \A x \in In(c) : x \in Arrived /\ Place[x] = c
  BY MailNumbers, ArrivedMail DEF ConnectorIInv, ReaderTypes, Phases, In
<1>3. /\ new \subseteq In(c) /\ \A m \in new : m > mark[c]
      /\ \A m \in new, x \in In(c) : x < m => x \in new \/ x <= mark[c] \/ mark[c] = 0
  BY <1>2, ChannelPage
<1> HIDE DEF new
<1>4. /\ Handled' = Handled /\ Arrived' = Arrived /\ \A d : In(d)' = In(d)
      /\ \A d : ChannelReach(d) = mark[d] /\ ChannelReach(d)' = mark[d]
  BY <1>1 DEF Handled, Arrived, In, ChannelReach
<1>5. ReaderTypes' /\ Phases'
  <2>1. due' \subseteq Arrived /\ left' \subseteq Arrived
    BY <1>1, <1>2, <1>3 DEF ConnectorIInv, ReaderTypes
  <2> QED
    BY <1>1, <1>2, <1>4, <2>1 DEF ConnectorIInv, ReaderTypes, Phases
<1>6. Repeats'
  <2>1. ASSUME NEW x \in Mail, Ahead(x)'
        PROVE  Ahead(x)
    <3>1. CASE x \in due'
      BY <1>1, <1>2, <1>3, <1>4, <3>1 DEF Ahead
    <3>2. CASE x > mark[Place[x]]
      BY <1>4, <3>2 DEF Ahead
    <3> QED
      BY <1>1, <1>4, <2>1, <3>1, <3>2 DEF Ahead
  <2> QED
    BY <1>1, <2>1, RepeatsKeep DEF ConnectorIInv
<1>7. /\ forgotten = 0 /\ \A d \in Channels : mark[d] <= box
      /\ \A m \in Arrived \ Nobody : m <= mark[Place[m]] => m \in Handled \cup left
  BY DEF ConnectorIInv, ChannelInv
<1>8. ChannelInv'
  <2>1. left \subseteq left'
    BY <1>1
  <2>2. \A x \in In(c) \ Nobody : x <= mark[c] => x \in Handled \cup left'
    BY <1>2, <1>7, <2>1
  <2>3. ASSUME NEW x \in In(c) \ Nobody, NEW m \in due', x < m
        PROVE  x \in Handled \cup left' \cup due'
    <3>1. CASE mark[c] = 0
      BY <1>1, <3>1
    <3>2. CASE mark[c] # 0
      BY <1>1, <1>3, <2>2, <2>3, <3>2
    <3> QED
      BY <3>1, <3>2
  <2>4. due' \subseteq In(c) /\ reached' <= box /\ mark[c] <= reached'
    BY <1>1, <1>2, <1>3, <1>7
  <2>5. \A m \in Arrived \ Nobody : m <= mark[Place[m]] => m \in Handled \cup left'
    BY <1>7, <2>1
  <2> QED
    BY <1>1, <1>4, <1>7, <2>2, <2>3, <2>4, <2>5 DEF ChannelInv
<1>9. StampInv' /\ OffsetInv' /\ PushInv'
  BY <1>1 DEF StampInv, OffsetInv, PushInv
<1> QED
  BY <1>5, <1>6, <1>8, <1>9 DEF ConnectorIInv

LEMMA ChannelFetchKeeps ==
  ASSUME ConnectorIInv, DiscordFetch \/ DiscordGoesOn
  PROVE  ConnectorIInv'
<1>1. CASE DiscordFetch
  <2>1. /\ kind = "discord" /\ up = "idle" /\ rest' = ChannelList /\ ReadChannel(Head(ChannelList))
    BY <1>1 DEF DiscordFetch
  <2> QED
    BY <2>1, ChannelReadKeeps, MailNumbers, ConnectorAssumption
<1>2. ASSUME NEW c \in Channels, DiscordNextChannel(c)
      PROVE  ConnectorIInv'
  <2>1. /\ kind = "discord" /\ up = "next" /\ Tail(rest) # <<>> /\ c = Head(Tail(rest))
        /\ rest' = Tail(rest) /\ ReadChannel(c)
    BY <1>2 DEF DiscordNextChannel
  <2>2. rest \in Seq(Channels) /\ rest # <<>>
    BY <2>1 DEF ConnectorIInv, ReaderTypes, ChannelInv
  <2>3. Tail(rest) \in Seq(Channels)
    BY <2>2, HeadTailProperties
  <2> QED
    BY <2>1, <2>3, ChannelReadKeeps
<1>3. CASE DiscordPollEnds
  <2>1. /\ kind = "discord" /\ up = "next" /\ up' = "idle" /\ rest' = <<>>
        /\ kind' = kind /\ box' = box /\ forgotten' = forgotten /\ key' = key /\ mark' = mark
        /\ cancelled' = cancelled /\ table' = table /\ due' = due /\ reached' = reached /\ left' = left
        /\ shown' = shown /\ asked' = asked /\ faults' = faults /\ lost' = lost
    BY <1>3 DEF DiscordPollEnds, service, process, history
  <2>2. /\ Handled' = Handled /\ Arrived' = Arrived
        /\ \A d : ChannelReach(d) = mark[d] /\ ChannelReach(d)' = mark[d]
    BY <2>1 DEF Handled, Arrived, ChannelReach
  <2>3. ReaderTypes' /\ Phases'
    <3>1. <<>> \in Seq(Channels)
      OBVIOUS
    <3> QED
      BY <2>1, <2>2, <3>1 DEF ConnectorIInv, ReaderTypes, Phases
  <2>4. Repeats'
    <3>1. \A x \in Mail : Ahead(x)' => Ahead(x)
      BY <2>1, <2>2 DEF Ahead
    <3> QED
      BY <2>1, <3>1, RepeatsKeep DEF ConnectorIInv
  <2>5. ChannelInv'
    BY <2>1, <2>2 DEF ConnectorIInv, ChannelInv
  <2>6. StampInv' /\ OffsetInv' /\ PushInv'
    BY <2>1 DEF StampInv, OffsetInv, PushInv
  <2> QED
    BY <2>3, <2>4, <2>5, <2>6 DEF ConnectorIInv
<1> QED
  BY <1>1, <1>2, <1>3 DEF DiscordGoesOn

LEMMA ChannelHandlesKeeps ==
  ASSUME ConnectorIInv, NEW m \in due, DiscordHandles(m)
  PROVE  ConnectorIInv'
<1>1. /\ kind = "discord" /\ up = "deciding" /\ Ask(m)
      /\ kind' = kind /\ box' = box /\ forgotten' = forgotten /\ key' = key /\ mark' = mark
      /\ cancelled' = cancelled /\ table' = table /\ left' = left /\ lost' = lost
      /\ \/ /\ Decide(m) /\ due' = due \ {m} /\ up' = (IF due' = {} THEN "saving" ELSE "deciding")
            /\ rest' = rest /\ reached' = HigherSnowflake(reached, m)
         \/ GivesUp(m)
  BY DEF DiscordHandles, Taking, service, process
<1>2. /\ box \in 0 .. MaxMail /\ mark \in [Channels -> Nat] /\ due \subseteq Arrived /\ m \in Arrived
      /\ m \in Mail /\ shown \in [Mail -> Nat] /\ asked \in Seq(Arrived) /\ faults \in 0 .. MaxFaults
      /\ reached \in Nat /\ \A x \in Arrived : x \in Nat /\ x <= box /\ Place[x] \in Channels
  BY MailNumbers, ArrivedMail DEF ConnectorIInv, ReaderTypes
<1>3. /\ Handled' = Handled \cup {m} /\ asked' \in Seq(Arrived) /\ Arrived' = Arrived
      /\ \A d : In(d)' = In(d)
  BY <1>1, <1>2, HandledGrows DEF Arrived, In
<1>4. /\ forgotten = 0 /\ rest # <<>> /\ \A d \in Channels : mark[d] <= box
      /\ \A x \in Arrived \ Nobody : x <= mark[Place[x]] => x \in Handled \cup left
      /\ reached <= box /\ mark[Head(rest)] <= reached /\ due \subseteq In(Head(rest))
      /\ \A x \in In(Head(rest)) \ Nobody :
           /\ x <= reached => x \in Handled \cup left \cup due
           /\ \A y \in due : x < y => x \in Handled \cup left \cup due
  BY <1>1 DEF ConnectorIInv, ChannelInv
<1>5. StampInv' /\ OffsetInv' /\ PushInv'
  BY <1>1 DEF StampInv, OffsetInv, PushInv
<1>6. CASE /\ Decide(m) /\ due' = due \ {m} /\ up' = (IF due' = {} THEN "saving" ELSE "deciding")
           /\ rest' = rest /\ reached' = HigherSnowflake(reached, m)
  <2>1. /\ faults' = faults /\ shown' \in [Mail -> Nat] /\ \A x \in Mail : x # m => shown'[x] = shown[x]
        /\ shown'[m] = shown[m] \/ shown'[m] = shown[m] + 1
    BY <1>2, <1>6, Presenting
  <2>2. /\ reached' \in Nat /\ reached <= reached' /\ m <= reached' /\ (reached' = reached \/ reached' = m)
    BY <1>2, <1>6 DEF HigherSnowflake
  <2>3. /\ \A d : ChannelReach(d) = IF d = Head(rest) THEN reached ELSE mark[d]
        /\ \A d : ChannelReach(d)' = IF d = Head(rest) THEN reached' ELSE mark[d]
    BY <1>1, <1>6 DEF ChannelReach
  <2>4. ReaderTypes' /\ Phases'
    BY <1>1, <1>2, <1>3, <1>6, <2>1, <2>2 DEF ConnectorIInv, ReaderTypes, Phases
  <2>5. Repeats'
    <3>1. Place[m] = Head(rest)
      BY <1>4 DEF In
    <3>2. ~ Ahead(m)' /\ Ahead(m)
      BY <1>1, <1>2, <1>6, <2>2, <2>3, <3>1 DEF Ahead
    <3>3. ASSUME NEW x \in Mail, Ahead(x)'
          PROVE  Ahead(x)
      <4>1. x \in Nat /\ (x > reached' => x > reached)
        BY <1>2, <2>2, MailNumbers
      <4>2. x \in due' \/ x > ChannelReach(Place[x])'
        BY <1>1, <3>3 DEF Ahead
      <4> QED
        BY <1>1, <1>6, <2>3, <4>1, <4>2 DEF Ahead
    <3> QED
      BY <2>1, <3>2, <3>3, RepeatsKeep DEF ConnectorIInv
  <2>6. ChannelInv'
    <3>1. ASSUME NEW x \in In(Head(rest)) \ Nobody
          PROVE  /\ x <= reached' => x \in Handled' \cup left \cup due'
                 /\ \A y \in due' : x < y => x \in Handled' \cup left \cup due'
      <4>1. x \in Nat /\ m \in Nat
        BY <1>2 DEF In
      <4>2. x \in Handled \cup left \cup due => x \in Handled' \cup left \cup due'
        BY <1>3, <1>6
      <4>3. x <= reached' => x <= reached \/ x < m \/ x = m
        BY <2>2, <4>1
      <4> QED
        BY <1>3, <1>4, <1>6, <4>2, <4>3
    <3>2. reached' <= box /\ mark[Head(rest)] <= reached' /\ due' \subseteq In(Head(rest))
      <4>1. mark[Head(rest)] \in Nat /\ box \in Nat /\ m <= box
        BY <1>2, <1>4 DEF In
      <4> QED
        BY <1>2, <1>4, <1>6, <2>2, <4>1
    <3>3. \A x \in Arrived \ Nobody : x <= mark[Place[x]] => x \in Handled' \cup left
      BY <1>3, <1>4
    <3> QED
      BY <1>1, <1>3, <1>4, <1>6, <3>1, <3>2, <3>3 DEF ChannelInv
  <2> QED
    BY <1>5, <2>4, <2>5, <2>6 DEF ConnectorIInv
<1>7. CASE GivesUp(m)
  <2>1. FilingFails(m) /\ due' = {} /\ rest' = <<>> /\ reached' = 0 /\ up' = "idle"
    BY <1>7 DEF GivesUp
  <2>2. /\ faults < MaxFaults /\ faults' = faults + 1
        /\ shown' \in [Mail -> Nat] /\ \A x \in Mail : x # m => shown'[x] = shown[x]
        /\ shown'[m] = shown[m] \/ shown'[m] = shown[m] + 1
    BY <1>2, <2>1, Presenting
  <2>3. ReaderTypes' /\ Phases'
    <3>1. faults' \in 0 .. MaxFaults /\ <<>> \in Seq(Channels)
      BY <1>2, <2>2, ConnectorAssumption
    <3> QED
      BY <1>1, <1>2, <1>3, <2>1, <2>2, <3>1 DEF ConnectorIInv, ReaderTypes, Phases
  <2>4. Repeats'
    <3>1. Ahead(m) /\ faults' # faults
      BY <1>2, <2>2 DEF Ahead
    <3> QED
      BY <2>2, <3>1, RepeatsKeep DEF ConnectorIInv
  <2>5. ChannelInv'
    <3>1. \A x \in Arrived \ Nobody : x <= mark[Place[x]] => x \in Handled' \cup left
      BY <1>3, <1>4
    <3> QED
      BY <1>1, <1>3, <1>4, <2>1, <3>1 DEF ChannelInv
  <2> QED
    BY <1>5, <2>3, <2>4, <2>5 DEF ConnectorIInv
<1> QED
  BY <1>1, <1>6, <1>7

LEMMA ChannelSaveKeeps ==
  ASSUME ConnectorIInv, DiscordSave
  PROVE  ConnectorIInv'
<1>1. /\ kind = "discord" /\ up = "saving" /\ up' = "next"
      /\ kind' = kind /\ box' = box /\ forgotten' = forgotten /\ key' = key /\ due' = due
      /\ rest' = rest /\ reached' = 0 /\ cancelled' = cancelled /\ table' = table
      /\ shown' = shown /\ asked' = asked /\ left' = left
      /\ \/ /\ mark' = [c \in Channels |-> IF c \in {Head(rest)} THEN reached ELSE mark[c]]
            /\ faults' = faults /\ lost' = lost
         \/ faults < MaxFaults /\ faults' = faults + 1 /\ mark' = [c \in Channels |-> 0] /\ lost' = TRUE
  BY DEF DiscordSave, Saved, service, process
<1>2. /\ box \in 0 .. MaxMail /\ mark \in [Channels -> Nat] /\ due = {} /\ reached \in Nat
      /\ faults \in 0 .. MaxFaults /\ MaxFaults \in Nat
      /\ \A x \in Arrived : x \in Nat /\ x >= 1 /\ Place[x] \in Channels
  BY <1>1, MailNumbers, ArrivedMail, ConnectorAssumption DEF ConnectorIInv, ReaderTypes, Phases
<1>3. /\ Handled' = Handled /\ Arrived' = Arrived
      /\ \A d : ChannelReach(d) = IF d = Head(rest) THEN reached ELSE mark[d]
      /\ \A d : ChannelReach(d)' = mark'[d]
  BY <1>1 DEF Handled, Arrived, ChannelReach
<1>4. ReaderTypes' /\ Phases'
  <2>1. mark' \in [Channels -> Nat] /\ faults' \in 0 .. MaxFaults
    BY <1>1, <1>2
  <2>2. lost' \in BOOLEAN
    BY <1>1 DEF ConnectorIInv, ReaderTypes
  <2> QED
    BY <1>1, <1>2, <1>3, <2>1, <2>2 DEF ConnectorIInv, ReaderTypes, Phases
<1>5. StampInv' /\ OffsetInv' /\ PushInv'
  BY <1>1 DEF StampInv, OffsetInv, PushInv
<1>6. /\ forgotten = 0 /\ rest # <<>> /\ \A d \in Channels : mark[d] <= box
      /\ \A x \in Arrived \ Nobody : x <= mark[Place[x]] => x \in Handled \cup left
      /\ reached <= box
      /\ \A x \in In(Head(rest)) \ Nobody : x <= reached => x \in Handled \cup left
  BY <1>1, <1>2 DEF ConnectorIInv, ChannelInv
<1>7. CASE /\ mark' = [c \in Channels |-> IF c \in {Head(rest)} THEN reached ELSE mark[c]]
           /\ faults' = faults
  <2>1. \A d \in Channels : mark'[d] = IF d = Head(rest) THEN reached ELSE mark[d]
    BY <1>7
  <2>2. Repeats'
    <3>1. ASSUME NEW x \in Mail, Ahead(x)'
          PROVE  Ahead(x)
      <4>1. x > mark'[Place[x]] /\ Place[x] \in Channels
        BY <1>1, <1>2, <1>3, <3>1, MailNumbers DEF Ahead
      <4> QED
        BY <1>1, <1>3, <2>1, <4>1 DEF Ahead
    <3> QED
      BY <1>1, <1>7, <3>1, RepeatsKeep DEF ConnectorIInv
  <2>3. ChannelInv'
    <3>1. \A d \in Channels : mark'[d] <= box
      BY <1>6, <2>1
    <3>2. ASSUME NEW x \in Arrived \ Nobody, x <= mark'[Place[x]]
          PROVE  x \in Handled \cup left
      <4>1. CASE Place[x] = Head(rest)
        BY <1>2, <1>6, <2>1, <3>2, <4>1 DEF In
      <4>2. CASE Place[x] # Head(rest)
        BY <1>2, <1>6, <2>1, <3>2, <4>2
      <4> QED
        BY <4>1, <4>2
    <3> QED
      BY <1>1, <1>3, <1>6, <3>1, <3>2 DEF ChannelInv
  <2> QED
    BY <1>4, <1>5, <2>2, <2>3 DEF ConnectorIInv
<1>8. CASE mark' = [c \in Channels |-> 0] /\ faults' = faults + 1
  <2>1. Repeats'
    <3>1. faults' # faults
      BY <1>2, <1>8
    <3> QED
      BY <1>1, <1>8, <3>1, RepeatsKeep DEF ConnectorIInv
  <2>2. ChannelInv'
    BY <1>1, <1>2, <1>3, <1>6, <1>8 DEF ChannelInv
  <2> QED
    BY <1>4, <1>5, <2>1, <2>2 DEF ConnectorIInv
<1> QED
  BY <1>1, <1>7, <1>8

-----------------------------------------------------------------------------
(* wa.                                                                        *)

LEMMA PushKeeps ==
  ASSUME ConnectorIInv, WaPush
  PROVE  ConnectorIInv'
<1> PICK m : m = forgotten + 1
  OBVIOUS
<1>1. /\ kind = "wa" /\ up = "idle" /\ forgotten < box /\ forgotten' = m
      /\ due' = (IF m \in Nobody THEN {} ELSE {m}) /\ up' = (IF due' = {} THEN "idle" ELSE "deciding")
      /\ kind' = kind /\ box' = box /\ key' = key /\ mark' = mark
      /\ rest' = rest /\ reached' = reached /\ cancelled' = cancelled /\ table' = table
      /\ shown' = shown /\ asked' = asked /\ left' = left /\ faults' = faults /\ lost' = lost
  BY DEF WaPush, FromEvent, process, history
<1>2. /\ box \in 0 .. MaxMail /\ MaxMail \in Nat /\ forgotten \in Nat /\ due = {}
      /\ \A x \in Arrived : x \in Nat
  BY <1>1, ArrivedMail, ConnectorAssumption DEF ConnectorIInv, ReaderTypes, Phases
<1>3. /\ m \in Arrived /\ m \in Mail /\ m \in Nat /\ m > forgotten /\ m <= box
      /\ \A x \in Arrived : x <= m => x <= forgotten \/ x = m
  BY <1>1, <1>2 DEF Arrived, Mail
<1>4. Arrived' = Arrived /\ Handled' = Handled
  BY <1>1 DEF Arrived, Handled
<1>5. ReaderTypes' /\ Phases'
  <2>1. due' \subseteq Arrived
    BY <1>1, <1>3
  <2> QED
    BY <1>1, <1>2, <1>3, <1>4, <2>1 DEF ConnectorIInv, ReaderTypes, Phases
<1>6. Repeats'
  <2>1. ASSUME NEW x \in Mail, Ahead(x)'
        PROVE  Ahead(x)
    <3>1. x \in Nat /\ (x = m \/ x > m)
      BY <1>1, <2>1, MailNumbers DEF Ahead
    <3>2. x > forgotten
      BY <1>2, <1>3, <3>1
    <3> QED
      BY <1>1, <3>2 DEF Ahead
  <2> QED
    BY <1>1, <2>1, RepeatsKeep DEF ConnectorIInv
<1>7. PushInv'
  <2>1. \A x \in Arrived \ Nobody : x <= forgotten => x \in Handled \cup left
    BY <1>1, <1>2 DEF ConnectorIInv, PushInv
  <2>2. \A x \in Arrived \ Nobody : x <= m => x \in Handled \cup left \cup due'
    BY <1>1, <1>3, <2>1
  <2>3. \A x \in due' : x <= m /\ \A y \in due' : y = x
    BY <1>1, <1>3
  <2> QED
    BY <1>1, <1>3, <1>4, <2>2, <2>3 DEF PushInv
<1>8. StampInv' /\ OffsetInv' /\ ChannelInv'
  BY <1>1 DEF StampInv, OffsetInv, ChannelInv
<1> QED
  BY <1>5, <1>6, <1>7, <1>8 DEF ConnectorIInv

LEMMA PushedHandlesKeeps ==
  ASSUME ConnectorIInv, NEW m \in due, WaHandles(m)
  PROVE  ConnectorIInv'
<1>1. /\ kind = "wa" /\ due' = due \ {m} /\ up' = "idle" /\ Ask(m)
      /\ Decide(m) \/ FilingFails(m)
      /\ kind' = kind /\ box' = box /\ forgotten' = forgotten /\ key' = key /\ mark' = mark
      /\ rest' = rest /\ reached' = reached /\ cancelled' = cancelled /\ table' = table
      /\ left' = left /\ lost' = lost
  BY DEF WaHandles, Taking, service, process
<1>2. /\ m \in Arrived /\ m \in Mail /\ m \in Nat /\ forgotten \in Nat
      /\ shown \in [Mail -> Nat] /\ asked \in Seq(Arrived) /\ faults \in 0 .. MaxFaults /\ MaxFaults \in Nat
  BY ArrivedMail, ConnectorAssumption DEF ConnectorIInv, ReaderTypes
<1>3. due' = {} /\ m <= forgotten
  BY <1>1 DEF ConnectorIInv, PushInv
<1>4. /\ asked' \in Seq(Arrived) /\ Handled \subseteq Handled' /\ m \in Handled' /\ Arrived' = Arrived
  BY <1>1, <1>2, HandledGrows DEF Arrived
<1>5. /\ shown' \in [Mail -> Nat] /\ \A x \in Mail : x # m => shown'[x] = shown[x]
      /\ shown'[m] = shown[m] \/ shown'[m] = shown[m] + 1
      /\ faults' = faults \/ (faults < MaxFaults /\ faults' = faults + 1)
  BY <1>1, <1>2, Presenting
<1>6. ReaderTypes' /\ Phases'
  <2>1. faults' \in 0 .. MaxFaults
    BY <1>2, <1>5
  <2> QED
    BY <1>1, <1>2, <1>3, <1>4, <1>5, <2>1 DEF ConnectorIInv, ReaderTypes, Phases
<1>7. Repeats'
  <2>1. ~ Ahead(m)' /\ Ahead(m)
    BY <1>1, <1>2, <1>3 DEF Ahead
  <2>2. ASSUME NEW x \in Mail, Ahead(x)'
        PROVE  Ahead(x)
    BY <1>1, <1>3, <2>2 DEF Ahead
  <2> QED
    BY <1>5, <2>1, <2>2, RepeatsKeep DEF ConnectorIInv
<1>8. PushInv'
  <2>1. \A x \in due : x = m
    BY <1>1 DEF ConnectorIInv, PushInv
  <2> QED
    BY <1>1, <1>3, <1>4, <2>1 DEF ConnectorIInv, PushInv
<1>9. StampInv' /\ OffsetInv' /\ ChannelInv'
  BY <1>1 DEF StampInv, OffsetInv, ChannelInv
<1> QED
  BY <1>6, <1>7, <1>8, <1>9 DEF ConnectorIInv

-----------------------------------------------------------------------------
(* The theorems of Connector.                                                 *)

LEMMA FirstReads == ConnectorInit => ConnectorIInv
<1> SUFFICES ASSUME ConnectorInit PROVE ConnectorIInv
  OBVIOUS
<1>1. /\ kind \in Services /\ box = 0 /\ forgotten = 0 /\ key = "none"
      /\ mark = [c \in Channels |-> 0] /\ up = "down" /\ cancelled = FALSE /\ table = {}
      /\ rest = <<>> /\ due = {} /\ reached = 0 /\ shown = [m \in Mail |-> 0] /\ asked = <<>>
      /\ left = {} /\ faults = 0 /\ lost = FALSE
  BY DEF ConnectorInit
<1>2. Since = 0 /\ Reach = 0 /\ Arrived = {} /\ 0 \in 0 .. MaxMail /\ 0 \in 0 .. MaxFaults
  BY <1>1, MailNumbers, ConnectorAssumption DEF Since, Reach, Arrived
<1>3. ReaderTypes /\ Phases
  <2>1. <<>> \in Seq(Channels) /\ <<>> \in Seq(Arrived) /\ mark \in [Channels -> Nat] /\ shown \in [Mail -> Nat]
    BY <1>1
  <2> QED
    BY <1>1, <1>2, <2>1 DEF ReaderTypes, Phases
<1>4. Repeats
  <2> SUFFICES ASSUME NEW m \in Mail PROVE shown[m] <= 1 + faults /\ shown[m] <= faults
    BY DEF Repeats
  <2> QED
    BY <1>1
<1>5. StampInv /\ OffsetInv /\ PushInv
  BY <1>1, <1>2 DEF StampInv, OffsetInv, PushInv
<1>6. ChannelInv
  BY <1>1, <1>2 DEF ChannelInv
<1> QED
  BY <1>3, <1>4, <1>5, <1>6 DEF ConnectorIInv

LEMMA ReadsStay == ConnectorIInv /\ [ConnectorNext]_connectorVars => ConnectorIInv'
<1> SUFFICES ASSUME ConnectorIInv, [ConnectorNext]_connectorVars PROVE ConnectorIInv'
  OBVIOUS
<1>1. CASE Login \/ TokenAges \/ GmailAccessToken \/ Run \/ Stop \/ UNCHANGED connectorVars
  BY <1>1, OwnerAside, AsideKeeps
<1>2. CASE Arrive
  BY <1>2, ArriveKeeps
<1>3. CASE Exit \/ Crash
  BY <1>3, EndAbandons, AbandonsKeeps
<1>4. CASE Fetch \/ DiscordGoesOn
  BY <1>4, StampFetchKeeps, OffsetFetchKeeps, ChannelFetchKeeps DEF Fetch
<1>5. CASE Handle
  BY <1>5, PushedHandlesKeeps, StampHandlesKeeps, OffsetHandlesKeeps, ChannelHandlesKeeps DEF Handle
<1>6. CASE Save
  BY <1>6, StampSaveKeeps, OffsetSaveKeeps, ChannelSaveKeeps DEF Save
<1>7. CASE WaPush
  BY <1>7, PushKeeps
<1> QED
  BY <1>1, <1>2, <1>3, <1>4, <1>5, <1>6, <1>7 DEF ConnectorNext

\* The inductive invariant: the watermark that is about to be saved against what was put to the
\* decider, for each of the five services.
THEOREM ConnectorInvariance == ConnectorSpec => []ConnectorIInv
BY FirstReads, ReadsStay, PTL DEF ConnectorSpec

\* The type invariant; the bounds come from the watermarks and from the repeats.
THEOREM ConnectorTypeCorrectness == ConnectorSpec => []ConnectorTypeOK
<1>1. ConnectorIInv => ConnectorTypeOK
  <2> SUFFICES ASSUME ConnectorIInv PROVE ConnectorTypeOK
    OBVIOUS
  <2>1. /\ box \in 0 .. MaxMail /\ MaxMail \in Nat /\ forgotten \in Nat /\ kind \in Services
        /\ shown \in [Mail -> Nat] /\ faults \in 0 .. MaxFaults /\ MaxFaults \in Nat
    BY ConnectorAssumption DEF ConnectorIInv, ReaderTypes
  <2>2. forgotten \in 0 .. MaxMail + 1
    <3>1. kind \in {"gmail", "slack", "discord", "telegram", "wa"}
      BY <2>1, ConnectorAssumption
    <3>2. forgotten = 0 \/ forgotten <= box + 1 \/ forgotten <= box
      BY <3>1 DEF ConnectorIInv, StampInv, OffsetInv, ChannelInv, PushInv
    <3> QED
      BY <2>1, <3>2
  <2>3. shown \in [Mail -> 0 .. MaxFaults + 1]
    <3>1. \A m \in Mail : shown[m] \in Nat /\ shown[m] <= 1 + faults
      BY <2>1 DEF ConnectorIInv, Repeats
    <3>2. \A m \in Mail : shown[m] \in 0 .. MaxFaults + 1
      BY <2>1, <3>1
    <3> QED
      BY <2>1, <3>2
  <2> QED
    BY <2>2, <2>3 DEF ConnectorIInv, ReaderTypes, ConnectorTypeOK, Arrived
<1> QED
  BY <1>1, ConnectorInvariance, PTL

\* watermark.save: an arrival is shown or filed once, and once more only for each crash or failed
\* write, for every service, stream of arrivals, batch size and set of channels.
THEOREM RepeatsOnlyForFaults == ConnectorSpec => []RepeatsAreFaults
<1>1. ConnectorIInv => RepeatsAreFaults
  BY DEF ConnectorIInv, Repeats, RepeatsAreFaults
<1> QED
  BY <1>1, ConnectorInvariance, PTL

\* pollOnce: a watermark that was saved, and an offset that telegram was asked from, pass nothing
\* that was not put to the decider, left out of a full page, or tied with what was.
THEOREM NothingIsPassedUnasked == ConnectorSpec => []AskedBeforePassed
<1>1. ConnectorIInv => AskedBeforePassed
  <2> SUFFICES ASSUME ConnectorIInv, NEW m \in Arrived \ Nobody, Passed(m)
               PROVE  \/ m \in Handled \cup left
                      \/ kind \in {"gmail", "slack"} /\ \E x \in Handled : Stamp[x] = Stamp[m]
    BY DEF AskedBeforePassed
  <2>1. kind \in {"gmail", "slack", "discord", "telegram", "wa"}
    BY ConnectorAssumption DEF ConnectorIInv, ReaderTypes
  <2>2. CASE kind \in {"gmail", "slack"}
    <3>1. Stamp[m] <= Since
      BY <2>2 DEF Passed
    <3>2. Since \in Nat /\ Reach \in Nat /\ Stamp[m] \in Nat
      BY MailNumbers, ArrivedMail DEF ConnectorIInv, ReaderTypes, Since, Reach
    <3>3. Stamp[m] <= Reach
      BY <2>2, <3>1, <3>2 DEF ConnectorIInv, StampInv
    <3> QED
      BY <2>2, <3>3 DEF ConnectorIInv, StampInv, Settled
  <2>3. CASE kind = "telegram"
    BY <2>3 DEF Passed, ConnectorIInv, OffsetInv
  <2>4. CASE kind = "discord"
    BY <2>4 DEF Passed, ConnectorIInv, ChannelInv
  <2>5. CASE kind = "wa"
    BY <2>5 DEF Passed, ConnectorIInv, PushInv
  <2> QED
    BY <2>1, <2>2, <2>3, <2>4, <2>5
<1> QED
  BY <1>1, ConnectorInvariance, PTL

=============================================================================
