------------------------------- MODULE Panes --------------------------------
(***************************************************************************)
(* What the browser panes are shown of the transcript (internal/glass): the  *)
(* broadcast of each new entry to the attached connections, and the pages of  *)
(* chat.startup and chat.history with their cursors.  Who appends an entry    *)
(* and why is modelled in Glass; here any goroutine may.                     *)
(*                                                                         *)
(* An entry is appended under Server.mu, the set of connections is copied     *)
(* under it a second time, and the writes are made without it, one after the   *)
(* other.  The two event frames of an entry show the same and are one frame.   *)
(***************************************************************************)
EXTENDS Naturals, Sequences, FiniteSets

CONSTANTS
  Conns,        \* sockets that may ever be opened
  Panes,        \* the browser panes
  PaneOf,       \* the pane that opens a socket
  Interviewer,  \* the goroutine of the interview
  MaxEntries,   \* bound of the model: entries of one transcript
  MaxLives      \* bound of the model: lives of the process

ASSUME PanesAssumption ==
  /\ PaneOf \in [Conns -> Panes]
  /\ Interviewer \notin Conns
  /\ MaxEntries \in Nat /\ MaxLives \in Nat \ {0}

Writers == Conns \cup {Interviewer}

VARIABLES
  transcript,  \* Server.transcript
  conns,       \* Server.conns
  at,          \* where each goroutine is
  frame,       \* the entry it is broadcasting
  targets,     \* the connections it has still to write it to
  page,        \* the page a connection is about to write
  socket,      \* "unused", "up" or "down"
  known,       \* of each pane: the entries it was shown
  cursor,      \* of each pane: the cursor it was last given
  loaded,      \* the connections over which a pane has read the transcript
  life,        \* history: lives of the process
  misplaced    \* history: panes that added a delta to a cursor of an earlier life

serverVars == <<transcript, conns>>
castVars   == <<at, frame, targets, page>>
paneVars   == <<known, cursor, loaded, misplaced>>

vars == <<serverVars, castVars, socket, paneVars, life>>

Entries == [ life: 1 .. MaxLives, id: 1 .. MaxEntries ]

SeenBy(from) == { transcript[n] : n \in from .. Len(transcript) }

None == [ kind |-> "none" ]

\* On the wire a cursor is "t-n"; the life that minted it is known to the model only.
NoCursor == [ life |-> 0, n |-> 0 ]
-----------------------------------------------------------------------------
Init ==
  /\ transcript = <<>> /\ conns = {}
  /\ at = [ a \in Writers |-> IF a = Interviewer THEN "run" ELSE "off" ]
  /\ frame = [ a \in Writers |-> None ] /\ targets = [ a \in Writers |-> {} ]
  /\ page = [ c \in Conns |-> None ]
  /\ socket = [ c \in Conns |-> "unused" ]
  /\ known = [ p \in Panes |-> {} ] /\ cursor = [ p \in Panes |-> NoCursor ]
  /\ loaded = {} /\ misplaced = {} /\ life = 1

\* The process ends and is started again; the panes stay open in the browser.
Restart ==
  /\ life < MaxLives /\ life' = life + 1
  /\ transcript' = <<>> /\ conns' = {}
  /\ at' = [ a \in Writers |-> IF a = Interviewer THEN "run" ELSE "off" ]
  /\ frame' = [ a \in Writers |-> None ] /\ targets' = [ a \in Writers |-> {} ]
  /\ page' = [ c \in Conns |-> None ]
  /\ socket' = [ c \in Conns |-> IF socket[c] = "up" THEN "down" ELSE socket[c] ]
  /\ loaded' = {}
  /\ UNCHANGED <<known, cursor, misplaced>>
-----------------------------------------------------------------------------
(* Sockets: ServeHTTP and serve.                                            *)

\* Bug: the connection is attached only when it has loaded a page.
DialUnattached(c) ==
  /\ socket[c] = "unused"
  /\ \A d \in Conns : PaneOf[d] = PaneOf[c] => socket[d] # "up"
  /\ socket' = [ socket EXCEPT ![c] = "up" ]
  /\ at' = [ at EXCEPT ![c] = "run" ]
  /\ UNCHANGED <<transcript, conns, frame, targets, page, paneVars, life>>

\* A pane dials; the server attaches the connection before it serves it.
Dial(c) ==
  /\ socket[c] = "unused"
  /\ \A d \in Conns : PaneOf[d] = PaneOf[c] => socket[d] # "up"
  /\ socket' = [ socket EXCEPT ![c] = "up" ]
  /\ conns' = conns \cup {c}
  /\ at' = [ at EXCEPT ![c] = "run" ]
  /\ UNCHANGED <<transcript, frame, targets, page, paneVars, life>>

\* The socket breaks; the goroutine that serves it does not know yet.
Drop(c) ==
  /\ socket[c] = "up"
  /\ socket' = [ socket EXCEPT ![c] = "down" ]
  /\ UNCHANGED <<serverVars, castVars, paneVars, life>>

\* The next read fails: serve returns and the connection is detached.
ReadEnds(c) ==
  /\ at[c] = "run" /\ socket[c] = "down"
  /\ conns' = conns \ {c} /\ at' = [ at EXCEPT ![c] = "off" ]
  /\ UNCHANGED <<transcript, frame, targets, page, socket, paneVars, life>>
-----------------------------------------------------------------------------
(* Broadcasts.                                                             *)

\* SayLine, or a chat.send over a live socket: the entry is recorded.
Record(a) ==
  /\ at[a] = "run" /\ (a \in Conns => socket[a] = "up")
  /\ Len(transcript) < MaxEntries
  /\ LET e == [ life |-> life, id |-> Len(transcript) + 1 ]
     IN  transcript' = Append(transcript, e) /\ frame' = [ frame EXCEPT ![a] = e ]
  /\ at' = [ at EXCEPT ![a] = "cast" ]
  /\ UNCHANGED <<conns, targets, page, socket, paneVars, life>>

\* Bug: the sender is left out of the echo.
CastToOthers(a) ==
  /\ at[a] = "cast"
  /\ targets' = [ targets EXCEPT ![a] = conns \ {a} ]
  /\ at' = [ at EXCEPT ![a] = "tell" ]
  /\ UNCHANGED <<serverVars, frame, page, socket, paneVars, life>>

\* broadcast copies the set of connections ...
Cast(a) ==
  /\ at[a] = "cast"
  /\ targets' = [ targets EXCEPT ![a] = conns ]
  /\ at' = [ at EXCEPT ![a] = "tell" ]
  /\ UNCHANGED <<serverVars, frame, page, socket, paneVars, life>>

\* ... and writes to each; one that cannot be written is left to its own read loop.
Tell(a, c) ==
  /\ at[a] = "tell" /\ c \in targets[a]
  /\ targets' = [ targets EXCEPT ![a] = @ \ {c} ]
  /\ known' = IF socket[c] = "up" THEN [ known EXCEPT ![PaneOf[c]] = @ \cup {frame[a]} ]
              ELSE known
  /\ UNCHANGED <<serverVars, at, frame, page, socket, cursor, loaded, misplaced, life>>

Told(a) ==
  /\ at[a] = "tell" /\ targets[a] = {}
  /\ frame' = [ frame EXCEPT ![a] = None ]
  /\ at' = [ at EXCEPT ![a] = "run" ]
  /\ UNCHANGED <<serverVars, targets, page, socket, paneVars, life>>
-----------------------------------------------------------------------------
(* Pages.                                                                  *)

\* Bug: the cursor counts the entry that comes next.
PageFromAhead(from) ==
  [ kind |-> "page", entries |-> SeenBy(from + 1),
    cursor |-> [ life |-> life, n |-> Len(transcript) + 1 ] ]

\* The entries after the first "from", and the cursor behind the last.
PageFrom(from) ==
  [ kind |-> "page", entries |-> SeenBy(from + 1),
    cursor |-> [ life |-> life, n |-> Len(transcript) ] ]

Reset == [ kind |-> "reset" ]

\* Bug: a delta leaves out the first entry after the cursor.
HistoryOffByOne(p) ==
  IF cursor[p] = NoCursor                THEN PageFrom(0)
  ELSE IF cursor[p].n > Len(transcript) THEN Reset
  ELSE                                       PageFrom(cursor[p].n + 1)

\* historyPayload: all without a cursor, what came since with one that can be
\* placed, and otherwise a reset.
History(p) ==
  IF cursor[p] = NoCursor               THEN PageFrom(0)
  ELSE IF cursor[p].n > Len(transcript) THEN Reset
  ELSE                                       PageFrom(cursor[p].n)

\* chat.startup and chat.history.  A pane asks once over each connection, and again
\* after a reset.
Load(c) ==
  /\ at[c] = "run" /\ socket[c] = "up" /\ c \notin loaded
  /\ page' = [ page EXCEPT ![c] = History(PaneOf[c]) ]
  /\ at' = [ at EXCEPT ![c] = "answer" ]
  /\ UNCHANGED <<serverVars, frame, targets, socket, paneVars, life>>

\* The pane adds a page to what it shows, or starts over after a reset.
Show(c, r) ==
  LET p == PaneOf[c]
  IN  \/ /\ r.kind = "page"
         /\ known' = [ known EXCEPT ![p] = @ \cup r.entries ]
         /\ cursor' = [ cursor EXCEPT ![p] = r.cursor ]
         /\ loaded' = loaded \cup {c}
         /\ misplaced' = IF cursor[p].life \in {0, life} THEN misplaced
                         ELSE misplaced \cup {p}
      \/ /\ r.kind = "reset"
         /\ known' = [ known EXCEPT ![p] = {} ]
         /\ cursor' = [ cursor EXCEPT ![p] = NoCursor ]
         /\ misplaced' = misplaced \ {p}
         /\ UNCHANGED loaded

\* The page is written, or the peer is gone and serve returns.
Answer(c) ==
  /\ at[c] = "answer"
  /\ page' = [ page EXCEPT ![c] = None ]
  /\ IF socket[c] = "up"
     THEN Show(c, page[c]) /\ at' = [ at EXCEPT ![c] = "run" ] /\ UNCHANGED conns
     ELSE /\ conns' = conns \ {c} /\ at' = [ at EXCEPT ![c] = "off" ]
          /\ UNCHANGED paneVars
  /\ UNCHANGED <<transcript, frame, targets, socket, life>>
-----------------------------------------------------------------------------
Next ==
  \/ Restart
  \/ \E c \in Conns : Dial(c) \/ Drop(c) \/ ReadEnds(c) \/ Load(c) \/ Answer(c)
  \/ \E a \in Writers : Record(a) \/ Cast(a) \/ Told(a) \/ \E c \in Conns : Tell(a, c)

Spec == Init /\ [][Next]_vars
-----------------------------------------------------------------------------
Cursors == [ life: 0 .. MaxLives, n: 0 .. MaxEntries ]

TypeOK ==
  /\ transcript \in Seq(Entries) /\ conns \subseteq Conns
  /\ at \in [Writers -> {"off", "run", "cast", "tell", "answer"}]
  /\ frame \in [Writers -> Entries \cup {None}]
  /\ targets \in [Writers -> SUBSET Conns]
  /\ page \in [Conns -> {None, Reset}
                        \cup [kind: {"page"}, entries: SUBSET Entries,
                            cursor: Cursors]]
  /\ socket \in [Conns -> {"unused", "up", "down"}]
  /\ known \in [Panes -> SUBSET Entries]
  /\ cursor \in [Panes -> Cursors]
  /\ loaded \subseteq Conns /\ misplaced \subseteq Panes
  /\ life \in 1 .. MaxLives

\* The entries on their way to a connection, in a broadcast or in a page.
Coming(c) ==
  { frame[a] : a \in { w \in Writers : at[w] = "cast" \/ (at[w] = "tell" /\ c \in targets[w]) } }

\* The pane at a loaded, open connection was shown every entry, by a page or by a
\* broadcast, or a broadcast is bringing it.
UpToDate(c) ==
  (c \in loaded /\ socket[c] = "up") => SeenBy(1) \subseteq known[PaneOf[c]] \cup Coming(c)

\* Over however many reconnections no entry falls between the page a pane reads and
\* the broadcasts, whoever appends meanwhile; nor over a restart, as long as the
\* pane's cursor was not taken for one of the new life.
PaneMissesNothing == \A c \in Conns : PaneOf[c] \notin misplaced => UpToDate(c)
=============================================================================
