------------------------------- MODULE Bundle --------------------------------
(***************************************************************************)
(* The life of one ability on disk: fetched from a catalogue or named by the  *)
(* owner, unpacked, verified, copied, put to the admission gate, recorded in    *)
(* the ledger, and taken off again (internal/bundle, internal/admit, and the    *)
(* verbs of cmd/ghillie that call them).                                      *)
(*                                                                         *)
(* Each verb is a process of its own that may die at any step; the files are   *)
(* all that is left of it.  Every step of a verb is one operation on files.     *)
(* Other abilities touch other directories and other lines of the ledger.       *)
(***************************************************************************)
EXTENDS Sequences, Admit

CONSTANTS
  Versions,     \* what was ever published, or is in the owner's own directory
  Files,        \* paths within a bundle
  Required,     \* those of the five-part contract
  ProofProject, \* core/src/proof.gpr
  Ships,        \* the files each version has
  Absent,       \* the content of a path with no file
  Options,      \* the flags verbs are run with: reprove, floor and advisory
  MaxCommands   \* bound of the model: verbs run

ASSUME BundleAssumption ==
  /\ Ships \in [Versions -> SUBSET Files] /\ \A v \in Versions : Ships[v] # {}
  /\ Required \subseteq Files /\ Required # {} /\ ProofProject \in Files
  /\ Absent \notin Versions
  /\ Options \subseteq [ reprove: BOOLEAN, floor: Floors, advisory: BOOLEAN ]
  /\ MaxCommands \in Nat

VARIABLES
  published,   \* the version the index names, by its digest
  owned,       \* the directory of the owner's own bundle
  archive,     \* the archive in the staging directory, or Absent
  staging,     \* the tree unpacked there
  abilities,   \* the installed ability's directory
  ledger,      \* LEDGER.jsonl
  pc,          \* where the running verb is, "idle" when none runs
  verb,        \* its options and what it has found out
  commands,    \* verbs run so far
  decided,     \* history: the tree the gate last let through, and the version asked for
  cut          \* history: a verb did not come to its end over this ability

vars == <<published, owned, archive, staging, abilities, ledger, pc, verb, commands,
          decided, cut>>
diskVars == <<archive, staging, abilities, ledger>>
-----------------------------------------------------------------------------
(* Trees.                                                                  *)

Trees == [ Files -> Versions \cup {Absent} ]

Nothing == [ f \in Files |-> Absent ]

TreeOf(v) == [ f \in Files |-> IF f \in Ships[v] THEN v ELSE Absent ]

\* The files of s, of those in F, written over t.
Written(F, s, t) == [ f \in Files |-> IF f \in F /\ s[f] # Absent THEN s[f] ELSE t[f] ]

\* What a removal that was broken off may leave.
Remains(t) == { [ f \in Files |-> IF f \in F THEN t[f] ELSE Absent ] : F \in SUBSET Files }

\* Verify: the five parts are there.
Verifies(t) == \A f \in Required : t[f] # Absent

ClaimsProof(t) == t[ProofProject] # Absent
-----------------------------------------------------------------------------
(* Verbs and records.                                                      *)

Catalogue == "catalogue"
Hand == "hand"

NoDecision == [ verdict |-> "refuse_undecided", facts |-> {} ]

Idle == [ from |-> Hand, want |-> Absent, reprove |-> FALSE, floor |-> "none",
          advisory |-> FALSE, note |-> "absent", hash |-> Nothing, decision |-> NoDecision ]

\* The tree a verb installs from.
Source == IF verb.from = Catalogue THEN staging ELSE owned

\* Without facts there was no floor to record.
Install == [ kind |-> "install", hash |-> verb.hash, source |-> verb.from,
             proof |-> verb.note,
             floor |-> IF verb.decision.facts = {} THEN "unrecorded" ELSE verb.floor,
             verdict |-> verb.decision.verdict, facts |-> verb.decision.facts,
             advisory |-> verb.advisory /\ ~ Admitted(verb.decision.verdict) ]

Removal == [ kind |-> "removal" ]

\* The ledger's last word.
LastRecord == IF ledger = <<>> THEN Removal ELSE ledger[Len(ledger)]
-----------------------------------------------------------------------------
Init ==
  /\ published \in Versions /\ owned \in { TreeOf(v) : v \in Versions }
  /\ archive = Absent /\ staging = Nothing /\ abilities = Nothing /\ ledger = <<>>
  /\ pc = "idle" /\ verb = Idle /\ commands = 0
  /\ decided = [ tree |-> Nothing, want |-> Absent ] /\ cut = FALSE

\* The publisher replaces the version in its catalogue.
Publish ==
  /\ published' \in Versions \ {published}
  /\ UNCHANGED <<owned, diskVars, pc, verb, commands, decided, cut>>

\* The owner changes the own directory, as a whole or by taking a file away, but never
\* the last one: a tree with no file stands for a directory that is not there.
Edit ==
  /\ owned' \in ({ TreeOf(v) : v \in Versions }
                   \cup { [ owned EXCEPT ![f] = Absent ] : f \in Files })
               \ {owned, Nothing}
  /\ UNCHANGED <<published, diskVars, pc, verb, commands, decided, cut>>

Starts(p, v) ==
  /\ pc = "idle" /\ commands < MaxCommands
  /\ commands' = commands + 1 /\ pc' = p /\ verb' = v

Begun(o) ==
  [ Idle EXCEPT !.reprove = o.reprove, !.floor = o.floor, !.advisory = o.advisory ]

Quits == pc' = "idle" /\ verb' = Idle

Goes(p) == pc' = p /\ UNCHANGED verb
-----------------------------------------------------------------------------
(* -get-ability: index, fetch, unpack; -install-ability of a directory.      *)

GetAbility ==
  /\ \E o \in Options : Starts("fetch", [ Begun(o) EXCEPT !.from = Catalogue, !.want = published ])
  /\ UNCHANGED <<published, owned, diskVars, decided, cut>>

InstallAbility ==
  /\ \E o \in Options : Starts("settle", Begun(o))
  /\ UNCHANGED <<published, owned, diskVars, decided, cut>>

\* What was served has the digest the index named.
Fetch ==
  /\ pc = "fetch"
  /\ archive' = verb.want /\ Goes("unpack")
  /\ UNCHANGED <<published, owned, staging, abilities, ledger, commands, decided, cut>>

\* It could not be opened, or what arrived was deleted again.
FetchFails ==
  /\ pc = "fetch"
  /\ archive' \in {archive, Absent} /\ Quits
  /\ UNCHANGED <<published, owned, staging, abilities, ledger, commands, decided, cut>>

\* The files of the archive are written into the staging directory as it is.
Unpack ==
  /\ pc = "unpack"
  /\ staging' = Written(Files, TreeOf(archive), staging) /\ Goes("settle")
  /\ UNCHANGED <<published, owned, archive, abilities, ledger, commands, decided, cut>>

\* An error on the way; only a successful Unpack arranges for the clean-up.
UnpackFails ==
  /\ pc = "unpack"
  /\ \E F \in SUBSET Files : staging' = Written(F, TreeOf(archive), staging)
  /\ Quits
  /\ UNCHANGED <<published, owned, archive, abilities, ledger, commands, decided, cut>>

\* The verb is over: the staging directory is removed, which may fail unnoticed.
Leave ==
  /\ pc = "leave" /\ Quits
  /\ \/ verb.from = Catalogue /\ staging' = Nothing /\ archive' = Absent
     \/ UNCHANGED <<staging, archive>>
  /\ UNCHANGED <<published, owned, abilities, ledger, commands, decided, cut>>
-----------------------------------------------------------------------------
(* settleBundleProof and Install.                                           *)

\* The note on the proof.  With -reprove there must be one, and the prover agrees.
SettleBundleProof ==
  /\ pc = "settle"
  /\ verb.reprove => ClaimsProof(Source)
  /\ pc' = "verify"
  /\ verb' = [ verb EXCEPT !.note = ProofOf(ClaimsProof(Source), verb.reprove) ]
  /\ UNCHANGED <<published, owned, diskVars, commands, decided, cut>>

\* A manifest that does not match, no project to prove, no prover, no proof.
SettleFails ==
  /\ pc = "settle" /\ Goes("leave")
  /\ UNCHANGED <<published, owned, diskVars, commands, decided, cut>>

\* Verify over the source, whose hash the record will keep; then no ability of that
\* name may be there.
Verify ==
  /\ pc = "verify"
  /\ IF Verifies(Source) /\ abilities = Nothing
     THEN pc' = "copy" /\ verb' = [ verb EXCEPT !.hash = Source ]
     ELSE Goes("leave")
  /\ UNCHANGED <<published, owned, diskVars, commands, decided, cut>>

CopyTree ==
  /\ pc = "copy"
  /\ abilities' = Written(Files, Source, abilities) /\ Goes("gate")
  /\ UNCHANGED <<published, owned, archive, staging, ledger, commands, decided, cut>>

\* Half an ability is worse than none.
CopyFails ==
  /\ pc = "copy"
  /\ abilities' = Nothing /\ Goes("leave")
  /\ UNCHANGED <<published, owned, archive, staging, ledger, commands, decided, cut>>
-----------------------------------------------------------------------------
(* The gate, over the copy.                                                 *)

\* The facts are established only over two trees that verify.
HaveFacts == Verifies(abilities) /\ Verifies(Source)

Integrity ==
  IntegrityOf(abilities = Source, verb.from = Hand, verb.from = Catalogue,
              archive = verb.want)

\* Bug: what the caller says of the proof is believed.
EstablishBelieving ==
  [ operator    |-> OperatorOf(TRUE),
    origin      |-> IF verb.from = Catalogue THEN CatalogueOrigin(Integrity)
                    ELSE DirectoryOrigin(OperatorOf(TRUE)),
    integrity   |-> Integrity,
    proof       |-> verb.note,
    floor       |-> verb.floor,
    containment |-> ContainmentOf(verb.note = "reproved") ]

\* FromCatalogue and FromDirectory.  Every verb is an owner's act.
Establish ==
  [ operator    |-> OperatorOf(TRUE),
    origin      |-> IF verb.from = Catalogue THEN CatalogueOrigin(Integrity)
                    ELSE DirectoryOrigin(OperatorOf(TRUE)),
    integrity   |-> Integrity,
    proof       |-> ProofOf(ClaimsProof(abilities), verb.note = "reproved"),
    floor       |-> verb.floor,
    containment |-> ContainmentOf(verb.note = "reproved") ]

\* GateFor: the core's verdict over the facts, or none when there are no facts or
\* the core cannot be run.
Decisions ==
  { NoDecision } \cup
  (IF HaveFacts
   THEN [ verdict: {Decide(Establish), "refuse_undecided"}, facts: {{Establish}} ]
   ELSE {})

\* Bug: a refused ability is left where it was copied to.
GateLeavingIt ==
  /\ pc = "gate"
  /\ \E d \in Decisions :
       IF Admitted(d.verdict) \/ verb.advisory
       THEN /\ verb' = [ verb EXCEPT !.decision = d ] /\ pc' = "record"
            /\ decided' = [ tree |-> abilities, want |-> verb.want ] /\ UNCHANGED abilities
       ELSE Goes("leave") /\ UNCHANGED <<abilities, decided>>
  /\ UNCHANGED <<published, owned, archive, staging, ledger, commands, cut>>

\* A refusal removes the copy, unless the owner asked for advice only.
Gate ==
  /\ pc = "gate"
  /\ \E d \in Decisions :
       IF Admitted(d.verdict) \/ verb.advisory
       THEN /\ verb' = [ verb EXCEPT !.decision = d ] /\ pc' = "record"
            /\ decided' = [ tree |-> abilities, want |-> verb.want ] /\ UNCHANGED abilities
       ELSE abilities' = Nothing /\ Goes("leave") /\ UNCHANGED decided
  /\ UNCHANGED <<published, owned, archive, staging, ledger, commands, cut>>

\* Bug: a record whose write reports an error late is written once more.
RecordAgain ==
  /\ pc = "record"
  /\ \/ ledger' = Append(ledger, Install) /\ cut' = FALSE /\ UNCHANGED <<abilities, pc, verb>>
     \/ abilities' = Nothing /\ Goes("leave") /\ UNCHANGED <<ledger, cut>>
  /\ UNCHANGED <<published, owned, archive, staging, commands, decided>>

\* Only now the ledger; no record, no ability.
Record ==
  /\ pc = "record" /\ Goes("leave")
  /\ \/ ledger' = Append(ledger, Install) /\ cut' = FALSE /\ UNCHANGED abilities
     \/ abilities' = Nothing /\ UNCHANGED <<ledger, cut>>
  /\ UNCHANGED <<published, owned, archive, staging, commands, decided>>
-----------------------------------------------------------------------------
(* -remove-ability.                                                        *)

RemoveAbility ==
  /\ abilities # Nothing /\ Starts("remove", Idle)
  /\ UNCHANGED <<published, owned, diskVars, decided, cut>>

\* RemoveAll, which may stop on the way with an error.
Remove ==
  /\ pc = "remove"
  /\ \/ abilities' = Nothing /\ Goes("unrecord") /\ UNCHANGED cut
     \/ abilities' \in Remains(abilities) /\ Quits /\ cut' = TRUE
  /\ UNCHANGED <<published, owned, archive, staging, ledger, commands, decided>>

\* The record of the removal, or an error that asks the owner to write it.
RecordRemoval ==
  /\ pc = "unrecord" /\ Quits
  /\ \/ ledger' = Append(ledger, Removal) /\ cut' = FALSE
     \/ UNCHANGED ledger /\ cut' = TRUE
  /\ UNCHANGED <<published, owned, archive, staging, abilities, commands, decided>>
-----------------------------------------------------------------------------
\* What a process that dies now may leave of the tree it writes or removes.
HalfStaged ==
  IF pc = "unpack"                              THEN { Written(F, TreeOf(archive), staging) :
                                                         F \in SUBSET Files }
  ELSE IF pc = "leave" /\ verb.from = Catalogue THEN Remains(staging)
  ELSE                                               {staging}

HalfInstalled ==
  IF pc = "copy"                               THEN { Written(F, Source, abilities) :
                                                        F \in SUBSET Files }
  ELSE IF pc \in {"gate", "record", "remove"} THEN Remains(abilities)
  ELSE                                              {abilities}

\* The process dies in the middle of a verb; nothing takes the verb up again.
Crash ==
  /\ pc # "idle" /\ Quits
  /\ archive' \in IF pc \in {"fetch", "leave"} THEN {archive, Absent} ELSE {archive}
  /\ staging' \in HalfStaged /\ abilities' \in HalfInstalled
  /\ cut' = (cut \/ pc \in {"copy", "gate", "record", "remove", "unrecord"})
  /\ UNCHANGED <<published, owned, ledger, commands, decided>>

Next ==
  \/ Publish \/ Edit \/ Crash
  \/ GetAbility \/ InstallAbility \/ Fetch \/ FetchFails \/ Unpack \/ UnpackFails \/ Leave
  \/ SettleBundleProof \/ SettleFails \/ Verify \/ CopyTree \/ CopyFails \/ Gate \/ Record
  \/ RemoveAbility \/ Remove \/ RecordRemoval

Spec == Init /\ [][Next]_vars
-----------------------------------------------------------------------------
PCs == { "idle", "fetch", "unpack", "settle", "verify", "copy", "gate", "record", "leave",
         "remove", "unrecord" }

DecisionType == [ verdict: Verdicts, facts: SUBSET Facts ]

VerbType ==
  [ from: {Catalogue, Hand}, want: Versions \cup {Absent}, reprove: BOOLEAN, floor: Floors,
    advisory: BOOLEAN, note: Proofs, hash: Trees, decision: DecisionType ]

RecordType ==
  {Removal} \cup [ kind: {"install"}, hash: Trees, source: {Catalogue, Hand}, proof: Proofs,
                  floor: Floors \cup {"unrecorded"}, verdict: Verdicts, facts: SUBSET Facts,
                  advisory: BOOLEAN ]

\* In particular a verb writes at most one record.
TypeOK ==
  /\ published \in Versions /\ archive \in Versions \cup {Absent}
  /\ {owned, staging, abilities} \subseteq Trees
  /\ pc \in PCs /\ verb \in VerbType
  /\ commands \in 0 .. MaxCommands
  /\ ledger \in Seq(RecordType) /\ Len(ledger) <= commands
  /\ decided \in [ tree: Trees, want: Versions \cup {Absent} ] /\ cut \in BOOLEAN

\* No verb is running, and the last ones over this ability came to their end.
Settled == pc = "idle" /\ ~ cut

\* An ability that is on disk is the ledger's last word, and its bytes are the ones the
\* gate let through, not those of its source; one that is not on disk was refused, or
\* its removal is the last word.  Whatever failed on the way, and whoever edited the
\* source meanwhile.
InstalledIsDecided ==
  Settled =>
    /\ LastRecord.kind = "install" <=> abilities # Nothing
    /\ abilities # Nothing => abilities = decided.tree

\* Without the mark of an override, what is on disk has the proof its floor asks for,
\* in the bytes installed, whatever the source had when the proof was settled.
MeetsFloor ==
  (Settled /\ abilities # Nothing /\ ~ LastRecord.advisory /\ LastRecord.floor # "none")
    => ClaimsProof(abilities) /\ (LastRecord.floor = "reproved" => LastRecord.proof = "reproved")

\* An ability's files are taken away, never replaced: an upgrade is a removal that can
\* be seen, then an install.
NeverReplaced ==
  [][abilities # Nothing => \A f \in Files : abilities'[f] \in {abilities[f], Absent}]_vars
=============================================================================
