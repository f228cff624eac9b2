---------------------------- MODULE BundleProofs -----------------------------
(***************************************************************************)
(* Proofs about Bundle, for any versions, files, flags and number of verbs.  *)
(***************************************************************************)
EXTENDS Bundle, TLAPS

-----------------------------------------------------------------------------
(* Lemmas about trees and decisions.                                        *)

\* A version's tree is a tree, and has a file.
LEMMA TreeOfVersion ==
  ASSUME NEW v \in Versions
  PROVE  TreeOf(v) \in Trees /\ TreeOf(v) # Nothing
<1>1. TreeOf(v) \in Trees
  BY DEF TreeOf, Trees
<1>2. PICK f \in Files : f \in Ships[v]
  BY BundleAssumption
<1>3. TreeOf(v)[f] = v /\ Nothing[f] = Absent
  BY <1>2 DEF TreeOf, Nothing
<1>4. QED
  BY <1>1, <1>3, BundleAssumption

\* Writing files over a tree gives a tree; all the files of a tree that has one are
\* something.
LEMMA WrittenTree ==
  ASSUME NEW F, NEW s \in Trees, NEW t \in Trees
  PROVE  /\ Written(F, s, t) \in Trees
         /\ s # Nothing => Written(Files, s, t) # Nothing
<1>1. Written(F, s, t) \in Trees
  BY DEF Written, Trees
<1>2. ASSUME s # Nothing PROVE Written(Files, s, t) # Nothing
  <2>1. PICK f \in Files : s[f] # Absent
    BY <1>2 DEF Trees, Nothing
  <2>2. Written(Files, s, t)[f] = s[f] /\ Nothing[f] = Absent
    BY <2>1 DEF Written, Nothing
  <2>3. QED
    BY <2>1, <2>2
<1>3. QED
  BY <1>1, <1>2

\* What remains of a tree is a tree of some of its files.
LEMMA RemainsTree ==
  ASSUME NEW t \in Trees, NEW r \in Remains(t)
  PROVE  r \in Trees /\ \A f \in Files : r[f] \in {t[f], Absent}
  BY DEF Remains, Trees

LEMMA NothingIsATree == Nothing \in Trees
  BY DEF Nothing, Trees

\* The core has a verdict on all facts.  It admits only with the proof the floor asks
\* for.
LEMMA DecideAnswers ==
  ASSUME NEW f \in Facts
  PROVE  /\ Decide(f) \in Verdicts
         /\ Admitted(Decide(f)) /\ f.floor # "none" => f.proof # "absent"
         /\ Admitted(Decide(f)) /\ f.floor = "reproved" => f.proof = "reproved"
  BY DEF Facts, Decide, Verdicts, Admitted

\* The facts are facts, and so is a decision.
LEMMA DecisionTypes ==
  ASSUME TypeOK
  PROVE  Establish \in Facts /\ Decisions \subseteq DecisionType /\ NoDecision \in DecisionType
<1>1. Integrity \in Integrities
  BY DEF Integrity, IntegrityOf, Integrities
<1>2. ProofOf(ClaimsProof(abilities), verb.note = "reproved") \in Proofs
  BY DEF ProofOf, Proofs
<1>3. verb.floor \in Floors
  BY DEF TypeOK, VerbType
<1>4. CatalogueOrigin(Integrity) \in Origins /\ DirectoryOrigin(OperatorOf(TRUE)) \in Origins
  BY DEF CatalogueOrigin, DirectoryOrigin, Origins
<1>5. ContainmentOf(verb.note = "reproved") \in Containments /\ OperatorOf(TRUE) \in Operators
  BY DEF ContainmentOf, Containments, OperatorOf, Operators
<1>6. Establish \in Facts
  BY <1>1, <1>2, <1>3, <1>4, <1>5 DEF Establish, Facts
<1>7. Decide(Establish) \in Verdicts /\ "refuse_undecided" \in Verdicts
  BY <1>6, DecideAnswers DEF Verdicts
<1>8. NoDecision \in DecisionType
  BY <1>7 DEF NoDecision, DecisionType
<1>9. Decisions \subseteq DecisionType
  BY <1>6, <1>7, <1>8 DEF Decisions, DecisionType
<1>10. QED
  BY <1>6, <1>8, <1>9

-----------------------------------------------------------------------------
(* The inductive invariant.                                                *)

\* What a verb has in hand at each step.
InHand ==
  /\ pc \in {"fetch", "unpack"} => verb.from = Catalogue
  /\ verb.from = Catalogue => verb.want \in Versions
  /\ pc = "unpack" => archive \in Versions
  /\ verb.from = Catalogue /\ pc \in {"settle", "verify", "copy"} => staging # Nothing
  /\ owned # Nothing
  /\ pc = "copy" => abilities = Nothing
  /\ pc \in {"gate", "record"} => abilities # Nothing
  /\ pc = "unrecord" => abilities = Nothing

\* Steps at which nothing is half done to the ability.
Whole == pc \in {"idle", "fetch", "unpack", "settle", "verify", "leave", "remove"}

\* At those steps the disk and the ledger agree; while an ability is being installed
\* the ledger does not have it yet.
Agree ==
  /\ ~ cut /\ Whole => /\ LastRecord.kind = "install" <=> abilities # Nothing
                       /\ abilities # Nothing => abilities = decided.tree
  /\ ~ cut /\ pc \in {"copy", "gate", "record"} => LastRecord.kind # "install"
  /\ pc = "record" => abilities = decided.tree

\* A decision that lets an ability be recorded is an admission or an override, and an
\* admission has the proof the floor asks for.
DecisionHolds ==
  pc = "record" =>
    /\ Admitted(verb.decision.verdict) \/ verb.advisory
    /\ Admitted(verb.decision.verdict) => verb.decision.facts # {}
    /\ Admitted(verb.decision.verdict) /\ verb.floor # "none" => ClaimsProof(abilities)
    /\ Admitted(verb.decision.verdict) /\ verb.floor = "reproved" => verb.note = "reproved"

\* What is on disk has the proof its record says.
RecordHolds ==
  (~ cut /\ Whole /\ abilities # Nothing /\ ~ LastRecord.advisory /\ LastRecord.floor # "none")
    => ClaimsProof(abilities) /\ (LastRecord.floor = "reproved" => LastRecord.proof = "reproved")

\* A verb that may still write its record has not done so.
OneRecord == pc \notin {"idle", "leave"} => Len(ledger) < commands

IInv == TypeOK /\ OneRecord /\ InHand /\ Agree /\ DecisionHolds /\ RecordHolds

-----------------------------------------------------------------------------
(* Types.                                                                  *)

LEMMA IdleIsAVerb == Idle \in VerbType
<1>1. NoDecision \in DecisionType
  BY DEF NoDecision, DecisionType, Verdicts
<1>2. QED
  BY <1>1, NothingIsATree DEF Idle, VerbType, Hand, Floors, Proofs

LEMMA BegunIsAVerb ==
  ASSUME NEW o \in Options
  PROVE  /\ Begun(o) \in VerbType /\ Begun(o).from = Hand
         /\ \A v \in Versions : /\ [ Begun(o) EXCEPT !.from = Catalogue, !.want = v ] \in VerbType
                               /\ [ Begun(o) EXCEPT !.from = Catalogue, !.want = v ].from = Catalogue
                               /\ [ Begun(o) EXCEPT !.from = Catalogue, !.want = v ].want = v
<1>1. o.reprove \in BOOLEAN /\ o.floor \in Floors /\ o.advisory \in BOOLEAN
  BY BundleAssumption
<1>2. Idle \in VerbType /\ Idle.from = Hand
  BY IdleIsAVerb DEF Idle
<1>3. Begun(o) \in VerbType /\ Begun(o).from = Hand
  BY <1>1, <1>2 DEF Begun, VerbType
<1>4. QED
  BY <1>3 DEF VerbType

LEMMA InstallIsARecord ==
  ASSUME TypeOK
  PROVE  Install \in RecordType /\ Removal \in RecordType /\ Install.kind = "install"
<1>1. (verb.advisory /\ ~ Admitted(verb.decision.verdict)) \in BOOLEAN
  OBVIOUS
<1>2. verb \in VerbType /\ verb.decision \in DecisionType
  BY DEF TypeOK, VerbType
<1>3. QED
  BY <1>1, <1>2 DEF VerbType, DecisionType, Install, RecordType, Removal

LEMMA TypeInit == Init => TypeOK
<1> SUFFICES ASSUME Init PROVE TypeOK
  OBVIOUS
<1>2. owned \in Trees
  BY TreeOfVersion DEF Init
<1>3. staging \in Trees /\ abilities \in Trees /\ decided.tree \in Trees
  BY NothingIsATree DEF Init
<1>4. verb \in VerbType
  BY IdleIsAVerb DEF Init
<1>5. commands \in 0 .. MaxCommands /\ ledger \in Seq(RecordType) /\ Len(ledger) <= commands
  BY BundleAssumption DEF Init
<1>6. QED
  BY <1>2, <1>3, <1>4, <1>5 DEF Init, TypeOK, PCs

\* The verb's record after a step: unchanged, reset, or one field more.
LEMMA VerbStep ==
  ASSUME TypeOK, [Next]_vars
  PROVE  verb' \in VerbType /\ pc' \in PCs
<1> USE DEF Goes, Quits, Starts
<1>1. Idle \in VerbType /\ verb \in VerbType /\ pc \in PCs /\ published \in Versions
  BY IdleIsAVerb DEF TypeOK
<1>2. CASE GetAbility
  <2>1. PICK o \in Options : Starts("fetch", [ Begun(o) EXCEPT !.from = Catalogue, !.want = published ])
    BY <1>2 DEF GetAbility
  <2>2. QED
    BY <1>1, <2>1, BegunIsAVerb DEF PCs
<1>3. CASE InstallAbility
  <2>1. PICK o \in Options : Starts("settle", Begun(o))
    BY <1>3 DEF InstallAbility
  <2>2. QED
    BY <2>1, BegunIsAVerb DEF PCs
<1>4. CASE SettleBundleProof
  <2>1. ProofOf(ClaimsProof(Source), verb.reprove) \in Proofs
    BY DEF ProofOf, Proofs
  <2>2. QED
    BY <1>1, <1>4, <2>1 DEF SettleBundleProof, VerbType, PCs
<1>5. CASE Verify
  <2>1. Source \in Trees
    BY DEF TypeOK, Source
  <2>2. QED
    BY <1>1, <1>5, <2>1 DEF Verify, VerbType, PCs
<1>6. CASE Gate
  <2>1. PICK d \in Decisions : \/ verb' = [ verb EXCEPT !.decision = d ] /\ pc' = "record"
                              \/ Goes("leave")
    BY <1>6 DEF Gate
  <2>2. d \in DecisionType
    BY DecisionTypes
  <2>3. QED
    BY <1>1, <2>1, <2>2 DEF VerbType, PCs
<1>7. CASE UNCHANGED vars
  BY <1>1, <1>7 DEF vars
<1>8. CASE Publish \/ Edit \/ Crash \/ Fetch \/ FetchFails \/ Unpack \/ UnpackFails \/ Leave
  BY <1>1, <1>8 DEF Publish, Edit, Crash, Fetch, FetchFails, Unpack, UnpackFails, Leave, PCs
<1>9. CASE SettleFails \/ CopyTree \/ CopyFails \/ Record
  BY <1>1, <1>9 DEF SettleFails, CopyTree, CopyFails, Record, PCs
<1>10. CASE RemoveAbility \/ Remove \/ RecordRemoval
  BY <1>1, <1>10 DEF RemoveAbility, Remove, RecordRemoval, PCs
<1>11. QED
  BY <1>2, <1>3, <1>4, <1>5, <1>6, <1>7, <1>8, <1>9, <1>10 DEF Next

\* What a dying process leaves are trees, and of the ability no file it did not write.
LEMMA HalfTrees ==
  ASSUME TypeOK
  PROVE  /\ HalfStaged \subseteq Trees /\ HalfInstalled \subseteq Trees /\ Source \in Trees
         /\ Written(Files, TreeOf(archive), staging) \in Trees
         /\ \A F \in SUBSET Files : Written(F, TreeOf(archive), staging) \in Trees
         /\ Written(Files, Source, abilities) \in Trees
<1>1. staging \in Trees /\ abilities \in Trees /\ Source \in Trees
  BY DEF TypeOK, Source
<1>2. TreeOf(archive) \in Trees
  BY DEF TypeOK, TreeOf, Trees
<1>3. HalfStaged \subseteq Trees
  BY <1>1, <1>2, WrittenTree, RemainsTree DEF HalfStaged
<1>4. HalfInstalled \subseteq Trees
  BY <1>1, WrittenTree, RemainsTree DEF HalfInstalled
<1>5. QED
  BY <1>1, <1>2, <1>3, <1>4, WrittenTree

\* The trees on disk stay trees.
LEMMA TreeStep ==
  ASSUME TypeOK, [Next]_vars
  PROVE  /\ {owned', staging', abilities'} \subseteq Trees
         /\ published' \in Versions /\ archive' \in Versions \cup {Absent}
<1> USE DEF diskVars
<1>1. /\ {owned, staging, abilities, Nothing} \subseteq Trees
      /\ published \in Versions /\ archive \in Versions \cup {Absent}
      /\ verb.want \in Versions \cup {Absent}
  BY NothingIsATree DEF TypeOK, VerbType
<1>2. CASE Publish \/ GetAbility \/ InstallAbility \/ Fetch \/ FetchFails \/ Leave
  BY <1>1, <1>2 DEF Publish, GetAbility, InstallAbility, Fetch, FetchFails, Leave
<1>3. CASE Edit
  <2>1. owned' \in Trees
    BY <1>1, <1>3, TreeOfVersion DEF Edit, Trees
  <2>2. QED
    BY <1>1, <1>3, <2>1 DEF Edit
<1>4. CASE Crash
  BY <1>1, <1>4, HalfTrees DEF Crash
<1>5. CASE Unpack \/ UnpackFails
  BY <1>1, <1>5, HalfTrees DEF Unpack, UnpackFails
<1>6. CASE SettleBundleProof \/ SettleFails \/ Verify \/ RemoveAbility \/ RecordRemoval
  BY <1>1, <1>6 DEF SettleBundleProof, SettleFails, Verify, RemoveAbility, RecordRemoval
<1>7. CASE CopyTree \/ CopyFails \/ Record
  BY <1>1, <1>7, HalfTrees DEF CopyTree, CopyFails, Record
<1>8. CASE Gate
  BY <1>1, <1>8 DEF Gate
<1>9. CASE Remove
  BY <1>1, <1>9, RemainsTree DEF Remove
<1>10. CASE UNCHANGED vars
  BY <1>1, <1>10 DEF vars
<1>11. QED
  BY <1>2, <1>3, <1>4, <1>5, <1>6, <1>7, <1>8, <1>9, <1>10 DEF Next

\* Only two steps write to the ledger, one record each.
LEMMA LedgerStep ==
  ASSUME TypeOK, [Next]_vars
  PROVE  \/ UNCHANGED ledger
         \/ Record /\ ledger' = Append(ledger, Install)
         \/ RecordRemoval /\ ledger' = Append(ledger, Removal)
<1> USE DEF diskVars
<1>1. CASE Record
  BY <1>1 DEF Record
<1>2. CASE RecordRemoval
  BY <1>2 DEF RecordRemoval
<1>3. CASE Publish \/ Edit \/ Crash \/ GetAbility \/ InstallAbility \/ Fetch \/ FetchFails \/ Unpack
  BY <1>3 DEF Publish, Edit, Crash, GetAbility, InstallAbility, Fetch, FetchFails, Unpack
<1>4. CASE UnpackFails \/ Leave \/ SettleBundleProof \/ SettleFails \/ Verify \/ CopyTree \/ CopyFails
  BY <1>4 DEF UnpackFails, Leave, SettleBundleProof, SettleFails, Verify, CopyTree, CopyFails
<1>5. CASE Gate \/ RemoveAbility \/ Remove \/ UNCHANGED vars
  BY <1>5 DEF Gate, RemoveAbility, Remove, vars
<1>6. QED
  BY <1>1, <1>2, <1>3, <1>4, <1>5 DEF Next

\* A verb is counted when it starts, from idle.
LEMMA CommandStep ==
  ASSUME TypeOK, [Next]_vars
  PROVE  \/ /\ commands' = commands
            /\ pc' \notin {"idle", "leave"} => pc \notin {"idle", "leave"}
         \/ /\ commands < MaxCommands /\ commands' = commands + 1
            /\ pc = "idle" /\ UNCHANGED ledger
<1> USE DEF diskVars, Goes, Quits, Starts
<1>1. CASE Publish \/ Edit \/ Crash \/ Fetch \/ FetchFails \/ Unpack \/ UnpackFails \/ Leave
  BY <1>1 DEF Publish, Edit, Crash, Fetch, FetchFails, Unpack, UnpackFails, Leave
<1>2. CASE GetAbility \/ InstallAbility \/ RemoveAbility
  BY <1>2 DEF GetAbility, InstallAbility, RemoveAbility
<1>3. CASE SettleBundleProof \/ SettleFails \/ Verify \/ CopyTree \/ CopyFails
  BY <1>3 DEF SettleBundleProof, SettleFails, Verify, CopyTree, CopyFails
<1>4. CASE Gate \/ Record \/ Remove \/ RecordRemoval \/ UNCHANGED vars
  BY <1>4 DEF Gate, Record, Remove, RecordRemoval, vars
<1>5. QED
  BY <1>1, <1>2, <1>3, <1>4 DEF Next

\* The ledger is no longer than the verbs are many.
LEMMA CountStep ==
  ASSUME TypeOK, OneRecord, [Next]_vars
  PROVE  /\ commands' \in 0 .. MaxCommands
         /\ ledger' \in Seq(RecordType) /\ Len(ledger') <= commands' /\ OneRecord'
<1>1. /\ commands \in 0 .. MaxCommands /\ MaxCommands \in Nat
      /\ ledger \in Seq(RecordType) /\ Len(ledger) \in Nat /\ Len(ledger) <= commands
  BY BundleAssumption DEF TypeOK
<1>2. CASE UNCHANGED ledger
  <2>1. Len(ledger') = Len(ledger)
    BY <1>2
  <2>2. commands' \in 0 .. MaxCommands /\ Len(ledger) <= commands'
    BY <1>1, CommandStep
  <2>3. OneRecord'
    BY <1>1, <2>1, CommandStep DEF OneRecord
  <2>4. QED
    BY <1>1, <1>2, <2>1, <2>2, <2>3
<1>3. ASSUME NEW r \in RecordType, ledger' = Append(ledger, r), pc' \in {"idle", "leave"},
             pc \notin {"idle", "leave"}, commands' = commands
      PROVE  /\ commands' \in 0 .. MaxCommands
             /\ ledger' \in Seq(RecordType) /\ Len(ledger') <= commands' /\ OneRecord'
  <2>1. Len(ledger) < commands
    BY <1>3 DEF OneRecord
  <2>2. ledger' \in Seq(RecordType) /\ Len(ledger') = Len(ledger) + 1
    BY <1>1, <1>3
  <2>3. OneRecord'
    BY <1>3 DEF OneRecord
  <2>4. QED
    BY <1>1, <1>3, <2>1, <2>2, <2>3
<1>4. CASE Record /\ ledger' = Append(ledger, Install)
  BY <1>3, <1>4, InstallIsARecord DEF Record, Goes
<1>5. CASE RecordRemoval /\ ledger' = Append(ledger, Removal)
  BY <1>3, <1>5, InstallIsARecord DEF RecordRemoval, Quits
<1>6. QED
  BY <1>2, <1>4, <1>5, LedgerStep

\* Types are kept.
LEMMA TypeStep ==
  ASSUME TypeOK, OneRecord, [Next]_vars
  PROVE  TypeOK'
<1> USE DEF diskVars
<1>1. /\ decided \in [ tree: Trees, want: Versions \cup {Absent} ] /\ cut \in BOOLEAN
      /\ abilities \in Trees /\ verb.want \in Versions \cup {Absent}
  BY DEF TypeOK, VerbType
<1>2. decided' \in [ tree: Trees, want: Versions \cup {Absent} ] /\ cut' \in BOOLEAN
  <2>1. CASE Gate
    BY <1>1, <2>1 DEF Gate
  <2>2. CASE Crash
    BY <1>1, <2>2 DEF Crash
  <2>3. CASE Publish \/ Edit \/ Fetch \/ FetchFails \/ Unpack \/ UnpackFails \/ Leave \/ GetAbility
    BY <1>1, <2>3 DEF Publish, Edit, Fetch, FetchFails, Unpack, UnpackFails, Leave, GetAbility
  <2>4. CASE InstallAbility \/ RemoveAbility \/ SettleBundleProof \/ SettleFails \/ Verify \/ CopyTree
    BY <1>1, <2>4 DEF InstallAbility, RemoveAbility, SettleBundleProof, SettleFails, Verify, CopyTree
  <2>5. CASE CopyFails \/ Record \/ Remove \/ RecordRemoval \/ UNCHANGED vars
    BY <1>1, <2>5 DEF CopyFails, Record, Remove, RecordRemoval, vars
  <2>6. QED
    BY <2>1, <2>2, <2>3, <2>4, <2>5 DEF Next
<1>3. QED
  BY <1>2, VerbStep, TreeStep, CountStep DEF TypeOK

-----------------------------------------------------------------------------
(* The parts of the invariant are kept.                                     *)

\* What a verb has in hand: its source cannot go away under it, and only its own steps
\* touch the ability.
LEMMA InHandStep ==
  ASSUME TypeOK, InHand, [Next]_vars
  PROVE  InHand'
<1> USE DEF InHand, diskVars, Goes, Quits, Starts, Catalogue, Hand
<1>1. /\ published \in Versions /\ archive \in Versions \cup {Absent} /\ verb.want \in Versions \cup {Absent}
      /\ staging \in Trees /\ owned \in Trees /\ abilities \in Trees /\ verb \in VerbType
      /\ verb.from \in {Catalogue, Hand} /\ Idle.from = Hand
  BY DEF TypeOK, VerbType, Idle
<1>2. CASE Publish \/ UNCHANGED vars
  BY <1>2 DEF Publish, vars
<1>3. CASE Edit
  BY <1>3 DEF Edit
<1>4. CASE GetAbility
  <2>1. PICK o \in Options : Starts("fetch", [ Begun(o) EXCEPT !.from = Catalogue, !.want = published ])
    BY <1>4 DEF GetAbility
  <2>2. verb'.from = Catalogue /\ verb'.want \in Versions /\ pc' = "fetch"
    BY <1>1, <2>1, BegunIsAVerb
  <2>3. QED
    BY <1>4, <2>2 DEF GetAbility
<1>5. CASE InstallAbility
  <2>1. PICK o \in Options : Starts("settle", Begun(o))
    BY <1>5 DEF InstallAbility
  <2>2. verb'.from = Hand /\ pc' = "settle"
    BY <2>1, BegunIsAVerb
  <2>3. QED
    BY <1>5, <2>2 DEF InstallAbility
<1>6. CASE Fetch \/ FetchFails \/ UnpackFails \/ Leave \/ SettleFails \/ CopyFails
  BY <1>1, <1>6 DEF Fetch, FetchFails, UnpackFails, Leave, SettleFails, CopyFails
<1>7. CASE Unpack
  <2>1. TreeOf(archive) \in Trees /\ TreeOf(archive) # Nothing
    BY <1>7, TreeOfVersion DEF Unpack
  <2>2. staging' # Nothing
    BY <1>1, <1>7, <2>1, WrittenTree DEF Unpack
  <2>3. QED
    BY <1>7, <2>2 DEF Unpack
<1>8. CASE SettleBundleProof
  <2>1. verb'.from = verb.from /\ verb'.want = verb.want /\ pc' = "verify" /\ pc = "settle"
    BY <1>1, <1>8 DEF SettleBundleProof, VerbType
  <2>2. QED
    BY <1>8, <2>1 DEF SettleBundleProof
<1>9. CASE Verify
  <2>1. /\ verb'.from = verb.from /\ verb'.want = verb.want /\ pc = "verify"
        /\ pc' = "leave" \/ (pc' = "copy" /\ abilities = Nothing)
    BY <1>1, <1>9 DEF Verify, VerbType
  <2>2. QED
    BY <1>9, <2>1 DEF Verify
<1>10. CASE CopyTree
  <2>1. Source \in Trees /\ Source # Nothing
    BY <1>1, <1>10 DEF CopyTree, Source
  <2>2. abilities' # Nothing
    BY <1>1, <1>10, <2>1, WrittenTree DEF CopyTree
  <2>3. QED
    BY <1>10, <2>2 DEF CopyTree
<1>11. CASE Gate
  <2>1. /\ verb'.from = verb.from /\ verb'.want = verb.want /\ pc = "gate"
        /\ pc' = "leave" \/ (pc' = "record" /\ UNCHANGED abilities)
    BY <1>1, <1>11 DEF Gate, VerbType
  <2>2. QED
    BY <1>11, <2>1 DEF Gate
<1>12. CASE Record \/ RemoveAbility \/ Remove \/ RecordRemoval
  BY <1>1, <1>12 DEF Record, RemoveAbility, Remove, RecordRemoval
<1>13. CASE Crash
  BY <1>1, <1>13 DEF Crash
<1>14. QED
  BY <1>2, <1>3, <1>4, <1>5, <1>6, <1>7, <1>8, <1>9, <1>10, <1>11, <1>12, <1>13 DEF Next

\* What is appended is the last record.
LEMMA LastRecordStep ==
  ASSUME TypeOK
  PROVE  /\ UNCHANGED ledger => LastRecord' = LastRecord
         /\ \A r \in RecordType : ledger' = Append(ledger, r) => LastRecord' = r
<1>1. ledger \in Seq(RecordType)
  BY DEF TypeOK
<1>2. ASSUME NEW r \in RecordType, ledger' = Append(ledger, r) PROVE LastRecord' = r
  <2>1. ledger' # <<>> /\ Len(ledger') = Len(ledger) + 1 /\ ledger'[Len(ledger) + 1] = r
    BY <1>1, <1>2
  <2>2. QED
    BY <2>1 DEF LastRecord
<1>3. QED
  BY <1>2 DEF LastRecord

\* The disk and the ledger agree again when a verb ends, whichever of its steps failed.
LEMMA AgreeStep ==
  ASSUME TypeOK, InHand, Agree, [Next]_vars
  PROVE  Agree'
<1> USE DEF diskVars, Goes, Quits, Starts, Whole
<1>1. cut \in BOOLEAN /\ (UNCHANGED ledger => LastRecord' = LastRecord) /\ Install.kind = "install"
  BY LastRecordStep, InstallIsARecord DEF TypeOK
<1>2. CASE Publish \/ Edit \/ GetAbility \/ InstallAbility \/ RemoveAbility \/ UNCHANGED vars
  BY <1>1, <1>2 DEF Agree, Publish, Edit, GetAbility, InstallAbility, RemoveAbility, vars
<1>3. CASE Fetch \/ FetchFails \/ Unpack \/ UnpackFails \/ Leave \/ SettleBundleProof \/ SettleFails
  BY <1>1, <1>3 DEF Agree, Fetch, FetchFails, Unpack, UnpackFails, Leave, SettleBundleProof, SettleFails
<1>4. CASE Verify \/ CopyTree \/ CopyFails
  BY <1>1, <1>4 DEF Agree, Verify, CopyTree, CopyFails
<1>5. CASE Gate
  BY <1>1, <1>5 DEF Agree, Gate
<1>6. CASE Record /\ ledger' = Append(ledger, Install)
  <2>1. abilities = decided.tree /\ abilities # Nothing /\ LastRecord'.kind = "install"
    BY <1>1, <1>6, LastRecordStep, InstallIsARecord DEF Agree, InHand, Record
  <2>2. /\ UNCHANGED decided /\ pc' = "leave"
        /\ UNCHANGED abilities \/ (abilities' = Nothing /\ UNCHANGED ledger)
    BY <1>6 DEF Record
  <2>3. ledger' # ledger
    BY <1>6 DEF TypeOK
  <2>4. QED
    BY <2>1, <2>2, <2>3 DEF Agree
<1>7. CASE Record /\ UNCHANGED ledger
  <2>1. ledger # Append(ledger, Install)
    BY DEF TypeOK
  <2>2. QED
    BY <1>1, <1>7, <2>1 DEF Agree, Record
<1>8. CASE Remove
  BY <1>1, <1>8 DEF Agree, Remove
<1>9. CASE RecordRemoval /\ ledger' = Append(ledger, Removal)
  <2>1. LastRecord'.kind = "removal"
    BY <1>9, LastRecordStep, InstallIsARecord DEF Removal
  <2>2. QED
    BY <1>9, <2>1 DEF Agree, InHand, RecordRemoval
<1>10. CASE RecordRemoval /\ UNCHANGED ledger
  <2>1. ledger # Append(ledger, Removal)
    BY DEF TypeOK
  <2>2. QED
    BY <1>10, <2>1 DEF Agree, RecordRemoval
<1>11. CASE Crash
  <2>1. pc' = "idle" /\ UNCHANGED <<ledger, decided>> /\ abilities' \in HalfInstalled
    BY <1>11 DEF Crash
  <2>2. CASE cut \/ pc \in {"copy", "gate", "record", "remove", "unrecord"}
    <3>1. cut'
      BY <1>11, <2>2 DEF Crash
    <3>2. QED
      BY <2>1, <3>1 DEF Agree
  <2>3. CASE ~ cut /\ pc \notin {"copy", "gate", "record", "remove", "unrecord"}
    <3>1. abilities' = abilities
      BY <2>1, <2>3 DEF HalfInstalled
    <3>2. pc \in {"fetch", "unpack", "settle", "verify", "leave"}
      BY <1>11, <2>3 DEF Crash, TypeOK, PCs
    <3>3. QED
      BY <1>1, <2>1, <2>3, <3>1, <3>2 DEF Agree
  <2>4. QED
    BY <2>2, <2>3
<1>12. QED
  BY <1>2, <1>3, <1>4, <1>5, <1>6, <1>7, <1>8, <1>9, <1>10, <1>11 DEF Next, Record, RecordRemoval

\* The gate looks at the copy, so what it admits has its proof whatever the caller says.
LEMMA DecisionStep ==
  ASSUME TypeOK, DecisionHolds, [Next]_vars
  PROVE  DecisionHolds'
<1> USE DEF diskVars, Goes, Quits, Starts
<1>1. CASE Gate
  <2>1. CASE pc' # "record"
    BY <2>1 DEF DecisionHolds
  <2>2. ASSUME pc' = "record" PROVE DecisionHolds'
    <3>1. PICK d \in Decisions :
            /\ Admitted(d.verdict) \/ verb.advisory
            /\ verb' = [ verb EXCEPT !.decision = d ] /\ UNCHANGED abilities
      BY <1>1, <2>2 DEF Gate
    <3>2. /\ verb'.decision = d /\ verb'.advisory = verb.advisory /\ verb'.floor = verb.floor
          /\ verb'.note = verb.note
      BY <3>1 DEF TypeOK, VerbType
    <3>3. ASSUME Admitted(d.verdict)
          PROVE  /\ d.facts # {}
                 /\ verb.floor # "none" => ClaimsProof(abilities)
                 /\ verb.floor = "reproved" => verb.note = "reproved"
      <4>1. d.verdict = Decide(Establish) /\ d.facts = {Establish}
        BY <3>3 DEF Decisions, NoDecision, Admitted
      <4>2. Establish \in Facts /\ Admitted(Decide(Establish))
        BY <3>3, <4>1, DecisionTypes
      <4>3. /\ Establish.floor = verb.floor
            /\ Establish.proof = ProofOf(ClaimsProof(abilities), verb.note = "reproved")
        BY DEF Establish
      <4>4. /\ verb.floor # "none" => Establish.proof # "absent"
            /\ verb.floor = "reproved" => Establish.proof = "reproved"
        BY <4>2, <4>3, DecideAnswers
      <4>5. QED
        BY <4>1, <4>3, <4>4 DEF ProofOf
    <3>4. ClaimsProof(abilities)' = ClaimsProof(abilities)
      BY <3>1 DEF ClaimsProof
    <3>5. QED
      BY <3>1, <3>2, <3>3, <3>4 DEF DecisionHolds
  <2>3. QED
    BY <2>1, <2>2
<1>2. CASE Publish \/ Edit \/ UNCHANGED vars
  BY <1>2 DEF Publish, Edit, vars, DecisionHolds, ClaimsProof
<1>3. ASSUME ~ Gate, ~ Publish, ~ Edit, ~ UNCHANGED vars PROVE pc' # "record"
  <2>1. CASE GetAbility \/ InstallAbility \/ Fetch \/ FetchFails \/ Unpack \/ UnpackFails \/ Leave
    BY <2>1 DEF GetAbility, InstallAbility, Fetch, FetchFails, Unpack, UnpackFails, Leave
  <2>2. CASE SettleBundleProof \/ SettleFails \/ Verify \/ CopyTree \/ CopyFails \/ Record
    BY <2>2 DEF SettleBundleProof, SettleFails, Verify, CopyTree, CopyFails, Record
  <2>3. CASE RemoveAbility \/ Remove \/ RecordRemoval \/ Crash
    BY <2>3 DEF RemoveAbility, Remove, RecordRemoval, Crash
  <2>4. QED
    BY <1>3, <2>1, <2>2, <2>3 DEF Next
<1>4. QED
  BY <1>1, <1>2, <1>3 DEF DecisionHolds

\* What is on disk keeps the proof its record says: only the steps of the verb that
\* installed it wrote either.
LEMMA RecordHoldsStep ==
  ASSUME TypeOK, InHand, DecisionHolds, RecordHolds, [Next]_vars
  PROVE  RecordHolds'
<1> USE DEF diskVars, Goes, Quits, Starts, Whole
<1>1. UNCHANGED ledger => LastRecord' = LastRecord
  BY LastRecordStep
<1>2. CASE Publish \/ Edit \/ GetAbility \/ InstallAbility \/ RemoveAbility \/ UNCHANGED vars
  BY <1>1, <1>2 DEF RecordHolds, ClaimsProof, Publish, Edit, GetAbility, InstallAbility,
                    RemoveAbility, vars
<1>3. CASE Fetch \/ FetchFails \/ Unpack \/ UnpackFails \/ Leave \/ SettleBundleProof \/ SettleFails
  BY <1>1, <1>3 DEF RecordHolds, ClaimsProof, Fetch, FetchFails, Unpack, UnpackFails, Leave,
                    SettleBundleProof, SettleFails
<1>4. CASE Verify \/ CopyTree \/ CopyFails
  BY <1>1, <1>4 DEF RecordHolds, ClaimsProof, Verify, CopyTree, CopyFails
<1>5. CASE Gate
  BY <1>1, <1>5 DEF RecordHolds, Gate
<1>6. CASE Record
  <2>1. CASE abilities' = Nothing
    BY <2>1 DEF RecordHolds
  <2>2. ASSUME ledger' = Append(ledger, Install), UNCHANGED abilities PROVE RecordHolds'
    <3>1. LastRecord' = Install
      BY <2>2, LastRecordStep, InstallIsARecord
    <3>2. /\ Install.advisory = (verb.advisory /\ ~ Admitted(verb.decision.verdict))
          /\ Install.floor = IF verb.decision.facts = {} THEN "unrecorded" ELSE verb.floor
          /\ Install.proof = verb.note
      BY DEF Install
    <3>3. Admitted(verb.decision.verdict) \/ Install.advisory
      BY <1>6, <3>2 DEF DecisionHolds, Record
    <3>4. Admitted(verb.decision.verdict) /\ Install.floor # "none" =>
            ClaimsProof(abilities) /\ (Install.floor = "reproved" => Install.proof = "reproved")
      BY <1>6, <3>2 DEF DecisionHolds, Record
    <3>5. ClaimsProof(abilities)' = ClaimsProof(abilities)
      BY <2>2 DEF ClaimsProof
    <3>6. QED
      BY <3>1, <3>3, <3>4, <3>5 DEF RecordHolds
  <2>3. QED
    BY <1>6, <2>1, <2>2 DEF Record
<1>7. CASE Remove \/ RecordRemoval
  BY <1>1, <1>7 DEF RecordHolds, InHand, Remove, RecordRemoval
<1>8. CASE Crash
  <2>1. pc' = "idle" /\ UNCHANGED ledger /\ abilities' \in HalfInstalled
    BY <1>8 DEF Crash
  <2>2. CASE cut \/ pc \in {"copy", "gate", "record", "remove", "unrecord"}
    <3>1. cut'
      BY <1>8, <2>2 DEF Crash
    <3>2. QED
      BY <3>1 DEF RecordHolds
  <2>3. CASE ~ cut /\ pc \notin {"copy", "gate", "record", "remove", "unrecord"}
    <3>1. abilities' = abilities
      BY <2>1, <2>3 DEF HalfInstalled
    <3>2. pc \in {"fetch", "unpack", "settle", "verify", "leave"}
      BY <1>8, <2>3 DEF Crash, TypeOK, PCs
    <3>3. QED
      BY <1>1, <2>1, <2>3, <3>1, <3>2 DEF RecordHolds, ClaimsProof
  <2>4. QED
    BY <2>2, <2>3
<1>9. QED
  BY <1>2, <1>3, <1>4, <1>5, <1>6, <1>7, <1>8 DEF Next

\* No step writes over a file of the ability: the copy is made where there is none.
LEMMA ReplacedStep ==
  ASSUME TypeOK, InHand, Next, abilities # Nothing
  PROVE  \A f \in Files : abilities'[f] \in {abilities[f], Absent}
<1> USE DEF diskVars
<1>1. \A f \in Files : Nothing[f] = Absent
  BY DEF Nothing
<1>2. CASE Publish \/ Edit \/ GetAbility \/ InstallAbility \/ RemoveAbility \/ RecordRemoval
  BY <1>2 DEF Publish, Edit, GetAbility, InstallAbility, RemoveAbility, RecordRemoval
<1>3. CASE Fetch \/ FetchFails \/ Unpack \/ UnpackFails \/ Leave \/ SettleBundleProof
  BY <1>3 DEF Fetch, FetchFails, Unpack, UnpackFails, Leave, SettleBundleProof
<1>4. CASE SettleFails \/ Verify \/ CopyTree \/ CopyFails
  BY <1>1, <1>4 DEF SettleFails, Verify, CopyTree, CopyFails, InHand
<1>5. CASE Gate \/ Record
  BY <1>1, <1>5 DEF Gate, Record
<1>6. CASE Remove
  BY <1>1, <1>6, RemainsTree DEF Remove, TypeOK
<1>7. CASE Crash
  <2>1. abilities' = abilities \/ abilities' \in Remains(abilities)
    BY <1>7 DEF Crash, HalfInstalled, InHand
  <2>2. QED
    BY <2>1, RemainsTree DEF TypeOK
<1>8. QED
  BY <1>2, <1>3, <1>4, <1>5, <1>6, <1>7 DEF Next

-----------------------------------------------------------------------------
(* Theorems.                                                               *)

LEMMA IInvInit == Init => IInv
<1> SUFFICES ASSUME Init PROVE IInv
  OBVIOUS
<1>1. \A v \in Versions : TreeOf(v) # Nothing
  BY TreeOfVersion
<1>2. owned # Nothing
  BY <1>1 DEF Init
<1>3. OneRecord /\ InHand
  BY <1>2 DEF Init, OneRecord, InHand, Idle, Hand, Catalogue
<1>4. LastRecord.kind # "install"
  BY DEF Init, LastRecord, Removal
<1>5. Agree /\ DecisionHolds /\ RecordHolds
  BY <1>4 DEF Init, Agree, DecisionHolds, RecordHolds, Whole
<1>6. QED
  BY <1>3, <1>5, TypeInit DEF IInv

LEMMA IInvStep == IInv /\ [Next]_vars => IInv'
BY TypeStep, CountStep, InHandStep, AgreeStep, DecisionStep, RecordHoldsStep DEF IInv

\* The disk, the ledger and the verb in hand agree in every reachable state.
THEOREM Invariance == Spec => []IInv
BY IInvInit, IInvStep, PTL DEF Spec

\* The verbs keep their types, and no verb writes two records.
THEOREM TypeCorrectness == Spec => []TypeOK
<1>1. IInv => TypeOK
  BY DEF IInv
<1>2. QED
  BY <1>1, Invariance, PTL

\* When no verb is running or was cut off, what is on disk is what the gate let through
\* and what the ledger says last, for any bundles, flags and number of verbs.
THEOREM DiskIsLedger == Spec => []InstalledIsDecided
<1>1. IInv => InstalledIsDecided
  BY DEF IInv, Agree, Whole, InstalledIsDecided, Settled
<1>2. QED
  BY <1>1, Invariance, PTL

\* No edit of the source, and nothing the caller says, gets an ability past its floor.
THEOREM FloorIsMet == Spec => []MeetsFloor
<1>1. IInv => MeetsFloor
  BY DEF IInv, RecordHolds, Whole, MeetsFloor, Settled
<1>2. QED
  BY <1>1, Invariance, PTL

\* An installed file is only ever taken away.
THEOREM FilesAreNotReplaced == Spec => NeverReplaced
<1>1. IInv /\ [Next]_vars =>
        [abilities # Nothing => \A f \in Files : abilities'[f] \in {abilities[f], Absent}]_vars
  BY ReplacedStep DEF IInv
<1>2. QED
  BY <1>1, Invariance, PTL DEF Spec, NeverReplaced
=============================================================================
