-------------------------------- MODULE Gate --------------------------------
(***************************************************************************)
(* The admission decisions of internal/gate: what a command byte is, what  *)
(* the gate says to an authentic command, when a frame is fresh, and who    *)
(* may enrol, revoke and act.  Everything here is a pure operator; the      *)
(* components that ask these questions are Terminal and Enrol.              *)
(***************************************************************************)
EXTENDS Naturals

CONSTANT Guarded   \* FALSE only in a binary built with the "unguarded" tag

ASSUME GuardedAssumption == Guarded \in BOOLEAN

-----------------------------------------------------------------------------
(* Commands are their wire byte, and the byte is the rank.                 *)

ReportStatus      == 0
OfferCatalogue    == 1
DeliverArtifact   == 2
RequestSpecUpload == 3
InstallArtifact   == 4
RunLocalCode      == 5

Commands == ReportStatus .. RunLocalCode

\* A received byte need not be a command.
IsKnownCommand(b) == b \in Commands

NoConsent     == 0
SessionOnly   == 1
FreshExplicit == 2

Consents == NoConsent .. FreshExplicit

RequiresConsent(c) == c >= InstallArtifact

IsLocalOnly(c) == c = RequestSpecUpload

MayCommand(c, ceiling, k, authentic) ==
  /\ authentic
  /\ Guarded => /\ ~ IsLocalOnly(c)
                /\ c <= ceiling
                /\ RequiresConsent(c) => k = FreshExplicit

-----------------------------------------------------------------------------
(* The class of a refusal.  "none" is the empty reason of an admission.     *)

Reasons == { "none", "over-ceiling", "local-only", "no-consent",
             "bad-signature", "stale-seq", "unknown-command",
             "unsupported-protocol", "malformed-frame" }

\* The verdict with its reason: the first conjunct that fails, in the code's order.
Evaluate(c, ceiling, k, authentic) ==
  IF MayCommand(c, ceiling, k, authentic) THEN "none"
  ELSE IF ~ authentic     THEN "bad-signature"
  ELSE IF IsLocalOnly(c)  THEN "local-only"
  ELSE IF c > ceiling     THEN "over-ceiling"
  ELSE                         "no-consent"

\* Bug: the last frame seen is fresh again.
IsFreshOrEqual(last, seq) == seq >= last

\* Poll freshness: strictly newer than the last sequence number seen.
IsFresh(last, seq) == seq > last

-----------------------------------------------------------------------------
(* Enrolment and user standing.                                            *)

EnrolmentStates == { "Unenrolled", "Enrolled" }

MayEnrol(s, requester, authentic) ==
  authentic /\ requester = "EnrollingOwner" /\ s = "Unenrolled"

\* The person at the keyboard: only good standing may act.
Standings == { "InGoodStanding", "Revoked" }

MayAct(standing) == standing = "InGoodStanding"
=============================================================================
