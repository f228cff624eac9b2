-------------------------------- MODULE Admit --------------------------------
(***************************************************************************)
(* The admission decision over an ability (internal/admit): six facts in, one *)
(* verdict out.  The deciding core is another program; what it answers is the  *)
(* complete table in internal/admit/testdata/TABLE.tsv.  How the facts are     *)
(* established from what lies on disk is FromCatalogue and FromDirectory.      *)
(***************************************************************************)
EXTENDS Naturals

Operators    == {"requested", "absent"}
Origins      == {"attested", "unattested", "revoked"}
Integrities  == {"verified", "mismatch", "unchecked"}
Proofs       == {"reproved", "carried", "absent"}
Floors       == {"reproved", "carried", "none"}
Containments == {"contained", "uncontained"}

Facts == [ operator: Operators, origin: Origins, integrity: Integrities,
           proof: Proofs, floor: Floors, containment: Containments ]

Verdicts == { "admit", "refuse_operator_absent", "refuse_origin_revoked",
              "refuse_origin_unattested", "refuse_integrity_mismatch",
              "refuse_integrity_unchecked", "refuse_proof_absent",
              "refuse_proof_not_reproved", "refuse_uncontained_unproven",
              "refuse_undecided" }

Admitted(v) == v = "admit"

\* What the core answers: the first fact that does not hold names the refusal.
Decide(f) ==
  IF f.operator = "absent"                               THEN "refuse_operator_absent"
  ELSE IF f.origin = "revoked"                           THEN "refuse_origin_revoked"
  ELSE IF f.origin = "unattested"                        THEN "refuse_origin_unattested"
  ELSE IF f.integrity = "mismatch"                       THEN "refuse_integrity_mismatch"
  ELSE IF f.integrity = "unchecked"                      THEN "refuse_integrity_unchecked"
  ELSE IF f.proof = "absent" /\ f.floor # "none"         THEN "refuse_proof_absent"
  ELSE IF f.proof # "reproved" /\ f.floor = "reproved"   THEN "refuse_proof_not_reproved"
  ELSE IF f.proof = "absent" /\ f.containment = "uncontained"
                                                         THEN "refuse_uncontained_unproven"
  ELSE                                                        "admit"

\* The caller may say that the prover ran; it cannot say that there is a proof.
ProofOf(claims, proverRan) ==
  IF ~ claims THEN "absent" ELSE IF proverRan THEN "reproved" ELSE "carried"

ContainmentOf(hostTrust) == IF hostTrust THEN "uncontained" ELSE "contained"

OperatorOf(requested) == IF requested THEN "requested" ELSE "absent"

\* The copy against its source, then the archive against the index.  Without an
\* archive only an operator's own hand is a digest.
IntegrityOf(same, hand, delivered, digestHolds) ==
  IF ~ same            THEN "mismatch"
  ELSE IF ~ delivered  THEN IF hand THEN "verified" ELSE "unchecked"
  ELSE IF digestHolds  THEN "verified"
  ELSE                      "mismatch"

\* An index vouches only for bytes that are the ones it named.
CatalogueOrigin(integrity) == IF integrity = "verified" THEN "attested" ELSE "unattested"

DirectoryOrigin(operator) == IF operator = "requested" THEN "attested" ELSE "unattested"
=============================================================================
