---------------------------- MODULE Attestations ----------------------------
(***************************************************************************)
(* What the API accepts from oracles: signed attestations, each nonce once    *)
(* (oracle.js), and the evidence of a resolution, one bundle per submission   *)
(* (db.js, api.js).  Requests run concurrently, on one or several instances;  *)
(* a caller that gets no answer sends the same request again.                *)
(*                                                                          *)
(* isNonceConsumed and recordOracleNonce are not part of the repository; the  *)
(* second fails on a duplicate key, as its caller expects.                   *)
(***************************************************************************)
EXTENDS Integers, FiniteSets

CONSTANTS
  Requests,      \* concurrent requests
  Nonces,        \* nonces of one provider
  Bundles,       \* bundles of evidence, as the hash tells them apart
  MaxAge,        \* MAX_TIMESTAMP_AGE_MS
  MaxDrift,      \* MAX_FUTURE_DRIFT_MS
  MaxNow         \* bound on the clock

ASSUME AttestationsAssumption ==
  /\ MaxAge \in Nat /\ MaxDrift \in Nat /\ MaxNow \in Nat

\* Two spellings of one submission id, and one that is no number.
SubmissionIds == {"7", "007", "x"}
normalizeSubmissionId(id) == IF id = "x" THEN "null" ELSE "7"

Payload == [kind : {"attestation"}, nonce : Nonces, wellFormed : BOOLEAN, signed : BOOLEAN,
            timestamp : 0 .. MaxNow + MaxDrift + 1]
Evidence == [kind : {"evidence"}, id : SubmissionIds, wellFormed : BOOLEAN, bundle : Bundles]
NoBody == [kind |-> "none"]
NoBundle == "no bundle"
ASSUME NoBundleAssumption == NoBundle \notin Bundles

VARIABLES
  clock,      \* Date.now()
  consumed,   \* consumed_oracle_nonces
  audit,      \* resolution_audit_logs: the bundle of submission 7
  req,        \* requests: body and step
  attested,   \* attestations accepted: nonce, and how many it was for the nonce
  answered    \* bundles that were answered with 201

attestationVars == <<clock, consumed, audit, req, attested, answered>>

IdleReq == [body |-> NoBody, pc |-> "idle"]
RequestState == [body : Payload \cup Evidence \cup {NoBody},
                 pc : {"idle", "validate", "nonce", "record", "insert", "existing"}]
Attested == [nonce : Nonces, signed : BOOLEAN, by : Nat]

AttestationsTypeOK ==
  /\ clock \in 0 .. MaxNow /\ consumed \subseteq Nonces
  /\ audit \in Bundles \cup {NoBundle} /\ answered \subseteq Bundles
  /\ req \in [Requests -> RequestState] /\ attested \subseteq Attested

AttestationsInit ==
  /\ clock = 0 /\ consumed = {} /\ audit = NoBundle
  /\ req = [r \in Requests |-> IdleReq]
  /\ attested = {} /\ answered = {}

Receive(r, body) ==
  /\ req[r].pc = "idle"
  /\ req' = [req EXCEPT ![r] = [body |-> body, pc |-> "validate"]]
  /\ UNCHANGED <<clock, consumed, audit, attested, answered>>

\* The request ends with its answer.
Answer(r) == req' = [req EXCEPT ![r] = IdleReq]

Proceed(r, pc) == req' = [req EXCEPT ![r].pc = pc]

------------------------------------------------------------------------------
(* verifyAndConsumeOracleAttestation.                                       *)

Fresh(ts) == clock - ts <= MaxAge /\ ts - clock <= MaxDrift

\* Domain, mandatory fields and the window of time.
CheckPayload(r) ==
  /\ req[r].pc = "validate" /\ req[r].body.kind = "attestation"
  /\ IF req[r].body.wellFormed /\ Fresh(req[r].body.timestamp)
     THEN Proceed(r, "nonce") ELSE Answer(r)
  /\ UNCHANGED <<clock, consumed, audit, attested, answered>>

\* The nonce is looked up; the signature is verified in the same turn of the loop.
CheckNonce(r) ==
  /\ req[r].pc = "nonce"
  /\ IF req[r].body.nonce \notin consumed /\ req[r].body.signed
     THEN Proceed(r, "record") ELSE Answer(r)
  /\ UNCHANGED <<clock, consumed, audit, attested, answered>>

Accept(r) ==
  attested' = attested \cup {[nonce |-> req[r].body.nonce, signed |-> req[r].body.signed,
                              by |-> Cardinality({a \in attested : a.nonce = req[r].body.nonce}) + 1]}

\* Mutant: a duplicate key is taken for a nonce this request recorded.
recordOracleNonceAgain(r) ==
  /\ req[r].pc = "record"
  /\ consumed' = consumed \cup {req[r].body.nonce} /\ Accept(r)
  /\ Answer(r)
  /\ UNCHANGED <<clock, audit, answered>>

\* The insert fails on a nonce that was consumed meanwhile.
recordOracleNonce(r) ==
  /\ req[r].pc = "record"
  /\ IF req[r].body.nonce \in consumed THEN UNCHANGED <<consumed, attested>>
     ELSE consumed' = consumed \cup {req[r].body.nonce} /\ Accept(r)
  /\ Answer(r)
  /\ UNCHANGED <<clock, audit, answered>>

------------------------------------------------------------------------------
(* createResolutionAuditLog.                                                *)

CheckEvidence(r) ==
  /\ req[r].pc = "validate" /\ req[r].body.kind = "evidence"
  /\ IF normalizeSubmissionId(req[r].body.id) # "null" /\ req[r].body.wellFormed
     THEN Proceed(r, "insert") ELSE Answer(r)
  /\ UNCHANGED <<clock, consumed, audit, attested, answered>>

\* INSERT ... ON CONFLICT DO NOTHING.
InsertEvidence(r) ==
  /\ req[r].pc = "insert"
  /\ IF audit = NoBundle
     THEN /\ audit' = req[r].body.bundle
          /\ answered' = answered \cup {req[r].body.bundle}
          /\ Answer(r)
     ELSE Proceed(r, "existing") /\ UNCHANGED <<audit, answered>>
  /\ UNCHANGED <<clock, consumed, attested>>

\* The record that is there is the answer if its hash is the same; otherwise 409.
CompareEvidence(r) ==
  /\ req[r].pc = "existing"
  /\ answered' = IF audit = req[r].body.bundle THEN answered \cup {audit} ELSE answered
  /\ Answer(r)
  /\ UNCHANGED <<clock, consumed, audit, attested>>

\* The connection or the instance is lost; what the database has, stays.
Lost(r) ==
  /\ req[r].pc # "idle"
  /\ Answer(r)
  /\ UNCHANGED <<clock, consumed, audit, attested, answered>>

Passes ==
  /\ clock < MaxNow
  /\ clock' = clock + 1
  /\ UNCHANGED <<consumed, audit, req, attested, answered>>

AttestationsNext ==
  \/ Passes
  \/ \E r \in Requests :
       \/ \E body \in Payload \cup Evidence : Receive(r, body)
       \/ CheckPayload(r) \/ CheckNonce(r) \/ recordOracleNonce(r)
       \/ CheckEvidence(r) \/ InsertEvidence(r) \/ CompareEvidence(r)
       \/ Lost(r)

AttestationsSpec == AttestationsInit /\ [][AttestationsNext]_attestationVars

------------------------------------------------------------------------------
(* Properties.                                                              *)

\* However requests overlap, are lost and sent again: an attestation is accepted at most
\* once per nonce and only if it is signed, and all the evidence that was answered with
\* 201 for a submission, under any spelling of its id, is the one bundle on record.
AcceptedOnce ==
  /\ \A a \in attested : a.by = 1 /\ a.signed /\ a.nonce \in consumed
  /\ answered \subseteq {audit}
==============================================================================
