------------------------ MODULE IndexerServicesProofs ------------------------
(***************************************************************************)
(* Three services of the indexer: the acceptance of attestations and of       *)
(* evidence, the search for reorganisations, and the event handlers, for any  *)
(* number of requests, nonces and bundles, any chain, any log of events and   *)
(* any number of failures.                                                   *)
(***************************************************************************)
EXTENDS Attestations, Reorg, EventHandlers, FiniteSetTheorems, WellFoundedInduction, TLAPS

------------------------------------------------------------------------------
(* Attestations.  A nonce that is not consumed has no accepted attestation,   *)
(* which is what makes the next one the first; a submission without a bundle  *)
(* has no answer.  What a request may do follows from what was validated      *)
(* before it came to its step.                                               *)

ValidatedBefore ==
  \A r \in Requests :
    /\ req[r].pc \in {"nonce", "record"} => req[r].body \in Payload
    /\ req[r].pc = "record" => req[r].body.signed
    /\ req[r].pc \in {"insert", "existing"} => req[r].body \in Evidence

AttestationsInv ==
  /\ AttestationsTypeOK
  /\ ValidatedBefore
  /\ AcceptedOnce
  /\ audit = NoBundle => answered = {}

USE DEF Answer, Proceed, IdleReq, NoBody

LEMMA AttestationsInitial == AttestationsInit => AttestationsInv
BY AttestationsAssumption DEF AttestationsInit, AttestationsInv, AttestationsTypeOK, RequestState,
   ValidatedBefore, AcceptedOnce

\* A request that ends, or goes on to a step its body was checked for, leaves the rest alone.
LEMMA RequestSteps ==
  ASSUME AttestationsInv, NEW r \in Requests,
         \/ Answer(r)
         \/ \E pc \in {"nonce", "record"} :
              /\ Proceed(r, pc) /\ req[r].body \in Payload
              /\ pc = "record" => req[r].body.signed
         \/ \E pc \in {"insert", "existing"} : Proceed(r, pc) /\ req[r].body \in Evidence
         \/ \E body \in Payload \cup Evidence :
              req' = [req EXCEPT ![r] = [body |-> body, pc |-> "validate"]]
  PROVE  req' \in [Requests -> RequestState] /\ ValidatedBefore'
<1>1. req \in [Requests -> RequestState]
  BY DEF AttestationsInv, AttestationsTypeOK
<1>2. /\ req' \in [Requests -> RequestState]
      /\ \A s \in Requests : s # r => req'[s] = req[s]
      /\ req'[r].pc \in {"nonce", "record"} => req'[r].body \in Payload
      /\ req'[r].pc = "record" => req'[r].body.signed
      /\ req'[r].pc \in {"insert", "existing"} => req'[r].body \in Evidence
  <2>1. CASE Answer(r)
    BY <1>1, <2>1 DEF RequestState
  <2>2. CASE \E pc \in {"nonce", "record"} :
               /\ Proceed(r, pc) /\ req[r].body \in Payload
               /\ pc = "record" => req[r].body.signed
    BY <1>1, <2>2 DEF RequestState
  <2>3. CASE \E pc \in {"insert", "existing"} : Proceed(r, pc) /\ req[r].body \in Evidence
    BY <1>1, <2>3 DEF RequestState
  <2>4. CASE \E body \in Payload \cup Evidence :
               req' = [req EXCEPT ![r] = [body |-> body, pc |-> "validate"]]
    BY <1>1, <2>4 DEF RequestState
  <2> QED BY <2>1, <2>2, <2>3, <2>4
<1> QED BY <1>2 DEF AttestationsInv, ValidatedBefore

LEMMA AttestationsStep == AttestationsInv /\ [AttestationsNext]_attestationVars => AttestationsInv'
<1> SUFFICES ASSUME AttestationsInv, [AttestationsNext]_attestationVars
             PROVE  AttestationsInv'
  OBVIOUS
<1>0. /\ clock \in 0 .. MaxNow /\ consumed \subseteq Nonces
      /\ audit \in Bundles \cup {NoBundle} /\ answered \subseteq Bundles
      /\ req \in [Requests -> RequestState] /\ attested \subseteq Attested
  BY DEF AttestationsInv, AttestationsTypeOK
<1>1. CASE Passes
  BY <1>1, <1>0, AttestationsAssumption DEF Passes, AttestationsInv, AttestationsTypeOK, ValidatedBefore, AcceptedOnce
<1>2. ASSUME NEW r \in Requests, NEW body \in Payload \cup Evidence, Receive(r, body)
      PROVE  AttestationsInv'
  BY <1>2, <1>0, RequestSteps DEF Receive, AttestationsInv, AttestationsTypeOK, AcceptedOnce
<1>3. ASSUME NEW r \in Requests, CheckPayload(r)
      PROVE  AttestationsInv'
  <2>1. req[r].body \in Payload
    BY <1>3, <1>0 DEF CheckPayload, RequestState, Payload, Evidence
  <2>2. req' \in [Requests -> RequestState] /\ ValidatedBefore'
    BY <1>3, <2>1, RequestSteps DEF CheckPayload
  <2> QED BY <1>3, <1>0, <2>2 DEF CheckPayload, AttestationsInv, AttestationsTypeOK, AcceptedOnce
<1>4. ASSUME NEW r \in Requests, CheckNonce(r)
      PROVE  AttestationsInv'
  <2>1. req[r].body \in Payload
    BY <1>4 DEF CheckNonce, AttestationsInv, ValidatedBefore
  <2>2. req' \in [Requests -> RequestState] /\ ValidatedBefore'
    BY <1>4, <2>1, RequestSteps DEF CheckNonce
  <2> QED BY <1>4, <1>0, <2>2 DEF CheckNonce, AttestationsInv, AttestationsTypeOK, AcceptedOnce
<1>5. ASSUME NEW r \in Requests, recordOracleNonce(r)
      PROVE  AttestationsInv'
  <2> DEFINE n == req[r].body.nonce
  <2>1. /\ req[r].body \in Payload /\ req[r].body.signed
        /\ n \in Nonces /\ req[r].body.signed \in BOOLEAN
    BY <1>5 DEF recordOracleNonce, AttestationsInv, ValidatedBefore, Payload
  <2>2. req' \in [Requests -> RequestState] /\ ValidatedBefore'
    BY <1>5, RequestSteps DEF recordOracleNonce
  <2>3. CASE n \in consumed
    BY <1>5, <1>0, <2>2, <2>3 DEF recordOracleNonce, AttestationsInv, AttestationsTypeOK, AcceptedOnce
  <2>4. CASE n \notin consumed
    <3>1. {a \in attested : a.nonce = n} = {}
      BY <2>4 DEF AttestationsInv, AcceptedOnce
    <3>2. Cardinality({a \in attested : a.nonce = n}) = 0
      BY <3>1, FS_EmptySet
    <3> DEFINE new == [nonce |-> n, signed |-> req[r].body.signed, by |-> 1]
    <3>3. consumed' = consumed \cup {n} /\ attested' = attested \cup {new}
      BY <1>5, <2>4, <3>2 DEF recordOracleNonce, Accept
    <3>4. new \in Attested /\ new.by = 1 /\ new.signed /\ new.nonce = n
      BY <2>1 DEF Attested
    <3> HIDE DEF new
    <3>5. attested' \subseteq Attested
      BY <3>3, <3>4, <1>0
    <3>6. \A a \in attested' : a.by = 1 /\ a.signed /\ a.nonce \in consumed'
      BY <3>3, <3>4 DEF AttestationsInv, AcceptedOnce
    <3> QED BY <1>5, <1>0, <2>1, <2>2, <3>3, <3>5, <3>6
            DEF recordOracleNonce, AttestationsInv, AttestationsTypeOK, AcceptedOnce
  <2> QED BY <2>3, <2>4
<1>6. ASSUME NEW r \in Requests, CheckEvidence(r)
      PROVE  AttestationsInv'
  <2>1. req[r].body \in Evidence
    BY <1>6, <1>0 DEF CheckEvidence, RequestState, Payload, Evidence
  <2>2. req' \in [Requests -> RequestState] /\ ValidatedBefore'
    BY <1>6, <2>1, RequestSteps DEF CheckEvidence
  <2> QED BY <1>6, <1>0, <2>2 DEF CheckEvidence, AttestationsInv, AttestationsTypeOK, AcceptedOnce
<1>7. ASSUME NEW r \in Requests, InsertEvidence(r)
      PROVE  AttestationsInv'
  <2>1. req[r].body \in Evidence /\ req[r].body.bundle \in Bundles
    BY <1>7 DEF InsertEvidence, AttestationsInv, ValidatedBefore, Evidence
  <2>2. req' \in [Requests -> RequestState] /\ ValidatedBefore'
    BY <1>7, <2>1, RequestSteps DEF InsertEvidence
  <2> QED BY <1>7, <1>0, <2>1, <2>2, NoBundleAssumption
          DEF InsertEvidence, AttestationsInv, AttestationsTypeOK, AcceptedOnce
<1>8. ASSUME NEW r \in Requests, CompareEvidence(r)
      PROVE  AttestationsInv'
  <2>1. req[r].body.bundle \in Bundles
    BY <1>8 DEF CompareEvidence, AttestationsInv, ValidatedBefore, Evidence
  <2>2. req' \in [Requests -> RequestState] /\ ValidatedBefore'
    BY <1>8, RequestSteps DEF CompareEvidence
  <2> QED BY <1>8, <1>0, <2>1, <2>2, NoBundleAssumption
          DEF CompareEvidence, AttestationsInv, AttestationsTypeOK, AcceptedOnce
<1>9. ASSUME NEW r \in Requests, Lost(r)
      PROVE  AttestationsInv'
  BY <1>9, <1>0, RequestSteps DEF Lost, AttestationsInv, AttestationsTypeOK, AcceptedOnce
<1>10. CASE UNCHANGED attestationVars
  BY <1>10 DEF attestationVars, AttestationsInv, AttestationsTypeOK, ValidatedBefore, AcceptedOnce
<1> QED BY <1>1, <1>2, <1>3, <1>4, <1>5, <1>6, <1>7, <1>8, <1>9, <1>10 DEF AttestationsNext

\* verifyAndConsumeOracleAttestation accepts an attestation once per nonce and only signed,
\* and createResolutionAuditLog answers 201 for one bundle per submission, for any number of
\* overlapping requests, nonces and bundles.
THEOREM AttestationsAcceptedOnce == AttestationsSpec => []AcceptedOnce
<1>1. AttestationsInv => AcceptedOnce
  BY DEF AttestationsInv
<1> QED BY <1>1, AttestationsInitial, AttestationsStep, PTL DEF AttestationsSpec

\* The nonces, the audit log and the requests' states have their types.
THEOREM AttestationsTypes == AttestationsSpec => []AttestationsTypeOK
<1>1. AttestationsInv => AttestationsTypeOK
  BY DEF AttestationsInv
<1> QED BY <1>1, AttestationsInitial, AttestationsStep, PTL DEF AttestationsSpec

------------------------------------------------------------------------------
(* Reorganisations.  A recorded hash is the hash of events that are stored,   *)
(* unless it raced with a fork; and while no fork and no failure happens, the *)
(* pass first holds the hashes of the chain, then a fork point below which    *)
(* the recorded hashes are the chain's, and from the rollback on they all     *)
(* are.  The chain grows above what is recorded.                             *)

RecordedHasRows == \A l \in Recorded \ raced : <<l, recorded[l]>> \in eventRows

RecordedIsClosed ==
  /\ \A l \in Recorded : l <= height
  /\ loop.pc \in {"store", "record"} => loop.latest \in 1 .. height

CalmPass ==
  calm =>
    /\ loop.pc = "compare" => \A l \in Recorded : loop.canonical[l] = hash[l]
    /\ loop.pc = "rollback" => \A l \in Recorded : l < loop.fork => recorded[l] = hash[l]
    /\ loop.pc \in {"sleep", "fetch", "store", "record"} => \A l \in Recorded : recorded[l] = hash[l]
    /\ loop.pc = "record" => loop.canonical[loop.latest] \in {hash[loop.latest], NoHash}

ReorgInv ==
  /\ ReorgTypeOK
  /\ loop.pc = "rollback" => loop.fork # 0
  /\ RecordedHasRows
  /\ RecordedIsClosed
  /\ CalmPass

\* A set of naturals has a least element.
LEMMA LeastNatural ==
  ASSUME NEW S \in SUBSET Nat, S # {}
  PROVE  \E m \in S : \A k \in S : m <= k
<1>1. PICK m \in S : \A k \in S : <<k, m>> \notin OpToRel(<, Nat)
  BY NatLessThanWellFounded, WFMin
<1>2. ASSUME NEW k \in S PROVE m <= k
  <2>1. ~(k < m)
    BY <1>1 DEF OpToRel
  <2> QED BY <2>1
<1> QED BY <1>2

\* detectReorg is 0 when the hashes agree, and otherwise the first ledger where they differ.
LEMMA DetectReorgIsFirst ==
  ASSUME ReorgTypeOK
  PROVE  /\ detectReorg \in 0 .. MaxHeight
         /\ detectReorg = 0 <=> Mismatches = {}
         /\ \A l \in Recorded : l < detectReorg \/ detectReorg = 0 => loop.canonical[l] = recorded[l]
<1>1. Mismatches \subseteq 1 .. MaxHeight /\ MaxHeight \in Nat
  BY ReorgAssumption DEF Mismatches, Recorded, Ledgers
<1>2. CASE Mismatches = {}
  BY <1>1, <1>2 DEF detectReorg, Mismatches
<1>3. CASE Mismatches # {}
  <2>1. \E m \in Mismatches : \A k \in Mismatches : m <= k
    BY <1>1, <1>3, LeastNatural
  <2>2. detectReorg \in Mismatches /\ \A k \in Mismatches : detectReorg <= k
    BY <2>1, <1>3 DEF detectReorg
  <2>3. detectReorg \in 1 .. MaxHeight
    BY <1>1, <2>2
  <2>4. ASSUME NEW l \in Recorded, l < detectReorg PROVE loop.canonical[l] = recorded[l]
    <3>1. l \in 1 .. MaxHeight
      BY DEF Recorded, Ledgers
    <3>2. l \notin Mismatches
      BY <2>2, <2>3, <2>4, <3>1, <1>1
    <3> QED BY <3>2 DEF Mismatches
  <2>5. detectReorg # 0 /\ detectReorg \in 0 .. MaxHeight
    BY <1>1, <2>3
  <2> QED BY <1>3, <2>4, <2>5
<1> QED BY <1>2, <1>3

\* The batch's first element is one of it.
LEMMA FirstOfBatch ==
  ASSUME NEW B \in SUBSET (Ledgers \X Hashes), B # {}
  PROVE  (CHOOSE b \in B : \A c \in B : b[1] <= c[1]) \in B
<1> DEFINE S == {b[1] : b \in B}
<1>1. S \in SUBSET Nat /\ S # {}
  BY ReorgAssumption DEF Ledgers
<1>2. PICK m \in S : \A k \in S : m <= k
  BY <1>1, LeastNatural
<1>3. \E b \in B : \A c \in B : b[1] <= c[1]
  BY <1>2
<1> QED BY <1>3

LEMMA SleepingType == Sleeping \in Loop /\ Sleeping.pc = "sleep"
<1>1. /\ NoHashes \in [Ledgers -> Hashes \cup {NoHash}] /\ 0 \in 0 .. MaxHeight
      /\ {} \in SUBSET (Ledgers \X Hashes)
  BY ReorgAssumption DEF NoHashes
<1> QED BY <1>1 DEF Sleeping, Loop

LEMMA ReorgInitial == ReorgInit => ReorgInv
<1> SUFFICES ASSUME ReorgInit PROVE ReorgInv
  OBVIOUS
<1>1. Recorded = {}
  BY DEF ReorgInit, Recorded, NoHashes, NoHash
<1>2. /\ 1 \in Ledgers /\ 0 \in Hashes /\ 1 \in 1 .. MaxHeight + 1 /\ 0 \in 0 .. MaxLoopFaults
      /\ NoHashes \in [Ledgers -> Hashes \cup {NoHash}]
  BY ReorgAssumption DEF Ledgers, Hashes, NoHashes
<1>3. ReorgTypeOK
  BY <1>2, SleepingType DEF ReorgInit, ReorgTypeOK
<1> QED BY <1>1, <1>3, SleepingType DEF ReorgInv, ReorgInit, RecordedHasRows, RecordedIsClosed, CalmPass

LEMMA ReorgStep == ReorgInv /\ [ReorgNext]_reorgVars => ReorgInv'
<1> SUFFICES ASSUME ReorgInv, [ReorgNext]_reorgVars
             PROVE  ReorgInv'
  OBVIOUS
<1>0. /\ height \in Ledgers /\ hash \in [Ledgers -> Hashes] /\ forks \in Hashes
      /\ eventRows \subseteq Ledgers \X Hashes
      /\ recorded \in [Ledgers -> Hashes \cup {NoHash}]
      /\ nextLedger \in 1 .. MaxHeight + 1
      /\ loop \in Loop
      /\ calm \in BOOLEAN /\ raced \subseteq Ledgers
      /\ loopFaults \in 0 .. MaxLoopFaults
  BY DEF ReorgInv, ReorgTypeOK
<1>a. /\ MaxHeight \in Nat \ {0} /\ MaxForks \in Nat /\ MaxLoopFaults \in Nat
      /\ Ledgers = 1 .. MaxHeight /\ Hashes = 0 .. MaxForks /\ NoHash \notin Hashes
  BY ReorgAssumption DEF Ledgers, Hashes, NoHash
<1>b. Recorded \subseteq Ledgers
  BY DEF Recorded
<1>s. Sleeping \in Loop /\ Sleeping.pc = "sleep"
  BY SleepingType
<1>1. CASE Grow
  <2>1. /\ hash' \in [Ledgers -> Hashes] /\ height' \in Ledgers
        /\ \A l \in 1 .. height : hash'[l] = hash[l]
    BY <1>1, <1>0, <1>a DEF Grow
  <2>2. Recorded' = Recorded /\ \A l \in Recorded : l \in 1 .. height
    BY <1>1, <1>0, <1>a, <1>b DEF Grow, Recorded, ReorgInv, RecordedIsClosed
  <2>3. ReorgTypeOK'
    BY <1>1, <2>1, <1>0 DEF Grow, ReorgTypeOK
  <2>4. RecordedHasRows'
    BY <1>1, <2>2 DEF Grow, ReorgInv, RecordedHasRows
  <2>5. RecordedIsClosed'
    BY <1>1, <1>0, <1>a, <2>2 DEF Grow, ReorgInv, RecordedIsClosed
  <2>6. CalmPass'
    BY <1>1, <2>1, <2>2 DEF Grow, ReorgInv, RecordedIsClosed, CalmPass
  <2> QED BY <1>1, <2>3, <2>4, <2>5, <2>6 DEF Grow, ReorgInv
<1>2. ASSUME NEW f \in Ledgers, Fork(f)
      PROVE  ReorgInv'
  <2>1. hash' \in [Ledgers -> Hashes] /\ forks' \in Hashes
    BY <1>2, <1>0, <1>a DEF Fork
  <2>2. Recorded' = Recorded
    BY <1>2 DEF Fork, Recorded
  <2> QED BY <1>2, <1>0, <2>1, <2>2
          DEF Fork, ReorgInv, ReorgTypeOK, RecordedHasRows, RecordedIsClosed, CalmPass
<1>3. CASE FetchHashes
  <2>1. Recorded' = Recorded
    BY <1>3 DEF FetchHashes, Recorded
  <2> DEFINE fetched == [l \in Ledgers |-> IF l \in Recorded THEN hash[l] ELSE NoHash]
  <2>a. /\ fetched \in [Ledgers -> Hashes \cup {NoHash}]
        /\ \A l \in Recorded : fetched[l] = hash[l]
    BY <1>0, <1>b
  <2>b. loop' = [Sleeping EXCEPT !.pc = "compare", !.canonical = fetched]
    BY <1>3 DEF FetchHashes
  <2> HIDE DEF fetched
  <2>2. /\ loop' \in Loop /\ loop'.pc = "compare"
        /\ \A l \in Recorded : loop'.canonical[l] = hash[l]
    BY <1>s, <2>a, <2>b DEF Loop
  <2> QED BY <1>3, <1>0, <2>1, <2>2
          DEF FetchHashes, ReorgInv, ReorgTypeOK, RecordedHasRows, RecordedIsClosed, CalmPass
<1>4. CASE Compare
  <2>1. Recorded' = Recorded
    BY <1>4 DEF Compare, Recorded
  <2>2. detectReorg \in 0 .. MaxHeight
    BY DetectReorgIsFirst DEF ReorgInv
  <2>3. /\ loop' \in Loop /\ loop'.fork = detectReorg
        /\ loop'.pc = IF detectReorg = 0 THEN "fetch" ELSE "rollback"
    BY <1>4, <1>0, <2>2 DEF Compare, Loop
  <2>4. CalmPass'
    <3> SUFFICES ASSUME calm PROVE CalmPass'
      BY <1>4 DEF Compare, CalmPass
    <3>1. \A l \in Recorded : loop.canonical[l] = hash[l]
      BY <1>4 DEF Compare, ReorgInv, CalmPass
    <3>2. \A l \in Recorded : l < detectReorg \/ detectReorg = 0 => recorded[l] = hash[l]
      BY <3>1, DetectReorgIsFirst DEF ReorgInv
    <3> QED BY <1>4, <2>1, <2>3, <3>2 DEF Compare, CalmPass
  <2> QED BY <1>4, <1>0, <2>1, <2>3, <2>4
          DEF Compare, ReorgInv, ReorgTypeOK, RecordedHasRows, RecordedIsClosed
<1>5. CASE RollbackToLedger
  <2>0. loop.fork \in 1 .. MaxHeight
    BY <1>5, <1>0, <1>a DEF RollbackToLedger, ReorgInv, Loop
  <2>1. Recorded' = {l \in Recorded : l < loop.fork}
        /\ \A l \in Recorded' : recorded'[l] = recorded[l]
    BY <1>5, <1>0 DEF RollbackToLedger, Recorded
  <2>2. loop' \in Loop /\ loop'.pc = "fetch"
    BY <1>5, <1>0 DEF RollbackToLedger, Loop
  <2>3. ReorgTypeOK'
    BY <1>5, <1>0, <1>a, <2>0, <2>2 DEF RollbackToLedger, ReorgTypeOK
  <2>4. RecordedHasRows'
    <3> SUFFICES ASSUME NEW l \in Recorded' \ raced' PROVE <<l, recorded'[l]>> \in eventRows'
      BY DEF RecordedHasRows
    <3>1. l \in Recorded \ raced /\ l < loop.fork /\ recorded'[l] = recorded[l]
      BY <1>5, <2>1 DEF RollbackToLedger
    <3>2. <<l, recorded[l]>> \in eventRows
      BY <3>1 DEF ReorgInv, RecordedHasRows
    <3> QED BY <1>5, <3>1, <3>2 DEF RollbackToLedger
  <2>5. RecordedIsClosed'
    BY <1>5, <2>1, <2>2 DEF RollbackToLedger, ReorgInv, RecordedIsClosed
  <2>6. CalmPass'
    BY <1>5, <2>1, <2>2 DEF RollbackToLedger, ReorgInv, CalmPass
  <2> QED BY <2>2, <2>3, <2>4, <2>5, <2>6 DEF ReorgInv
<1>6. CASE FetchEvents
  <2>1. Recorded' = Recorded
    BY <1>6 DEF FetchEvents, Recorded
  <2> DEFINE batch == {<<l, hash[l]>> : l \in nextLedger .. height}
  <2>2. batch \subseteq Ledgers \X Hashes
    BY <1>0, <1>a
  <2>a. loop' = [loop EXCEPT !.pc = "store", !.latest = height, !.batch = batch]
    BY <1>6 DEF FetchEvents
  <2>b. height \in 0 .. MaxHeight /\ height \in 1 .. height
    BY <1>0, <1>a
  <2> HIDE DEF batch
  <2>3. loop' \in Loop /\ loop'.pc = "store" /\ loop'.latest = height
    BY <1>0, <2>2, <2>a, <2>b DEF Loop
  <2> QED BY <1>6, <1>0, <2>1, <2>3, <2>b
          DEF FetchEvents, ReorgInv, ReorgTypeOK, RecordedHasRows, RecordedIsClosed, CalmPass
<1>7. CASE StoreLedger
  <2>1. Recorded' = Recorded
    BY <1>7 DEF StoreLedger, Recorded
  <2>2. PICK r \in loop.batch : /\ eventRows' = eventRows \cup {r}
                                /\ loop' = [loop EXCEPT !.batch = @ \ {r}]
    BY <1>7, <1>0, FirstOfBatch DEF StoreLedger, Loop
  <2>3. r \in Ledgers \X Hashes
    BY <1>0 DEF Loop
  <2>4. loop' \in Loop /\ loop'.pc = "store" /\ loop'.latest = loop.latest
    BY <1>7, <2>2, <1>0 DEF StoreLedger, Loop
  <2> QED BY <1>7, <1>0, <2>1, <2>2, <2>3, <2>4
          DEF StoreLedger, ReorgInv, ReorgTypeOK, RecordedHasRows, RecordedIsClosed, CalmPass
<1>8. CASE FetchLatestHash
  <2>1. Recorded' = Recorded
    BY <1>8 DEF FetchLatestHash, Recorded
  <2>2. loop.latest \in Ledgers /\ loop.latest \in 1 .. height
    BY <1>8, <1>0, <1>a DEF FetchLatestHash, ReorgInv, RecordedIsClosed
  <2>a. PICK c \in [Ledgers -> Hashes \cup {NoHash}] :
          /\ c[loop.latest] \in {hash[loop.latest], NoHash}
          /\ loop' = [loop EXCEPT !.pc = "record", !.canonical = c]
    BY <1>8, <1>0, <2>2 DEF FetchLatestHash, NoHashes
  <2>3. /\ loop' \in Loop /\ loop'.pc = "record" /\ loop'.latest = loop.latest
        /\ loop'.canonical[loop.latest] \in {hash[loop.latest], NoHash}
    BY <1>0, <2>a DEF Loop
  <2>4. loopFaults' \in 0 .. MaxLoopFaults
    BY <1>8, <1>0, <1>a DEF FetchLatestHash
  <2> QED BY <1>8, <1>0, <2>1, <2>2, <2>3, <2>4
          DEF FetchLatestHash, ReorgInv, ReorgTypeOK, RecordedHasRows, RecordedIsClosed, CalmPass
<1>9. CASE RecordLedger
  <2> DEFINE new == loop.canonical[loop.latest]
  <2>1. loop.latest \in Ledgers /\ loop.latest \in 1 .. height /\ new \in Hashes \cup {NoHash}
    BY <1>9, <1>0, <1>a DEF RecordLedger, ReorgInv, RecordedIsClosed, Loop
  <2>2. loop' = Sleeping /\ Sleeping.pc = "sleep" /\ nextLedger' \in 1 .. MaxHeight + 1
    BY <1>9, <2>1, <1>a, <1>s DEF RecordLedger
  <2>3. CASE new = NoHash
    <3>1. Recorded' = Recorded
      BY <1>9, <2>3 DEF RecordLedger, Recorded
    <3> QED BY <1>9, <1>0, <1>s, <2>2, <2>3, <3>1
            DEF RecordLedger, ReorgInv, ReorgTypeOK, RecordedHasRows, RecordedIsClosed, CalmPass
  <2>4. CASE new # NoHash
    <3>1. /\ raced' = IF <<loop.latest, new>> \in eventRows
                      THEN raced \ {loop.latest} ELSE raced \cup {loop.latest}
          /\ UNCHANGED <<height, hash, forks, eventRows, calm, loopFaults>>
      BY <1>9, <2>4 DEF RecordLedger
    <3>2. /\ recorded' \in [Ledgers -> Hashes \cup {NoHash}]
          /\ recorded'[loop.latest] = new
          /\ \A l \in Ledgers : l # loop.latest => recorded'[l] \in {recorded[l], NoHash}
      BY <1>9, <1>0, <2>1, <2>4 DEF RecordLedger
    <3>3. \A l \in Recorded' : l = loop.latest \/ (l \in Recorded /\ recorded'[l] = recorded[l])
      BY <3>2 DEF Recorded
    <3>4. ReorgTypeOK'
      BY <1>0, <1>s, <2>1, <2>2, <3>1, <3>2 DEF ReorgTypeOK
    <3>5. RecordedHasRows'
      <4> SUFFICES ASSUME NEW l \in Recorded' \ raced' PROVE <<l, recorded'[l]>> \in eventRows'
        BY DEF RecordedHasRows
      <4>1. CASE l = loop.latest
        BY <4>1, <3>1, <3>2
      <4>2. CASE l # loop.latest
        BY <4>2, <3>1, <3>3 DEF ReorgInv, RecordedHasRows
      <4> QED BY <4>1, <4>2
    <3>6. RecordedIsClosed'
      BY <2>1, <2>2, <3>1, <3>3, <1>0, <1>a DEF ReorgInv, RecordedIsClosed
    <3>7. CalmPass'
      BY <1>9, <2>2, <2>4, <3>1, <3>2, <3>3 DEF RecordLedger, ReorgInv, CalmPass
    <3> QED BY <2>2, <3>4, <3>5, <3>6, <3>7 DEF ReorgInv
  <2> QED BY <2>3, <2>4
<1>10. CASE LoopThrows
  <2>1. Recorded' = Recorded
    BY <1>10 DEF LoopThrows, Recorded
  <2>2. loop' = Sleeping /\ loopFaults' \in 0 .. MaxLoopFaults /\ calm' = FALSE
    BY <1>10, <1>0, <1>a DEF LoopThrows
  <2>3. ReorgTypeOK'
    BY <1>10, <1>0, <1>s, <2>2 DEF LoopThrows, ReorgTypeOK
  <2> QED BY <1>10, <1>s, <2>1, <2>2, <2>3
          DEF LoopThrows, ReorgInv, RecordedHasRows, RecordedIsClosed, CalmPass
<1>11. CASE UNCHANGED reorgVars
  BY <1>11 DEF reorgVars, ReorgInv, ReorgTypeOK, RecordedHasRows, RecordedIsClosed, CalmPass, Recorded
<1> QED BY <1>1, <1>2, <1>3, <1>4, <1>5, <1>6, <1>7, <1>8, <1>9, <1>10, <1>11 DEF ReorgNext

\* The loop around detectReorg and rollbackToLedger: after a pass without a fork or a failure
\* every recorded ledger that did not race has the chain's events, for every height of the
\* chain, window, number of forks and of failures.
THEOREM ReorgWindowIsCurrent == ReorgSpec => []WindowIsCurrent
<1>1. ReorgInv => WindowIsCurrent
  BY DEF ReorgInv, WindowIsCurrent, RecordedHasRows, CalmPass
<1> QED BY <1>1, ReorgInitial, ReorgStep, PTL DEF ReorgSpec

\* The window, the rows and the loop's local variables have their types.
THEOREM ReorgTypes == ReorgSpec => []ReorgTypeOK
<1>1. ReorgInv => ReorgTypeOK
  BY DEF ReorgInv
<1> QED BY <1>1, ReorgInitial, ReorgStep, PTL DEF ReorgSpec

------------------------------------------------------------------------------
(* Event handlers.  A transaction that has inserted a bet is the only one for *)
(* its event, and the bet is not committed yet.  Every claim whose row is     *)
(* inserted and not credited is still due: the balance, and each copy of it   *)
(* that a handler is about to write back, leaves room for all that are due.   *)

BetQueries == <<"insertBet", "updateTotals", "commit">>
ClaimQueries == <<"insertClaim", "getUserBalance", "credit">>
FeeQueries == <<"insertFee", "getUserBalance", "debit">>
RewardQueries == <<"insertReward", "getTotalRewardPoints">>

StepsInLog ==
  \A p \in Processes :
    /\ proc[p].pc = "run" => proc[p].at >= 1
    /\ proc[p].step # 0 => /\ proc[p].pc = "run" /\ proc[p].at <= Len(log)
                           /\ proc[p].step < Len(Queries(p))

HoldsBet(p) == proc[p].step # 0 /\ Queries(p) = BetQueries

NewBets ==
  \A p \in Processes : HoldsBet(p) =>
    /\ proc[p].at \notin bets
    /\ \A q \in Processes \ {p} : HoldsBet(q) => proc[q].at # proc[p].at

ClaimDue(p) == IF proc[p].step # 0 /\ Queries(p) = ClaimQueries THEN 1 ELSE 0
AllDue == ClaimDue("first") + ClaimDue("second")

DuesAreBacked ==
  /\ balance + AllDue <= rows.claims
  /\ \A p \in Processes : proc[p].step = 2 /\ Queries(p) \in {ClaimQueries, FeeQueries} =>
       proc[p].copy + AllDue <= rows.claims

HandlersInv ==
  /\ HandlersTypeOK
  /\ StepsInLog
  /\ NewBets
  /\ TotalsAreTheBets
  /\ DuesAreBacked

ProcState == [pc : {"down", "run"}, at : 0 .. Len(log) + 1, step : 0 .. 3, copy : Nat]

\* What the router makes of an event.
LEMMA DispatchKinds ==
  ASSUME NEW ev \in Event
  PROVE  dispatchContractEvent(ev) \in
           {<<>>, <<"persist">>, BetQueries, ClaimQueries, FeeQueries, RewardQueries}
BY DEF dispatchContractEvent, BetQueries, ClaimQueries, FeeQueries, RewardQueries, Event, Actions

LEMMA HandlersTypes ==
  ASSUME HandlersInv
  PROVE  /\ log \in Logs /\ log \in Seq(Event) /\ Len(log) \in Nat
         /\ MaxFaults \in Nat
         /\ bets \subseteq 1 .. Len(log)
         /\ totals \in [yes : Nat, no : Nat, count : Nat]
         /\ rows \in Tables /\ balance \in Nat
         /\ faults \in 0 .. MaxFaults
         /\ proc \in [Processes -> ProcState]
         /\ \A p \in Processes : proc[p] \in ProcState
<1>1. HandlersTypeOK
  BY DEF HandlersInv
<1>2. log \in Seq(Event) /\ Len(log) \in Nat
  BY <1>1, HandlersAssumption DEF HandlersTypeOK
<1> QED BY <1>1, <1>2, HandlersAssumption DEF HandlersTypeOK, ProcState

\* The place of a query in the queries of its event.
LEMMA AtFacts ==
  ASSUME HandlersInv, NEW p \in Processes, NEW query, At(p, query)
  PROVE  /\ proc[p].pc = "run" /\ proc[p].at \in 1 .. Len(log)
         /\ Len(Queries(p)) \in 1 .. 3 /\ proc[p].step \in 0 .. Len(Queries(p)) - 1
         /\ query = "insertBet" => Queries(p) = BetQueries /\ proc[p].step = 0
         /\ query = "updateTotals" => Queries(p) = BetQueries /\ proc[p].step = 1
         /\ query = "commit" => Queries(p) = BetQueries /\ proc[p].step = 2
         /\ query = "insertClaim" => Queries(p) = ClaimQueries /\ proc[p].step = 0
         /\ query = "credit" => Queries(p) = ClaimQueries /\ proc[p].step = 2
         /\ query = "debit" => Queries(p) = FeeQueries /\ proc[p].step = 2
         /\ query = "getUserBalance" => Queries(p) \in {ClaimQueries, FeeQueries} /\ proc[p].step = 1
         /\ query = "insertFee" => Queries(p) = FeeQueries /\ proc[p].step = 0
         /\ query = "persist" => Queries(p) = <<query>>
         /\ query = "insertReward" => Queries(p) = RewardQueries /\ proc[p].step = 0
         /\ query = "getTotalRewardPoints" => Queries(p) = RewardQueries /\ proc[p].step = 1
<1>1. proc[p] \in ProcState /\ Len(log) \in Nat /\ log \in Seq(Event)
  BY HandlersTypes
<1>2. proc[p].pc = "run" /\ proc[p].at \in 1 .. Len(log)
  BY <1>1 DEF At, HandlersInv, StepsInLog, ProcState
<1>3. Queries(p) \in {<<>>, <<"persist">>, BetQueries, ClaimQueries, FeeQueries, RewardQueries}
  BY <1>1, <1>2, DispatchKinds DEF Queries
<1>4. proc[p].step \in Nat /\ proc[p].step + 1 <= Len(Queries(p))
      /\ Queries(p)[proc[p].step + 1] = query
  BY <1>1 DEF At, ProcState
<1>5. Len(Queries(p)) \in 1 .. 3 /\ proc[p].step \in 0 .. Len(Queries(p)) - 1
  BY <1>3, <1>4 DEF BetQueries, ClaimQueries, FeeQueries, RewardQueries
<1>6. CASE Queries(p) = BetQueries
  BY <1>6, <1>2, <1>4, <1>5 DEF BetQueries
<1>7. CASE Queries(p) = ClaimQueries
  BY <1>7, <1>2, <1>4, <1>5 DEF ClaimQueries
<1>8. CASE Queries(p) = FeeQueries
  BY <1>8, <1>2, <1>4, <1>5 DEF FeeQueries
<1>9. CASE Queries(p) = RewardQueries
  BY <1>9, <1>2, <1>4, <1>5 DEF RewardQueries
<1>10. CASE Queries(p) = <<"persist">>
  BY <1>10, <1>2, <1>4, <1>5
<1> QED BY <1>3, <1>5, <1>6, <1>7, <1>8, <1>9, <1>10

\* A step of p leaves the other process where it is.
OthersKeep(p) == \A q \in Processes \ {p} : proc'[q] = proc[q] /\ Queries(q)' = Queries(q)

LEMMA DueChange ==
  ASSUME NEW p \in Processes, OthersKeep(p)
  PROVE  /\ AllDue' = AllDue - ClaimDue(p) + ClaimDue(p)'
         /\ \A q \in Processes : ClaimDue(q) \in {0, 1} /\ ClaimDue(q)' \in {0, 1}
         /\ AllDue \in Nat /\ AllDue' \in Nat /\ ClaimDue(p) <= AllDue
<1>1. \A q \in Processes : ClaimDue(q) \in {0, 1} /\ ClaimDue(q)' \in {0, 1}
  BY DEF ClaimDue
<1>2. \A q \in Processes \ {p} : ClaimDue(q)' = ClaimDue(q)
  BY DEF ClaimDue, OthersKeep
<1>3. /\ AllDue = ClaimDue("first") + ClaimDue("second")
      /\ AllDue' = ClaimDue("first")' + ClaimDue("second")'
  BY DEF AllDue
<1>a. /\ ClaimDue("first") \in {0, 1} /\ ClaimDue("second") \in {0, 1}
      /\ ClaimDue("first")' \in {0, 1} /\ ClaimDue("second")' \in {0, 1}
  BY <1>1 DEF Processes
<1>4. CASE p = "first"
  <2>1. ClaimDue("second")' = ClaimDue("second")
    BY <1>2, <1>4 DEF Processes
  <2> QED BY <1>1, <1>a, <1>3, <1>4, <2>1
<1>5. CASE p = "second"
  <2>1. ClaimDue("first")' = ClaimDue("first")
    BY <1>2, <1>5 DEF Processes
  <2> QED BY <1>1, <1>a, <1>3, <1>5, <2>1
<1> QED BY <1>4, <1>5 DEF Processes

\* p has not come to hold a bet.
LEMMA BetsKeep ==
  ASSUME HandlersInv, NEW p \in Processes, OthersKeep(p), UNCHANGED <<log, bets, totals>>,
         HoldsBet(p)' => HoldsBet(p) /\ proc'[p].at = proc[p].at
  PROVE  NewBets' /\ TotalsAreTheBets'
<1>1. TotalsAreTheBets'
  BY DEF HandlersInv, TotalsAreTheBets
<1>2. \A q \in Processes : HoldsBet(q)' => HoldsBet(q) /\ proc'[q].at = proc[q].at
  BY DEF HoldsBet, OthersKeep
<1>3. NewBets'
  BY <1>2 DEF HandlersInv, NewBets
<1> QED BY <1>1, <1>3

\* What is due grows with the claims, and p leaves room for it.
LEMMA DuesStep ==
  ASSUME HandlersInv, NEW p \in Processes, OthersKeep(p), rows' \in Tables,
         ClaimDue(p)' - ClaimDue(p) <= rows'.claims - rows.claims,
         balance' + AllDue' <= rows'.claims,
         proc'[p].step = 2 /\ Queries(p)' \in {ClaimQueries, FeeQueries} =>
           proc'[p].copy + AllDue' <= rows'.claims
  PROVE  DuesAreBacked'
<1> SUFFICES ASSUME NEW q \in Processes, q # p,
                    proc'[q].step = 2, Queries(q)' \in {ClaimQueries, FeeQueries}
             PROVE  proc'[q].copy + AllDue' <= rows'.claims
  BY DEF DuesAreBacked
<1>1. proc'[q] = proc[q] /\ Queries(q)' = Queries(q)
  BY DEF OthersKeep
<1>2. proc[q].copy + AllDue <= rows.claims
  BY <1>1 DEF HandlersInv, DuesAreBacked
<1>3. rows.claims \in Nat /\ rows'.claims \in Nat /\ proc[q].copy \in Nat
  BY HandlersTypes DEF Tables, ProcState
<1>4. /\ AllDue' = AllDue - ClaimDue(p) + ClaimDue(p)'
      /\ ClaimDue(p) \in {0, 1} /\ ClaimDue(p)' \in {0, 1} /\ AllDue \in Nat
  BY DueChange
<1> QED BY <1>1, <1>2, <1>3, <1>4

\* The end of a handler, a failure and a start: nothing is held by p or due from it any more.
LEMMA StepZero ==
  ASSUME HandlersInv, NEW p \in Processes, OthersKeep(p), proc'[p].step = 0,
         UNCHANGED <<log, bets, totals, balance>>, rows' \in Tables, rows'.claims = rows.claims
  PROVE  NewBets' /\ TotalsAreTheBets' /\ DuesAreBacked'
<1>1. NewBets' /\ TotalsAreTheBets'
  BY BetsKeep DEF HoldsBet
<1>2. ClaimDue(p)' = 0
  BY DEF ClaimDue
<1>3. /\ AllDue' = AllDue - ClaimDue(p) /\ ClaimDue(p) \in {0, 1} /\ AllDue \in Nat
  BY <1>2, DueChange
<1>4. rows.claims \in Nat /\ balance \in Nat
  BY HandlersTypes DEF Tables
<1>5. balance + AllDue <= rows.claims
  BY DEF HandlersInv, DuesAreBacked
<1>6. DuesAreBacked'
  <2>1. ClaimDue(p)' - ClaimDue(p) <= rows'.claims - rows.claims
    BY <1>2, <1>3, <1>4
  <2>2. balance' + AllDue' <= rows'.claims
    BY <1>3, <1>4, <1>5
  <2> QED BY <2>1, <2>2, DuesStep
<1> QED BY <1>1, <1>6

\* An event of p is handled to the end.
LEMMA EventDone ==
  ASSUME HandlersInv, NEW p \in Processes, proc[p].pc = "run", proc[p].at \in 1 .. Len(log),
         NEW r \in ProcState, proc' = [proc EXCEPT ![p] = r],
         r.pc = "run", r.at = proc[p].at + 1, r.step = 0,
         UNCHANGED log
  PROVE  /\ proc' \in [Processes -> ProcState]
         /\ StepsInLog' /\ OthersKeep(p) /\ proc'[p].step = 0
<1>1. proc \in [Processes -> ProcState] /\ Len(log) \in Nat
  BY HandlersTypes
<1>2. /\ proc' \in [Processes -> ProcState]
      /\ \A q \in Processes \ {p} : proc'[q] = proc[q]
      /\ proc'[p].step = 0 /\ proc'[p].at = proc[p].at + 1 /\ proc'[p].pc = "run"
  <2>1. proc'[p] = r /\ \A q \in Processes \ {p} : proc'[q] = proc[q]
    BY <1>1
  <2>2. proc' \in [Processes -> ProcState]
    BY <1>1
  <2> QED BY <2>1, <2>2
<1>3. OthersKeep(p)
  BY <1>2 DEF OthersKeep, Queries
<1>4. StepsInLog'
  BY <1>1, <1>2, <1>3 DEF HandlersInv, StepsInLog, OthersKeep
<1> QED BY <1>2, <1>3, <1>4

\* A query of p is done.
LEMMA QueryFacts ==
  ASSUME HandlersInv, NEW p \in Processes, NEW query, At(p, query), NEW c \in Nat, QueryDone(p, c),
         UNCHANGED log
  PROVE  /\ proc' \in [Processes -> ProcState]
         /\ StepsInLog'
         /\ OthersKeep(p)
         /\ \/ /\ proc[p].step + 1 < Len(Queries(p)) /\ proc'[p].step = proc[p].step + 1
               /\ proc'[p].at = proc[p].at /\ proc'[p].copy = c /\ Queries(p)' = Queries(p)
            \/ proc[p].step + 1 = Len(Queries(p)) /\ proc'[p].step = 0
<1>1. /\ proc \in [Processes -> ProcState] /\ Len(log) \in Nat
  BY HandlersTypes
<1>2. /\ proc[p].pc = "run" /\ proc[p].at \in 1 .. Len(log)
      /\ Len(Queries(p)) \in 1 .. 3 /\ proc[p].step \in 0 .. Len(Queries(p)) - 1
  BY AtFacts
<1>3. CASE proc[p].step + 1 < Len(Queries(p))
  <2>1. proc' = [proc EXCEPT ![p].step = @ + 1, ![p].copy = c]
    BY <1>3 DEF QueryDone
  <2>2. /\ proc' \in [Processes -> ProcState]
        /\ \A q \in Processes \ {p} : proc'[q] = proc[q]
        /\ proc'[p].step = proc[p].step + 1 /\ proc'[p].at = proc[p].at /\ proc'[p].copy = c
        /\ proc'[p].pc = "run"
    <3> DEFINE r == [proc[p] EXCEPT !.step = @ + 1, !.copy = c]
    <3>0. /\ proc[p] \in ProcState
          /\ \A n \in 1 .. 3 : \A k \in 0 .. n - 1 : k + 1 < n => k + 1 \in 0 .. 3
      BY <1>1
    <3>a. proc[p].step + 1 \in 0 .. 3
      BY <1>2, <1>3, <3>0
    <3>1. /\ r \in ProcState /\ r.step = proc[p].step + 1 /\ r.at = proc[p].at /\ r.copy = c
          /\ r.pc = "run"
      BY <1>2, <3>0, <3>a DEF ProcState
    <3>2. proc' = [proc EXCEPT ![p] = r]
      BY <1>1, <2>1
    <3> HIDE DEF r
    <3> QED BY <1>1, <3>1, <3>2
  <2>3. OthersKeep(p) /\ Queries(p)' = Queries(p)
    BY <2>2 DEF OthersKeep, Queries
  <2>4. StepsInLog'
    BY <1>1, <1>2, <1>3, <2>2, <2>3 DEF HandlersInv, StepsInLog, OthersKeep
  <2> QED BY <1>1, <1>3, <2>1, <2>2, <2>3, <2>4
<1>4. CASE ~(proc[p].step + 1 < Len(Queries(p)))
  <2>1. proc' = [proc EXCEPT ![p].at = @ + 1, ![p].step = 0, ![p].copy = 0]
    BY <1>4 DEF QueryDone
  <2>2. proc[p].step + 1 = Len(Queries(p))
    BY <1>2, <1>4
  <2> DEFINE r == [proc[p] EXCEPT !.at = @ + 1, !.step = 0, !.copy = 0]
  <2>3. proc[p] \in ProcState /\ proc[p].at + 1 \in 0 .. Len(log) + 1 /\ 0 \in 0 .. 3 /\ 0 \in Nat
    BY <1>1, <1>2
  <2>4. /\ r \in ProcState /\ r.pc = "run"
        /\ r.at = proc[p].at + 1 /\ r.step = 0
    BY <1>2, <2>3 DEF ProcState
  <2>5. proc' = [proc EXCEPT ![p] = r]
    BY <1>1, <2>1
  <2> HIDE DEF r
  <2> QED BY <1>2, <2>1, <2>2, <2>4, <2>5, EventDone
<1> QED BY <1>3, <1>4

LEMMA HandlersInitial == HandlersInit => HandlersInv
<1> SUFFICES ASSUME HandlersInit PROVE HandlersInv
  OBVIOUS
<1>1. MaxFaults \in Nat /\ Len(log) \in Nat
  BY HandlersAssumption DEF HandlersInit
<1>2. Idle \in ProcState /\ Idle.pc = "down" /\ Idle.step = 0
  BY <1>1 DEF Idle, ProcState
<1>3. HandlersTypeOK
  BY <1>1, <1>2 DEF HandlersInit, HandlersTypeOK, ProcState, Tables
<1>4. \A p \in Processes : proc[p] = Idle
  BY DEF HandlersInit
<1>5. TotalsAreTheBets
  <2>1. {i \in bets : log[i].yes} = {} /\ {i \in bets : ~log[i].yes} = {} /\ bets = {}
    BY DEF HandlersInit
  <2> QED BY <2>1, FS_EmptySet DEF HandlersInit, TotalsAreTheBets
<1>6. StepsInLog /\ NewBets
  BY <1>2, <1>4 DEF StepsInLog, NewBets, HoldsBet
<1>7. AllDue = 0
  BY <1>2, <1>4 DEF AllDue, ClaimDue, Processes
<1>8. DuesAreBacked
  BY <1>2, <1>4, <1>7 DEF HandlersInit, DuesAreBacked
<1> QED BY <1>3, <1>5, <1>6, <1>8 DEF HandlersInv

\* A step that starts or interrupts a caller.
LEMMA ProcessStep ==
  ASSUME HandlersInv, NEW p \in Processes, Start(p) \/ Interrupted(p)
  PROVE  HandlersInv'
<1>1. /\ log \in Logs /\ Len(log) \in Nat /\ MaxFaults \in Nat
      /\ rows \in Tables /\ faults \in 0 .. MaxFaults
      /\ proc \in [Processes -> ProcState]
  BY HandlersTypes
<1>2. UNCHANGED <<log, bets, totals, rows, balance>>
  BY DEF Start, Interrupted
<1>3. faults' \in 0 .. MaxFaults
  BY <1>1 DEF Start, Interrupted
<1>4. PICK r \in ProcState :
        /\ proc' = [proc EXCEPT ![p] = r] /\ r.step = 0
        /\ r.pc = "run" => r.at >= 1
  <2>0. 0 \in 0 .. Len(log) + 1 /\ 1 \in 0 .. Len(log) + 1 /\ 0 \in 0 .. 3 /\ 0 \in Nat
    BY <1>1
  <2>1. Idle \in ProcState /\ Idle.step = 0 /\ Idle.pc = "down"
    BY <2>0 DEF Idle, ProcState
  <2>2. /\ [Idle EXCEPT !.pc = "run", !.at = 1] \in ProcState
        /\ [Idle EXCEPT !.pc = "run", !.at = 1].step = 0
        /\ [Idle EXCEPT !.pc = "run", !.at = 1].at = 1
    BY <2>0, <2>1 DEF ProcState
  <2>3. CASE Start(p)
    <3> DEFINE first == [Idle EXCEPT !.pc = "run", !.at = 1]
    <3>1. first \in ProcState /\ first.step = 0 /\ first.at >= 1 /\ proc' = [proc EXCEPT ![p] = first]
      BY <2>2, <2>3 DEF Start
    <3> HIDE DEF first
    <3> QED BY <3>1
  <2>4. CASE Interrupted(p)
    <3>1. proc' = [proc EXCEPT ![p] = Idle]
      BY <2>4 DEF Interrupted
    <3> QED BY <2>1, <3>1
  <2> QED BY <2>3, <2>4
<1>5. /\ proc' \in [Processes -> ProcState] /\ proc'[p] = r
      /\ \A q \in Processes \ {p} : proc'[q] = proc[q]
  BY <1>1, <1>4
<1>6. OthersKeep(p)
  BY <1>2, <1>5 DEF OthersKeep, Queries
<1>7. NewBets' /\ TotalsAreTheBets' /\ DuesAreBacked'
  BY <1>1, <1>2, <1>4, <1>5, <1>6, StepZero
<1>8. HandlersTypeOK'
  BY <1>1, <1>2, <1>3, <1>4, <1>5 DEF HandlersInv, HandlersTypeOK, ProcState
<1>9. StepsInLog'
  BY <1>2, <1>4, <1>5, <1>6 DEF HandlersInv, StepsInLog, OthersKeep
<1> QED BY <1>7, <1>8, <1>9 DEF HandlersInv

LEMMA QueryLengths ==
  /\ Len(BetQueries) = 3 /\ Len(ClaimQueries) = 3 /\ Len(FeeQueries) = 3
  /\ Len(RewardQueries) = 2
BY DEF BetQueries, ClaimQueries, FeeQueries, RewardQueries

\* The same by the name of the query.
LEMMA QueryEffect ==
  ASSUME HandlersInv, NEW p \in Processes, NEW query, At(p, query), NEW c \in Nat, QueryDone(p, c),
         UNCHANGED log
  PROVE  /\ proc' \in [Processes -> ProcState]
         /\ StepsInLog'
         /\ OthersKeep(p)
         /\ query \in {"insertBet", "insertClaim", "insertFee", "insertReward"} =>
              proc'[p].step = 1 /\ proc'[p].at = proc[p].at /\ Queries(p)' = Queries(p)
         /\ query \in {"updateTotals", "getUserBalance"} =>
              /\ proc'[p].step = 2 /\ proc'[p].at = proc[p].at /\ Queries(p)' = Queries(p)
              /\ proc'[p].copy = c
         /\ query \in {"commit", "credit", "debit", "persist", "getTotalRewardPoints"} => proc'[p].step = 0
<1>1. /\ proc' \in [Processes -> ProcState]
      /\ StepsInLog'
      /\ OthersKeep(p)
      /\ \/ /\ proc[p].step + 1 < Len(Queries(p)) /\ proc'[p].step = proc[p].step + 1
            /\ proc'[p].at = proc[p].at /\ proc'[p].copy = c /\ Queries(p)' = Queries(p)
         \/ proc[p].step + 1 = Len(Queries(p)) /\ proc'[p].step = 0
  BY QueryFacts
<1>2. CASE query \in {"insertBet", "insertClaim", "insertFee"}
  <2>1. proc[p].step = 0 /\ Len(Queries(p)) = 3
    BY <1>2, AtFacts, QueryLengths
  <2> QED BY <1>1, <1>2, <2>1
<1>3. CASE query \in {"updateTotals", "getUserBalance"}
  <2>1. proc[p].step = 1 /\ Len(Queries(p)) = 3
    BY <1>3, AtFacts, QueryLengths
  <2> QED BY <1>1, <1>3, <2>1
<1>4. CASE query \in {"commit", "credit", "debit"}
  <2>1. proc[p].step = 2 /\ Len(Queries(p)) = 3
    BY <1>4, AtFacts, QueryLengths
  <2> QED BY <1>1, <1>4, <2>1
<1>5. CASE query = "persist"
  <2>1. Queries(p) = <<query>> /\ proc[p].step \in 0 .. Len(Queries(p)) - 1
    BY <1>5, AtFacts
  <2>2. Len(Queries(p)) = 1 /\ proc[p].step = 0
    BY <2>1
  <2> QED BY <1>1, <1>5, <2>2
<1>6. CASE query = "insertReward"
  <2>1. proc[p].step = 0 /\ Len(Queries(p)) = 2
    BY <1>6, AtFacts, QueryLengths
  <2> QED BY <1>1, <1>6, <2>1
<1>7. CASE query = "getTotalRewardPoints"
  <2>1. proc[p].step = 1 /\ Len(Queries(p)) = 2
    BY <1>7, AtFacts, QueryLengths
  <2> QED BY <1>1, <1>7, <2>1
<1> QED BY <1>1, <1>2, <1>3, <1>4, <1>5, <1>6, <1>7

\* A transaction that holds a bet is one of those that insert it.
LEMMA HoldingIsInserting ==
  ASSUME HandlersInv, NEW q \in Processes, HoldsBet(q)
  PROVE  q \in Inserting(proc[q].at)
<1>1. proc[q] \in ProcState
  BY HandlersTypes
<1>2. /\ proc[q].pc = "run" /\ proc[q].at <= Len(log) /\ proc[q].step \in {1, 2}
      /\ Queries(q) = BetQueries
  <2>1. /\ proc[q].pc = "run" /\ proc[q].at <= Len(log) /\ Queries(q) = BetQueries
        /\ proc[q].step # 0 /\ proc[q].step < Len(Queries(q))
    BY DEF HandlersInv, StepsInLog, HoldsBet
  <2>2. proc[q].step \in 0 .. 3 /\ Len(Queries(q)) = 3
    BY <1>1, <2>1, QueryLengths DEF ProcState
  <2> QED BY <2>1, <2>2
<1>3. At(q, "updateTotals") \/ At(q, "commit")
  BY <1>2 DEF At, BetQueries
<1> QED BY <1>2, <1>3 DEF Inserting

\* The end of an event without a query.
LEMMA EventSkipped ==
  ASSUME HandlersInv, NEW p \in Processes, proc[p].pc = "run", proc[p].at \in 1 .. Len(log),
         \/ proc' = [proc EXCEPT ![p].at = @ + 1, ![p].step = 0]
         \/ proc' = [proc EXCEPT ![p].at = @ + 1] /\ proc[p].step = 0,
         UNCHANGED <<log, bets, totals, rows, balance, faults>>
  PROVE  HandlersInv'
<1>1. proc \in [Processes -> ProcState] /\ rows \in Tables /\ Len(log) \in Nat
  BY HandlersTypes
<1>2. PICK r \in ProcState :
        /\ proc' = [proc EXCEPT ![p] = r]
        /\ r.pc = "run" /\ r.at = proc[p].at + 1 /\ r.step = 0
  <2>1. proc[p] \in ProcState /\ proc[p].at + 1 \in 0 .. Len(log) + 1 /\ 0 \in 0 .. 3
    BY <1>1
  <2>2. CASE proc' = [proc EXCEPT ![p].at = @ + 1, ![p].step = 0]
    <3> DEFINE r == [proc[p] EXCEPT !.at = @ + 1, !.step = 0]
    <3>1. /\ r \in ProcState /\ r.pc = "run"
          /\ r.at = proc[p].at + 1 /\ r.step = 0
      BY <2>1 DEF ProcState
    <3>2. proc' = [proc EXCEPT ![p] = r]
      BY <1>1, <2>2
    <3> HIDE DEF r
    <3> QED BY <3>1, <3>2
  <2>3. CASE proc' = [proc EXCEPT ![p].at = @ + 1] /\ proc[p].step = 0
    <3> DEFINE r == [proc[p] EXCEPT !.at = @ + 1]
    <3>1. /\ r \in ProcState /\ r.pc = "run"
          /\ r.at = proc[p].at + 1 /\ r.step = 0
      BY <2>1, <2>3 DEF ProcState
    <3>2. proc' = [proc EXCEPT ![p] = r]
      BY <1>1, <2>3
    <3> HIDE DEF r
    <3> QED BY <3>1, <3>2
  <2> QED BY <2>2, <2>3
<1>3. /\ proc' \in [Processes -> ProcState]
      /\ StepsInLog'
      /\ OthersKeep(p) /\ proc'[p].step = 0
  BY <1>1, <1>2, EventDone
<1>4. NewBets' /\ TotalsAreTheBets' /\ DuesAreBacked'
  BY <1>1, <1>3, StepZero
<1>5. HandlersTypeOK'
  BY <1>3 DEF HandlersInv, HandlersTypeOK, ProcState
<1> QED BY <1>3, <1>4, <1>5 DEF HandlersInv

LEMMA SkipStep ==
  ASSUME HandlersInv, NEW p \in Processes, Skip(p)
  PROVE  HandlersInv'
<1>1. proc \in [Processes -> ProcState] /\ proc[p] \in ProcState /\ Len(log) \in Nat
  BY HandlersTypes
<1>2. proc[p].pc = "run" /\ proc[p].at \in 1 .. Len(log)
  BY <1>1 DEF Skip, HandlersInv, StepsInLog, ProcState
<1>3. proc[p].step = 0
  BY <1>1 DEF Skip, HandlersInv, StepsInLog, ProcState
<1> QED BY <1>2, <1>3, EventSkipped DEF Skip

LEMMA InsertBetStep ==
  ASSUME HandlersInv, NEW p \in Processes, InsertBet(p)
  PROVE  HandlersInv'
<1>1. /\ proc[p].pc = "run" /\ proc[p].at \in 1 .. Len(log)
      /\ Queries(p) = BetQueries /\ proc[p].step = 0
  BY AtFacts DEF InsertBet
<1>2. CASE proc[p].at \in bets
  BY <1>1, <1>2, EventSkipped DEF InsertBet
<1>3. CASE proc[p].at \notin bets
  <2>1. At(p, "insertBet") /\ QueryDone(p, 0)
        /\ UNCHANGED <<log, bets, totals, rows, balance, faults>>
    BY <1>3 DEF InsertBet
  <2>2. /\ proc' \in [Processes -> ProcState]
        /\ StepsInLog' /\ OthersKeep(p)
        /\ proc'[p].step = 1 /\ proc'[p].at = proc[p].at /\ Queries(p)' = BetQueries
    BY <1>1, <2>1, QueryEffect
  <2>3. HandlersTypeOK'
    BY <2>1, <2>2 DEF HandlersInv, HandlersTypeOK, ProcState
  <2>4. TotalsAreTheBets'
    BY <2>1 DEF HandlersInv, TotalsAreTheBets
  <2>5. NewBets'
    <3>1. \A q \in Processes \ {p} : HoldsBet(q)' => HoldsBet(q) /\ proc'[q].at = proc[q].at
      BY <2>2 DEF HoldsBet, OthersKeep
    <3>2. \A q \in Processes \ {p} : HoldsBet(q) => proc[q].at # proc[p].at
      BY HoldingIsInserting DEF InsertBet
    <3> QED BY <1>3, <2>1, <2>2, <3>1, <3>2 DEF HandlersInv, NewBets
  <2>6. DuesAreBacked'
    <3>1. ClaimDue(p)' = 0 /\ ClaimDue(p) = 0
      BY <1>1, <2>2 DEF ClaimDue, BetQueries, ClaimQueries
    <3>2. AllDue' = AllDue /\ AllDue \in Nat
      BY <2>2, <3>1, DueChange
    <3>3. rows.claims \in Nat /\ rows \in Tables /\ balance \in Nat
      BY HandlersTypes DEF Tables
    <3>4. balance' + AllDue' <= rows'.claims
      BY <2>1, <3>2 DEF HandlersInv, DuesAreBacked
    <3> QED BY <2>1, <2>2, <3>1, <3>3, <3>4, DuesStep
  <2> QED BY <2>2, <2>3, <2>4, <2>5, <2>6 DEF HandlersInv
<1> QED BY <1>2, <1>3

LEMMA UpdateTotalsStep ==
  ASSUME HandlersInv, NEW p \in Processes, UpdateTotals(p)
  PROVE  HandlersInv'
<1>1. /\ At(p, "updateTotals") /\ QueryDone(p, 0)
      /\ UNCHANGED <<log, bets, totals, rows, balance, faults>>
  BY DEF UpdateTotals
<1>2. Queries(p) = BetQueries /\ proc[p].step = 1
  BY <1>1, AtFacts
<1>3. /\ proc' \in [Processes -> ProcState]
      /\ StepsInLog' /\ OthersKeep(p)
      /\ proc'[p].step = 2 /\ proc'[p].at = proc[p].at /\ Queries(p)' = BetQueries
  BY <1>1, <1>2, QueryEffect
<1>4. HandlersTypeOK'
  BY <1>1, <1>3 DEF HandlersInv, HandlersTypeOK, ProcState
<1>5. NewBets' /\ TotalsAreTheBets'
  BY <1>1, <1>2, <1>3, BetsKeep DEF HoldsBet
<1>6. ClaimDue(p)' = 0 /\ ClaimDue(p) = 0 /\ Queries(p)' \notin {ClaimQueries, FeeQueries}
  BY <1>2, <1>3 DEF ClaimDue, BetQueries, ClaimQueries, FeeQueries
<1>7. AllDue' = AllDue /\ AllDue \in Nat
  BY <1>3, <1>6, DueChange
<1>8. rows.claims \in Nat /\ rows \in Tables /\ balance \in Nat
  BY HandlersTypes DEF Tables
<1>9. balance' + AllDue' <= rows'.claims
  BY <1>1, <1>7 DEF HandlersInv, DuesAreBacked
<1>10. DuesAreBacked'
  BY <1>1, <1>3, <1>6, <1>8, <1>9, DuesStep
<1> QED BY <1>3, <1>4, <1>5, <1>10 DEF HandlersInv

\* The totals count one more bet, of its side.
LEMMA CommitStep ==
  ASSUME HandlersInv, NEW p \in Processes, Commit(p)
  PROVE  HandlersInv'
<1> DEFINE i == proc[p].at
<1>1. /\ At(p, "commit") /\ QueryDone(p, 0) /\ bets' = bets \cup {i}
      /\ UNCHANGED <<log, rows, balance, faults>>
  BY DEF Commit
<1>2. Queries(p) = BetQueries /\ proc[p].step = 2 /\ i \in 1 .. Len(log)
  BY <1>1, AtFacts
<1>3. /\ proc' \in [Processes -> ProcState]
      /\ StepsInLog' /\ OthersKeep(p)
      /\ proc'[p].step = 0
  BY <1>1, <1>2, QueryEffect
<1>4. /\ totals \in [yes : Nat, no : Nat, count : Nat] /\ bets \subseteq 1 .. Len(log)
      /\ Len(log) \in Nat /\ rows \in Tables
  BY HandlersTypes
<1>5. i \notin bets /\ \A q \in Processes \ {p} : HoldsBet(q) => proc[q].at # i
  BY <1>2 DEF HandlersInv, NewBets, HoldsBet
<1>6. NewBets'
  <2>1. ~HoldsBet(p)' /\ \A q \in Processes \ {p} : HoldsBet(q)' => HoldsBet(q) /\ proc'[q].at = proc[q].at
    BY <1>3 DEF HoldsBet, OthersKeep
  <2> QED BY <1>1, <1>5, <2>1 DEF HandlersInv, NewBets
<1>7. totals' \in [yes : Nat, no : Nat, count : Nat] /\ TotalsAreTheBets'
  <2> DEFINE Y == {k \in bets : log[k].yes}
             N == {k \in bets : ~log[k].yes}
  <2>1. IsFiniteSet(bets) /\ IsFiniteSet(Y) /\ IsFiniteSet(N)
    <3>1. IsFiniteSet(1 .. Len(log))
      BY <1>4, FS_Interval
    <3> QED BY <1>4, <3>1, FS_Subset
  <2>2. /\ totals.yes = Cardinality(Y) /\ totals.no = Cardinality(N)
        /\ totals.count = Cardinality(bets)
    BY DEF HandlersInv, TotalsAreTheBets
  <2>3. Cardinality(bets \cup {i}) = Cardinality(bets) + 1
    BY <1>5, <2>1, FS_AddElement
  <2>4. CASE log[i].yes
    <3>1. /\ {k \in bets' : log'[k].yes} = Y \cup {i} /\ i \notin Y
          /\ {k \in bets' : ~log'[k].yes} = N
      BY <1>1, <1>5, <2>4
    <3>2. Cardinality(Y \cup {i}) = Cardinality(Y) + 1
      BY <2>1, <3>1, FS_AddElement
    <3>3. totals' = [totals EXCEPT !.yes = @ + 1, !.count = @ + 1]
      BY <2>4 DEF Commit
    <3>4. /\ totals' \in [yes : Nat, no : Nat, count : Nat]
          /\ totals'.yes = totals.yes + 1 /\ totals'.no = totals.no
          /\ totals'.count = totals.count + 1
      <4>1. totals.yes \in Nat /\ totals.no \in Nat /\ totals.count \in Nat
        BY <1>4
      <4>2. totals.yes + 1 \in Nat /\ totals.no + 1 \in Nat /\ totals.count + 1 \in Nat
        BY <4>1
      <4> QED BY <1>4, <4>2, <3>3
    <3> HIDE DEF Y, N
    <3> QED BY <1>1, <2>2, <2>3, <3>1, <3>2, <3>4 DEF TotalsAreTheBets
  <2>5. CASE ~log[i].yes
    <3>1. /\ {k \in bets' : ~log'[k].yes} = N \cup {i} /\ i \notin N
          /\ {k \in bets' : log'[k].yes} = Y
      BY <1>1, <1>5, <2>5
    <3>2. Cardinality(N \cup {i}) = Cardinality(N) + 1
      BY <2>1, <3>1, FS_AddElement
    <3>3. totals' = [totals EXCEPT !.no = @ + 1, !.count = @ + 1]
      BY <2>5 DEF Commit
    <3>4. /\ totals' \in [yes : Nat, no : Nat, count : Nat]
          /\ totals'.no = totals.no + 1 /\ totals'.yes = totals.yes
          /\ totals'.count = totals.count + 1
      <4>1. totals.yes \in Nat /\ totals.no \in Nat /\ totals.count \in Nat
        BY <1>4
      <4>2. totals.yes + 1 \in Nat /\ totals.no + 1 \in Nat /\ totals.count + 1 \in Nat
        BY <4>1
      <4> QED BY <1>4, <4>2, <3>3
    <3> HIDE DEF Y, N
    <3> QED BY <1>1, <2>2, <2>3, <3>1, <3>2, <3>4 DEF TotalsAreTheBets
  <2> QED BY <2>4, <2>5
<1>8. HandlersTypeOK'
  BY <1>1, <1>2, <1>3, <1>4, <1>7 DEF HandlersInv, HandlersTypeOK, ProcState
<1>9. DuesAreBacked'
  <2>1. ClaimDue(p)' = 0 /\ ClaimDue(p) = 0
    BY <1>2, <1>3 DEF ClaimDue, BetQueries, ClaimQueries
  <2>2. AllDue' = AllDue /\ AllDue \in Nat
    BY <1>3, <2>1, DueChange
  <2>3. rows.claims \in Nat
    BY <1>4 DEF Tables
  <2>4. balance' + AllDue' <= rows'.claims
    BY <1>1, <2>2 DEF HandlersInv, DuesAreBacked
  <2> QED BY <1>1, <1>3, <1>4, <2>1, <2>3, <2>4, DuesStep
<1> QED BY <1>3, <1>6, <1>7, <1>8, <1>9 DEF HandlersInv

\* A row of a table that is not that of the claims, and the read after a reward.
LEMMA RowStep ==
  ASSUME HandlersInv, NEW p \in Processes,
         \/ persistDecodedEvent(p) \/ InsertFee(p) \/ InsertReward(p) \/ getTotalRewardPoints(p)
  PROVE  HandlersInv'
<1>1. PICK query \in {"persist", "insertFee", "insertReward", "getTotalRewardPoints"} :
        At(p, query) /\ QueryDone(p, 0)
  BY DEF persistDecodedEvent, InsertFee, InsertReward, InsertRow, getTotalRewardPoints
<1>2. UNCHANGED <<log, bets, totals, balance, faults>>
  BY DEF persistDecodedEvent, InsertFee, InsertReward, InsertRow, getTotalRewardPoints
<1>3. rows \in Tables /\ rows.claims \in Nat /\ balance \in Nat
  BY HandlersTypes DEF Tables
<1>4. rows' \in Tables /\ rows'.claims = rows.claims
  BY <1>3 DEF persistDecodedEvent, InsertFee, InsertReward, InsertRow, getTotalRewardPoints, Tables
<1>5. /\ proc' \in [Processes -> ProcState] /\ StepsInLog' /\ OthersKeep(p)
      /\ query \in {"insertFee", "insertReward"} => proc'[p].step = 1 /\ Queries(p)' = Queries(p)
      /\ query \notin {"insertFee", "insertReward"} => proc'[p].step = 0
  BY <1>1, <1>2, QueryEffect
<1>6. HandlersTypeOK'
  BY <1>2, <1>4, <1>5 DEF HandlersInv, HandlersTypeOK, ProcState
<1>7. NewBets' /\ TotalsAreTheBets' /\ DuesAreBacked'
  <2>1. CASE query \notin {"insertFee", "insertReward"}
    BY <1>2, <1>4, <1>5, <2>1, StepZero
  <2>2. CASE query \in {"insertFee", "insertReward"}
    <3>1. Queries(p) \in {FeeQueries, RewardQueries} /\ Queries(p)' = Queries(p)
      BY <1>1, <1>5, <2>2, AtFacts
    <3>a. {FeeQueries, RewardQueries} \cap {BetQueries, ClaimQueries} = {}
      BY DEF FeeQueries, RewardQueries, BetQueries, ClaimQueries
    <3>2. NewBets' /\ TotalsAreTheBets'
      BY <1>2, <1>5, <3>1, <3>a, BetsKeep DEF HoldsBet
    <3>3. ClaimDue(p)' = 0 /\ ClaimDue(p) = 0
      BY <3>1, <3>a DEF ClaimDue
    <3>4. AllDue' = AllDue /\ AllDue \in Nat
      BY <1>5, <3>3, DueChange
    <3>5. balance' + AllDue' <= rows'.claims
      BY <1>2, <1>4, <3>4 DEF HandlersInv, DuesAreBacked
    <3>6. ClaimDue(p)' - ClaimDue(p) <= rows'.claims - rows.claims /\ proc'[p].step # 2
      BY <1>3, <1>4, <1>5, <2>2, <3>3
    <3> QED BY <1>4, <1>5, <3>2, <3>5, <3>6, DuesStep
  <2> QED BY <2>1, <2>2
<1> QED BY <1>5, <1>6, <1>7 DEF HandlersInv

\* The row of a claim comes before its credit, which is due from then on.
LEMMA InsertClaimStep ==
  ASSUME HandlersInv, NEW p \in Processes, InsertClaim(p)
  PROVE  HandlersInv'
<1>1. /\ At(p, "insertClaim") /\ QueryDone(p, 0) /\ rows' = [rows EXCEPT !.claims = @ + 1]
      /\ UNCHANGED <<log, bets, totals, balance, faults>>
  BY DEF InsertClaim, InsertRow
<1>2. Queries(p) = ClaimQueries /\ proc[p].step = 0
  BY <1>1, AtFacts
<1>3. /\ proc' \in [Processes -> ProcState]
      /\ StepsInLog' /\ OthersKeep(p)
      /\ proc'[p].step = 1 /\ Queries(p)' = ClaimQueries
  BY <1>1, <1>2, QueryEffect
<1>4. rows \in Tables /\ rows.claims \in Nat /\ balance \in Nat
  BY HandlersTypes DEF Tables
<1>5. rows' \in Tables /\ rows'.claims = rows.claims + 1
  BY <1>1, <1>4 DEF Tables
<1>6. HandlersTypeOK'
  BY <1>1, <1>3, <1>5 DEF HandlersInv, HandlersTypeOK, ProcState
<1>7. NewBets' /\ TotalsAreTheBets'
  BY <1>1, <1>3, BetsKeep DEF HoldsBet, ClaimQueries, BetQueries
<1>8. ClaimDue(p) = 0 /\ ClaimDue(p)' = 1
  BY <1>2, <1>3 DEF ClaimDue
<1>9. AllDue' = AllDue + 1 /\ AllDue \in Nat
  BY <1>3, <1>8, DueChange
<1>10. balance + AllDue <= rows.claims
  BY DEF HandlersInv, DuesAreBacked
<1>11. DuesAreBacked'
  <2>1. balance' + AllDue' <= rows'.claims /\ ClaimDue(p)' - ClaimDue(p) <= rows'.claims - rows.claims
    BY <1>1, <1>4, <1>5, <1>8, <1>9, <1>10
  <2> QED BY <1>3, <1>5, <2>1, DuesStep
<1> QED BY <1>3, <1>6, <1>7, <1>11 DEF HandlersInv

LEMMA GetUserBalanceStep ==
  ASSUME HandlersInv, NEW p \in Processes, getUserBalance(p)
  PROVE  HandlersInv'
<1>1. /\ At(p, "getUserBalance") /\ QueryDone(p, balance)
      /\ UNCHANGED <<log, bets, totals, rows, balance, faults>>
  BY DEF getUserBalance
<1>2. Queries(p) \in {ClaimQueries, FeeQueries} /\ proc[p].step = 1
  BY <1>1, AtFacts
<1>3. rows \in Tables /\ rows.claims \in Nat /\ balance \in Nat
  BY HandlersTypes DEF Tables
<1>4. /\ proc' \in [Processes -> ProcState]
      /\ StepsInLog' /\ OthersKeep(p)
      /\ proc'[p].step = 2 /\ Queries(p)' = Queries(p) /\ proc'[p].copy = balance
  BY <1>1, <1>3, QueryEffect
<1>5. HandlersTypeOK'
  BY <1>1, <1>4 DEF HandlersInv, HandlersTypeOK, ProcState
<1>6. NewBets' /\ TotalsAreTheBets'
  BY <1>1, <1>2, <1>4, BetsKeep DEF HoldsBet, ClaimQueries, FeeQueries, BetQueries
<1>7. ClaimDue(p)' = ClaimDue(p)
  BY <1>2, <1>4 DEF ClaimDue
<1>8. AllDue' = AllDue /\ AllDue \in Nat /\ ClaimDue(p) \in {0, 1}
  BY <1>4, <1>7, DueChange
<1>9. balance + AllDue <= rows.claims
  BY DEF HandlersInv, DuesAreBacked
<1>10. DuesAreBacked'
  <2>1. /\ ClaimDue(p)' - ClaimDue(p) <= rows'.claims - rows.claims
        /\ balance' + AllDue' <= rows'.claims /\ proc'[p].copy + AllDue' <= rows'.claims
    BY <1>1, <1>3, <1>4, <1>7, <1>8, <1>9
  <2> QED BY <1>1, <1>3, <1>4, <2>1, DuesStep
<1> QED BY <1>4, <1>5, <1>6, <1>10 DEF HandlersInv

\* A copy that is written back leaves room for what is due from the others.
LEMMA UpsertStep ==
  ASSUME HandlersInv, NEW p \in Processes, Credit(p) \/ Debit(p)
  PROVE  HandlersInv'
<1>1. PICK query \in {"credit", "debit"} :
        /\ At(p, query) /\ QueryDone(p, 0)
        /\ query = "credit" => balance' = proc[p].copy + 1
        /\ query = "debit" => balance' = IF proc[p].copy < 1 THEN 0 ELSE proc[p].copy - 1
        /\ UNCHANGED <<log, bets, totals, rows, faults>>
  BY DEF Credit, Debit, upsertUserBalance
<1>2. /\ proc[p].step = 2
      /\ query = "credit" => Queries(p) = ClaimQueries
      /\ query = "debit" => Queries(p) = FeeQueries
  BY <1>1, AtFacts
<1>3. rows \in Tables /\ rows.claims \in Nat /\ proc[p].copy \in Nat
  BY HandlersTypes DEF Tables, ProcState
<1>4. /\ proc' \in [Processes -> ProcState]
      /\ StepsInLog' /\ OthersKeep(p)
      /\ proc'[p].step = 0
  BY <1>1, QueryEffect
<1>5. balance' \in Nat
  BY <1>1, <1>3
<1>6. HandlersTypeOK'
  BY <1>1, <1>4, <1>5 DEF HandlersInv, HandlersTypeOK, ProcState
<1>7. NewBets' /\ TotalsAreTheBets'
  BY <1>1, <1>4, BetsKeep DEF HoldsBet
<1>8. /\ ClaimDue(p)' = 0
      /\ query = "credit" => ClaimDue(p) = 1
  BY <1>2, <1>4 DEF ClaimDue
<1>9. /\ AllDue' = AllDue - ClaimDue(p) /\ AllDue \in Nat /\ ClaimDue(p) \in {0, 1}
      /\ ClaimDue(p) <= AllDue
  BY <1>4, <1>8, DueChange
<1>10. proc[p].copy + AllDue <= rows.claims
  BY <1>1, <1>2 DEF HandlersInv, DuesAreBacked
<1>11. DuesAreBacked'
  <2>1. balance' + AllDue' <= rows'.claims /\ ClaimDue(p)' - ClaimDue(p) <= rows'.claims - rows.claims
    <3>1. CASE query = "credit"
      BY <1>1, <1>3, <1>8, <1>9, <1>10, <3>1
    <3>2. CASE query = "debit"
      BY <1>1, <1>3, <1>8, <1>9, <1>10, <3>2
    <3> QED BY <3>1, <3>2
  <2> QED BY <1>1, <1>3, <1>4, <2>1, DuesStep
<1> QED BY <1>4, <1>6, <1>7, <1>11 DEF HandlersInv

LEMMA HandlersStep == HandlersInv /\ [HandlersNext]_handlerVars => HandlersInv'
<1> SUFFICES ASSUME HandlersInv, [HandlersNext]_handlerVars
             PROVE  HandlersInv'
  OBVIOUS
<1>1. CASE UNCHANGED handlerVars
  BY <1>1 DEF handlerVars, HandlersInv, HandlersTypeOK, StepsInLog, NewBets, HoldsBet, Queries,
              TotalsAreTheBets, DuesAreBacked, AllDue, ClaimDue
<1> QED BY <1>1, ProcessStep, SkipStep, RowStep, InsertBetStep, UpdateTotalsStep, CommitStep,
           InsertClaimStep, GetUserBalanceStep, UpsertStep DEF HandlersNext

\* Two callers of dispatchContractEvent, whatever the events, the registry, the order of the
\* handlers' queries and the failures: the market's totals are those of its bets, and no
\* balance is more than the claims on record.
THEOREM HandlersBooksAgree == HandlersSpec => []BooksAgree
<1>1. HandlersInv => BooksAgree
  <2> SUFFICES ASSUME HandlersInv PROVE BooksAgree
    OBVIOUS
  <2>1. rows.claims \in Nat /\ balance \in Nat
    BY HandlersTypes DEF Tables
  <2>2. ClaimDue("first") \in {0, 1} /\ ClaimDue("second") \in {0, 1}
    BY DEF ClaimDue
  <2>3. balance + (ClaimDue("first") + ClaimDue("second")) <= rows.claims
    BY DEF HandlersInv, DuesAreBacked, AllDue
  <2> QED BY <2>1, <2>2, <2>3 DEF HandlersInv, BooksAgree, BalanceIsBacked
<1> QED BY <1>1, HandlersInitial, HandlersStep, PTL DEF HandlersSpec

\* The log, the tables and both callers' states have their types.
THEOREM HandlersTypeCorrect == HandlersSpec => []HandlersTypeOK
<1>1. HandlersInv => HandlersTypeOK
  BY DEF HandlersInv
<1> QED BY <1>1, HandlersInitial, HandlersStep, PTL DEF HandlersSpec

==============================================================================
