--------------------------- MODULE OperationsProofs ---------------------------
(***************************************************************************)
(* The rotation of secrets, for any number of pods, commands and failures,    *)
(* and the two watchers of disputes running together, for any disputes,       *)
(* roster, quorum and escalation times.                                      *)
(***************************************************************************)
EXTENDS RotateSecrets, DisputeMonitors, FiniteSetTheorems, TLAPS

------------------------------------------------------------------------------
(* Disputes.  An alert that was sent is of a dispute that was opened.  When   *)
(* the check in progress did not see that dispute, it is decided, and it      *)
(* stays so: votes are only added and a settlement is final.  That is why a   *)
(* failing request to resolve an incident, which PagerDuty may have carried   *)
(* out, never closes one that is needed.                                     *)

CouncilTypes ==
  /\ disputes \in [Disputes -> Dispute]
  /\ sentAlerts \subseteq Keys
  /\ check.seen \in [Disputes -> -1 .. Milestones]

SentWasOpened ==
  /\ \A k \in sentAlerts : disputes[k[1]].state # "none"
  /\ \A d \in Disputes : check.seen[d] # -1 => disputes[d].state # "none"

UnseenIsDecided ==
  \A k \in sentAlerts : check.pc # "idle" /\ check.seen[k[1]] = -1 => ~Undecided(k[1])

CouncilInv == CouncilTypes /\ SentWasOpened /\ UnseenIsDecided /\ SentIsOpen

\* The steps of one audit.
AuditStep(a) ==
  ReadAccounting(a) \/ ReadAccountingFails(a) \/ verifyEscrowInvariant(a) \/ BalanceFails(a)

\* A step of the chain: a dispute that was opened and decided stays so.
LEMMA ChainStep ==
  ASSUME CouncilInv, UNCHANGED councilVars, disputes' \in [Disputes -> Dispute],
         \A d \in Disputes : disputes[d].state # "none" =>
           disputes'[d].state # "none" /\ (Undecided(d)' => Undecided(d))
  PROVE  CouncilInv'
<1>1. \A k \in sentAlerts : k[1] \in Disputes
  BY DEF CouncilInv, CouncilTypes, Keys
<1>2. sentAlerts' = sentAlerts /\ check' = check /\ pager' = pager
  BY DEF councilVars
<1>3. CouncilTypes' /\ SentWasOpened'
  BY <1>1, <1>2 DEF CouncilInv, CouncilTypes, SentWasOpened, Keys
<1>4. UnseenIsDecided' /\ SentIsOpen'
  BY <1>1, <1>2 DEF CouncilInv, SentWasOpened, UnseenIsDecided, SentIsOpen
<1> QED BY <1>3, <1>4 DEF CouncilInv

\* A vote does not take a quorum away.
LEMMA VotesCount ==
  ASSUME NEW V, NEW v, Cardinality(V \cap Roster) >= Quorum
  PROVE  Cardinality((V \cup {v}) \cap Roster) >= Quorum
<1>1. IsFiniteSet(Roster) /\ Quorum \in Nat
  BY MonitorAssumption
<1>2. IsFiniteSet((V \cup {v}) \cap Roster)
  BY <1>1, FS_Subset, Zenon
<1>3. /\ Cardinality(V \cap Roster) <= Cardinality((V \cup {v}) \cap Roster)
      /\ IsFiniteSet(V \cap Roster)
  <2>1. V \cap Roster \in SUBSET ((V \cup {v}) \cap Roster)
    OBVIOUS
  <2> QED BY <1>2, <2>1, FS_Subset
<1>4. Cardinality(V \cap Roster) \in Nat /\ Cardinality((V \cup {v}) \cap Roster) \in Nat
  BY <1>2, <1>3, FS_CardinalityType
<1> QED BY <1>1, <1>3, <1>4

LEMMA CouncilInitial == MonitorInit => CouncilInv
BY MonitorAssumption DEF MonitorInit, CouncilInv, CouncilTypes, SentWasOpened, UnseenIsDecided, SentIsOpen,
   NoDispute, IdleCheck, Dispute, Keys

LEMMA CouncilStep == CouncilInv /\ [CouncilNext \/ EscrowNext]_monitorVars => CouncilInv'
<1> SUFFICES ASSUME CouncilInv, [CouncilNext \/ EscrowNext]_monitorVars
             PROVE  CouncilInv'
  OBVIOUS
<1>0. /\ disputes \in [Disputes -> Dispute] /\ sentAlerts \subseteq Keys
      /\ check.seen \in [Disputes -> -1 .. Milestones] /\ Milestones \in Nat
  BY MonitorAssumption DEF CouncilInv, CouncilTypes
<1>i. /\ IdleCheck.pc = "idle" /\ IdleCheck.seen \in [Disputes -> -1 .. Milestones]
      /\ \A d \in Disputes : IdleCheck.seen[d] = -1
  BY <1>0 DEF IdleCheck
<1>1. ASSUME NEW d \in Disputes, Open(d) \/ Elapse(d) \/ Settle(d)
      PROVE  CouncilInv'
  <2>1. UNCHANGED councilVars
    BY <1>1 DEF Open, Elapse, Settle
  <2>2. PICK r \in Dispute :
          /\ disputes' = [disputes EXCEPT ![d] = r] /\ r.state # "none"
          /\ r.state = "active" =>
               r.votes = disputes[d].votes /\ disputes[d].state \in {"none", "active"}
    <3>1. CASE Open(d)
      <4> DEFINE r == [disputes[d] EXCEPT !.state = "active"]
      <4>1. r \in Dispute /\ r.state = "active" /\ r.votes = disputes[d].votes
        BY <1>0 DEF Dispute
      <4>2. disputes' = [disputes EXCEPT ![d] = r] /\ disputes[d].state = "none"
        BY <3>1, <1>0 DEF Open
      <4> QED BY <4>1, <4>2
    <3>2. CASE Elapse(d)
      <4> DEFINE r == [disputes[d] EXCEPT !.passed = @ + 1]
      <4>1. disputes[d] \in Dispute /\ disputes[d].passed + 1 \in 0 .. Milestones
        BY <3>2, <1>0 DEF Elapse, Dispute
      <4>2. r \in Dispute /\ r.state = "active" /\ r.votes = disputes[d].votes
        BY <3>2, <4>1 DEF Elapse, Dispute
      <4>3. disputes' = [disputes EXCEPT ![d] = r] /\ disputes[d].state = "active"
        BY <3>2, <1>0 DEF Elapse
      <4> QED BY <4>2, <4>3
    <3>3. CASE Settle(d)
      <4> DEFINE r == [NoDispute EXCEPT !.state = "settled"]
      <4>1. r \in Dispute /\ r.state = "settled"
        BY <1>0 DEF NoDispute, Dispute
      <4>2. disputes' = [disputes EXCEPT ![d] = r]
        BY <3>3 DEF Settle
      <4> QED BY <4>1, <4>2
    <3> QED BY <1>1, <3>1, <3>2, <3>3
  <2>3. disputes' \in [Disputes -> Dispute]
    BY <1>0, <2>2
  <2>4. ASSUME NEW e \in Disputes, disputes[e].state # "none"
        PROVE  disputes'[e].state # "none" /\ (Undecided(e)' => Undecided(e))
    <3>1. CASE e = d
      BY <1>0, <2>2, <2>4, <3>1 DEF Undecided, quorumReached
    <3>2. CASE e # d
      BY <1>0, <2>2, <2>4, <3>2 DEF Undecided
    <3> QED BY <3>1, <3>2
  <2> QED BY <2>1, <2>3, <2>4, ChainStep
<1>2. ASSUME NEW d \in Disputes, NEW v \in Voters, Vote(d, v)
      PROVE  CouncilInv'
  <2>1. UNCHANGED councilVars /\ disputes' = [disputes EXCEPT ![d].votes = @ \cup {v}]
    BY <1>2 DEF Vote
  <2>2. disputes' \in [Disputes -> Dispute]
    BY <1>0, <2>1 DEF Dispute
  <2>3. ASSUME NEW e \in Disputes, disputes[e].state # "none"
        PROVE  disputes'[e].state # "none" /\ (Undecided(e)' => Undecided(e))
    <3>1. CASE e = d
      <4>1. disputes'[d].state = disputes[d].state /\ disputes'[d].votes = disputes[d].votes \cup {v}
        BY <1>0, <2>1 DEF Dispute
      <4>2. quorumReached(disputes[d]) => quorumReached(disputes'[d])
        BY <4>1, VotesCount DEF quorumReached
      <4> QED BY <2>3, <3>1, <4>1, <4>2 DEF Undecided
    <3>2. CASE e # d
      BY <1>0, <2>1, <2>3, <3>2 DEF Undecided
    <3> QED BY <3>1, <3>2
  <2> QED BY <2>1, <2>2, <2>3, ChainStep
<1>3. CASE FetchActive
  <2>1. /\ check'.pc = "resolve" /\ disputes' = disputes /\ pager' = pager /\ sentAlerts' = sentAlerts
        /\ check'.seen = [d \in Disputes |-> IF Undecided(d) THEN disputes[d].passed ELSE -1]
    BY <1>3 DEF FetchActive, chainVars
  <2>2. \A d \in Disputes : disputes[d].passed \in 0 .. Milestones
    BY <1>0 DEF Dispute
  <2>3. /\ check'.seen \in [Disputes -> -1 .. Milestones]
        /\ \A d \in Disputes : check'.seen[d] = -1 <=> ~Undecided(d)
    BY <1>0, <2>1, <2>2
  <2>4. \A k \in sentAlerts : k[1] \in Disputes
    BY <1>0 DEF Keys
  <2>5. \A d \in Disputes : Undecided(d)' <=> Undecided(d)
    BY <2>1 DEF Undecided
  <2>6. \A d \in Disputes : Undecided(d) => disputes[d].state # "none"
    BY DEF Undecided
  <2> QED BY <1>0, <2>1, <2>3, <2>4, <2>5, <2>6
          DEF CouncilInv, CouncilTypes, SentWasOpened, UnseenIsDecided, SentIsOpen, Keys
<1>4. CASE ResolvedAll
  <2>1. /\ disputes' = disputes /\ pager' = pager /\ sentAlerts' = sentAlerts
        /\ check' = [check EXCEPT !.pc = "dispatch"] /\ check.pc = "resolve"
    BY <1>4 DEF ResolvedAll, chainVars
  <2>2. check'.seen = check.seen
    BY <2>1
  <2> QED BY <2>1, <2>2
          DEF CouncilInv, CouncilTypes, SentWasOpened, UnseenIsDecided, SentIsOpen, Undecided, Keys
<1>5. CASE CheckEnds
  BY <1>5, <1>i DEF CheckEnds, chainVars,
     CouncilInv, CouncilTypes, SentWasOpened, UnseenIsDecided, SentIsOpen, Undecided, Keys
<1>6. ASSUME NEW k \in Keys, ResolvePagerDutyAlert(k)
      PROVE  CouncilInv'
  BY <1>6 DEF ResolvePagerDutyAlert, chainVars,
     CouncilInv, CouncilTypes, SentWasOpened, UnseenIsDecided, SentIsOpen, Undecided, Keys
<1>7. ASSUME NEW k \in Keys, DispatchPagerDutyAlert(k)
      PROVE  CouncilInv'
  <2>1. /\ disputes' = disputes /\ check' = check
        /\ pager' = pager \cup {k} /\ sentAlerts' = sentAlerts \cup {k}
    BY <1>7 DEF DispatchPagerDutyAlert, chainVars
  <2>2. k[1] \in Disputes /\ k[2] \in 1 .. Milestones /\ k[2] <= check.seen[k[1]]
    BY <1>7 DEF DispatchPagerDutyAlert, Due, Keys
  <2>3. check.seen[k[1]] # -1
    BY <1>0, <2>2
  <2> QED BY <2>1, <2>2, <2>3
          DEF CouncilInv, CouncilTypes, SentWasOpened, UnseenIsDecided, SentIsOpen, Undecided, Keys
<1>8. ASSUME NEW k \in Keys, ResolveFails(k)
      PROVE  CouncilInv'
  <2>1. /\ disputes' = disputes /\ sentAlerts' = sentAlerts /\ check' = IdleCheck
        /\ pager \ {k} \subseteq pager'
    BY <1>8 DEF ResolveFails, chainVars
  <2>2. ~Undecided(k[1])
    BY <1>8 DEF ResolveFails, Over, CouncilInv, UnseenIsDecided
  <2>3. SentIsOpen'
    BY <2>1, <2>2 DEF CouncilInv, SentIsOpen, Undecided
  <2> QED BY <1>i, <2>1, <2>3 DEF CouncilInv, CouncilTypes, SentWasOpened, UnseenIsDecided, Keys
<1>9. ASSUME NEW k \in Keys, DispatchFails(k)
      PROVE  CouncilInv'
  <2>1. /\ disputes' = disputes /\ sentAlerts' = sentAlerts /\ check' = IdleCheck
        /\ pager \subseteq pager'
    BY <1>9 DEF DispatchFails, chainVars
  <2> QED BY <1>i, <2>1
          DEF CouncilInv, CouncilTypes, SentWasOpened, UnseenIsDecided, SentIsOpen, Undecided, Keys
<1>10. CASE MonitorRestart
  BY <1>10, <1>i DEF MonitorRestart, chainVars,
     CouncilInv, CouncilTypes, SentWasOpened, UnseenIsDecided, SentIsOpen
<1>11. ASSUME UNCHANGED <<disputes, councilVars>>
       PROVE  CouncilInv'
  BY <1>11 DEF councilVars,
     CouncilInv, CouncilTypes, SentWasOpened, UnseenIsDecided, SentIsOpen, Undecided, Keys
<1>12. ASSUME NEW d \in Disputes, Record(d)
       PROVE  CouncilInv'
  BY <1>11, <1>12 DEF Record
<1>13. CASE Leak \/ ResetCircuitBreaker \/ \E a \in Audits : AuditStep(a)
  BY <1>11, <1>13 DEF Leak, ResetCircuitBreaker, AuditStep, ReadAccounting, ReadAccountingFails,
     verifyEscrowInvariant, BalanceFails, Judge, chainVars
<1>14. CASE UNCHANGED monitorVars
  BY <1>11, <1>14 DEF monitorVars, chainVars
<1>15. CASE CouncilNext
  BY <1>15, <1>1, <1>2, <1>3, <1>4, <1>5, <1>6, <1>7, <1>8, <1>9, <1>10 DEF CouncilNext, CouncilCheck
<1>16. CASE EscrowNext
  BY <1>16, <1>1, <1>10, <1>12, <1>13 DEF EscrowNext, AuditStep
<1> QED BY <1>14, <1>15, <1>16

\* councilInactivity.js: what it remembers as sent is an open incident while the dispute is
\* undecided, for any disputes, votes, failures and restarts, with the escrow worker beside it.
THEOREM MonitorsSentIsOpen == MonitorsSpec => []SentIsOpen
<1>1. CouncilInv => SentIsOpen
  BY DEF CouncilInv
<1> QED BY <1>1, CouncilInitial, CouncilStep, PTL DEF MonitorsSpec

LEMMA MonitorInitial == IsFiniteSet(Disputes) /\ MonitorInit => MonitorTypeOK
<1> SUFFICES ASSUME IsFiniteSet(Disputes), MonitorInit PROVE MonitorTypeOK
  OBVIOUS
<1>1. Milestones \in Nat /\ MaxMonitorFaults \in Nat /\ Cardinality(Disputes) \in Nat
  BY MonitorAssumption, FS_CardinalityType
<1>2. NoDispute \in Dispute /\ NoAccounting \in Accounting
  BY <1>1 DEF NoDispute, Dispute, NoAccounting, Accounting
<1>3. /\ IdleCheck \in [pc : {"idle", "resolve", "dispatch"}, seen : [Disputes -> -1 .. Milestones]]
      /\ NoAudit \in [Audits -> Audit]
  BY <1>1, <1>2 DEF IdleCheck, NoAudit, IdleAudit, Audit
<1>4. /\ disputes \in [Disputes -> Dispute] /\ monitorFaults \in 0 .. MaxMonitorFaults
      /\ rows \in [Disputes -> {"none", "deposited", "settled"}]
  BY <1>1, <1>2 DEF MonitorInit
<1>5. check = IdleCheck /\ audit = NoAudit
  BY DEF MonitorInit
<1>6. holdings \in Int /\ pager \in SUBSET Keys /\ sentAlerts \in SUBSET Keys
  BY DEF MonitorInit
<1>7. leaked \in BOOLEAN /\ wired \in BOOLEAN /\ tripped \in BOOLEAN
  BY Zenon DEF MonitorInit
<1> QED BY <1>3, <1>4, <1>5, <1>6, <1>7 DEF MonitorTypeOK

\* The two watchers' positions and what they remember have their types.
LEMMA MonitorStep ==
  ASSUME IsFiniteSet(Disputes)
  PROVE  MonitorTypeOK /\ [CouncilNext \/ EscrowNext]_monitorVars => MonitorTypeOK'
<1> SUFFICES ASSUME MonitorTypeOK, [CouncilNext \/ EscrowNext]_monitorVars PROVE MonitorTypeOK'
  OBVIOUS
<1> USE DEF chainVars, councilVars, escrowVars
<1>0. /\ Milestones \in Nat /\ MaxMonitorFaults \in Nat /\ Cardinality(Disputes) \in Nat
      /\ disputes \in [Disputes -> Dispute] /\ holdings \in Int
      /\ rows \in [Disputes -> {"none", "deposited", "settled"}]
      /\ pager \in SUBSET Keys /\ sentAlerts \in SUBSET Keys
      /\ check \in [pc : {"idle", "resolve", "dispatch"}, seen : [Disputes -> -1 .. Milestones]]
      /\ monitorFaults \in 0 .. MaxMonitorFaults /\ audit \in [Audits -> Audit]
  BY MonitorAssumption, FS_CardinalityType DEF MonitorTypeOK
<1>1. NoAccounting \in Accounting /\ IdleAudit \in Audit /\ NoAudit \in [Audits -> Audit]
  BY <1>0 DEF NoAccounting, Accounting, IdleAudit, Audit, NoAudit
<1>d. Disturbed \in [Audits -> Audit]
  BY <1>0 DEF Disturbed, Audit
<1>2. IdleCheck \in [pc : {"idle", "resolve", "dispatch"}, seen : [Disputes -> -1 .. Milestones]]
  BY <1>0 DEF IdleCheck
<1>3. MonitorFault => monitorFaults' \in 0 .. MaxMonitorFaults
  BY <1>0 DEF MonitorFault
<1>4. \A d \in Disputes : disputes[d] \in Dispute
  BY <1>0
<1>5. ASSUME disputes' \in [Disputes -> Dispute], holdings' \in Int, leaked' \in BOOLEAN,
             audit' \in [Audits -> Audit],
             UNCHANGED <<wired, rows, councilVars, tripped, monitorFaults>>
      PROVE  MonitorTypeOK'
  BY <1>5 DEF MonitorTypeOK
<1>6. ASSUME NEW d \in Disputes, Open(d) \/ Elapse(d) \/ Settle(d)
      PROVE  MonitorTypeOK'
  <2>1. PICK r \in Dispute : disputes' = [disputes EXCEPT ![d] = r]
    <3>1. CASE Open(d)
      <4> DEFINE r == [disputes[d] EXCEPT !.state = "active"]
      <4>1. r \in Dispute
        BY <1>4 DEF Dispute
      <4>2. disputes' = [disputes EXCEPT ![d] = r]
        BY <3>1, <1>0 DEF Open
      <4> QED BY <4>1, <4>2
    <3>2. CASE Elapse(d)
      <4> DEFINE r == [disputes[d] EXCEPT !.passed = @ + 1]
      <4>1. disputes[d] \in Dispute /\ disputes[d].passed + 1 \in 0 .. Milestones
        BY <3>2, <1>0, <1>4 DEF Elapse, Dispute
      <4>2. r \in Dispute
        BY <4>1 DEF Dispute
      <4>3. disputes' = [disputes EXCEPT ![d] = r]
        BY <3>2, <1>0 DEF Elapse
      <4> QED BY <4>2, <4>3
    <3>3. CASE Settle(d)
      <4> DEFINE r == [NoDispute EXCEPT !.state = "settled"]
      <4>1. r \in Dispute
        BY <1>0 DEF NoDispute, Dispute
      <4>2. disputes' = [disputes EXCEPT ![d] = r]
        BY <3>3 DEF Settle
      <4> QED BY <4>1, <4>2
    <3> QED BY <1>6, <3>1, <3>2, <3>3
  <2>2. disputes' \in [Disputes -> Dispute]
    BY <1>0, <2>1
  <2>3. /\ holdings' \in Int /\ leaked' = leaked /\ audit' \in [Audits -> Audit]
        /\ UNCHANGED <<wired, rows, councilVars, tripped, monitorFaults>>
    BY <1>0, <1>d, <1>6 DEF Open, Elapse, Settle
  <2> QED BY <1>5, <2>2, <2>3 DEF MonitorTypeOK
<1>7. ASSUME NEW d \in Disputes, NEW v \in Voters, Vote(d, v)
      PROVE  MonitorTypeOK'
  <2>1. /\ disputes' = [disputes EXCEPT ![d].votes = @ \cup {v}]
        /\ UNCHANGED <<holdings, leaked, wired, rows, councilVars, escrowVars, monitorFaults>>
    BY <1>7 DEF Vote
  <2>2. disputes' \in [Disputes -> Dispute]
    BY <1>0, <2>1 DEF Dispute
  <2> QED BY <1>0, <1>5, <2>1, <2>2 DEF MonitorTypeOK
<1>8. CASE FetchActive
  <2> DEFINE seen == [d \in Disputes |-> IF Undecided(d) THEN disputes[d].passed ELSE -1]
  <2>1. check' = [pc |-> "resolve", seen |-> seen]
        /\ UNCHANGED <<chainVars, pager, sentAlerts, escrowVars, monitorFaults>>
    BY <1>8 DEF FetchActive
  <2>2. \A d \in Disputes : disputes[d].passed \in 0 .. Milestones
    BY <1>4 DEF Dispute
  <2>3. seen \in [Disputes -> -1 .. Milestones]
    BY <1>0, <2>2
  <2> HIDE DEF seen
  <2> QED BY <2>1, <2>3 DEF MonitorTypeOK
<1>9. CASE ResolvedAll \/ CheckEnds
  BY <1>0, <1>2, <1>9 DEF ResolvedAll, CheckEnds, MonitorTypeOK
<1>10. ASSUME NEW k \in Keys, \/ ResolvePagerDutyAlert(k) \/ DispatchPagerDutyAlert(k)
                              \/ ResolveFails(k) \/ DispatchFails(k)
       PROVE  MonitorTypeOK'
  <2>1. pager' \in SUBSET Keys /\ sentAlerts' \in SUBSET Keys
    BY <1>0, <1>10
       DEF ResolvePagerDutyAlert, DispatchPagerDutyAlert, ResolveFails, DispatchFails
  <2>2. /\ check' \in {check, IdleCheck} /\ UNCHANGED <<chainVars, escrowVars>>
        /\ monitorFaults' \in 0 .. MaxMonitorFaults
    BY <1>0, <1>3, <1>10
       DEF ResolvePagerDutyAlert, DispatchPagerDutyAlert, ResolveFails, DispatchFails
  <2> QED BY <1>0, <1>2, <2>1, <2>2 DEF MonitorTypeOK
<1>11. CASE MonitorRestart
  BY <1>0, <1>1, <1>2, <1>3, <1>11 DEF MonitorRestart, MonitorTypeOK
<1>12. ASSUME NEW d \in Disputes, Record(d)
       PROVE  MonitorTypeOK'
  <2>1. /\ rows' = [rows EXCEPT ![d] = IF @ = "none" THEN "deposited" ELSE "settled"]
        /\ UNCHANGED <<disputes, holdings, leaked, wired, councilVars, escrowVars, monitorFaults>>
    BY <1>12 DEF Record
  <2>2. rows' \in [Disputes -> {"none", "deposited", "settled"}]
    BY <1>0, <2>1
  <2> QED BY <2>1, <2>2 DEF MonitorTypeOK
<1>13. CASE Leak
  BY <1>0, <1>5, <1>13 DEF Leak
<1>14. getBondAccounting \in Accounting
  <2>1. \A S \in SUBSET Disputes : Cardinality(S) \in 0 .. Cardinality(Disputes)
    BY <1>0, FS_Subset, FS_CardinalityType
  <2>2. /\ {d \in Disputes : rows[d] # "none"} \in SUBSET Disputes
        /\ {d \in Disputes : rows[d] = "settled"} \in SUBSET Disputes
    OBVIOUS
  <2> QED BY <2>1, <2>2 DEF getBondAccounting, Accounting
<1>15. ASSUME NEW a \in Audits, ReadAccounting(a) \/ ReadAccountingFails(a)
       PROVE  MonitorTypeOK'
  <2>1. PICK r \in Audit : audit' = [audit EXCEPT ![a] = r]
    <3>1. RecordIsCurrent \in BOOLEAN
      BY DEF RecordIsCurrent
    <3> HIDE DEF RecordIsCurrent
    <3> DEFINE read == [pc |-> "balance", accounting |-> getBondAccounting, calm |-> RecordIsCurrent]
               none == [pc |-> "balance", accounting |-> NoAccounting, calm |-> FALSE]
    <3>2. read \in Audit /\ none \in Audit
      BY <1>1, <1>14, <3>1 DEF Audit
    <3>3. audit' = [audit EXCEPT ![a] = read] \/ audit' = [audit EXCEPT ![a] = none]
      BY <1>15 DEF ReadAccounting, ReadAccountingFails
    <3> HIDE DEF read, none
    <3> QED BY <3>2, <3>3
  <2>2. audit' \in [Audits -> Audit]
    BY <1>0, <2>1
  <2>3. UNCHANGED <<chainVars, councilVars, tripped>> /\ monitorFaults' \in 0 .. MaxMonitorFaults
    BY <1>0, <1>3, <1>15 DEF ReadAccounting, ReadAccountingFails
  <2> QED BY <2>2, <2>3 DEF MonitorTypeOK
<1>16. ASSUME NEW a \in Audits, verifyEscrowInvariant(a) \/ BalanceFails(a)
       PROVE  MonitorTypeOK'
  <2>1. tripped' \in BOOLEAN
    BY <1>16, Zenon DEF verifyEscrowInvariant, BalanceFails, Judge, MonitorTypeOK
  <2>2. /\ audit' \in [Audits -> Audit] /\ UNCHANGED <<chainVars, councilVars>>
        /\ monitorFaults' \in 0 .. MaxMonitorFaults
    BY <1>0, <1>1, <1>3, <1>16 DEF verifyEscrowInvariant, BalanceFails, Judge
  <2> QED BY <2>1, <2>2 DEF MonitorTypeOK
<1>r. CASE ResetCircuitBreaker
  BY <1>r DEF ResetCircuitBreaker, MonitorTypeOK
<1>17. CASE UNCHANGED monitorVars
  BY <1>17 DEF monitorVars, MonitorTypeOK
<1>18. CASE CouncilNext
  BY <1>18, <1>6, <1>7, <1>8, <1>9, <1>10, <1>11 DEF CouncilNext, CouncilCheck
<1>19. CASE EscrowNext
  BY <1>19, <1>6, <1>11, <1>12, <1>13, <1>15, <1>16, <1>r DEF EscrowNext
<1> QED BY <1>17, <1>18, <1>19

\* The disputes, the watchers' positions and what they remember have their types, for any
\* finite set of disputes.
THEOREM MonitorsTypeCorrect ==
  ASSUME IsFiniteSet(Disputes)
  PROVE  MonitorsSpec => []MonitorTypeOK
BY MonitorInitial, MonitorStep, PTL DEF MonitorsSpec

------------------------------------------------------------------------------
(* The escrow.  What the escrow holds are the bonds of the active disputes,    *)
(* less the one that leaked; and a calm audit expects those of the active      *)
(* disputes, since none has opened or been settled since its accounting.       *)

ActiveDisputes == {d \in Disputes : disputes[d].state = "active"}
OpenBonds == Cardinality(ActiveDisputes)

EscrowInv ==
  /\ MonitorTypeOK
  /\ holdings = IF leaked THEN OpenBonds - 1 ELSE OpenBonds
  /\ \A a \in Audits : audit[a].calm =>
       wired /\ audit[a].pc = "balance" /\ expected_escrow_holdings(a) = OpenBonds

LEMMA ActiveIsFinite ==
  ASSUME IsFiniteSet(Disputes)
  PROVE  IsFiniteSet(ActiveDisputes) /\ OpenBonds \in Nat
BY FS_Subset, FS_CardinalityType DEF ActiveDisputes, OpenBonds

LEMMA EscrowInitial == IsFiniteSet(Disputes) /\ MonitorInit => EscrowInv
<1> SUFFICES ASSUME IsFiniteSet(Disputes), MonitorInit PROVE EscrowInv
  OBVIOUS
<1>1. ActiveDisputes = {}
  BY DEF ActiveDisputes, MonitorInit, NoDispute
<1>2. OpenBonds = 0
  BY <1>1, FS_EmptySet DEF OpenBonds
<1>3. holdings = 0 /\ leaked = FALSE /\ \A a \in Audits : ~audit[a].calm
  BY DEF MonitorInit, NoAudit, IdleAudit
<1> QED BY <1>2, <1>3, MonitorInitial DEF EscrowInv

\* A record that is up to date expects the bonds of the active disputes.
LEMMA CurrentRecord ==
  ASSUME IsFiniteSet(Disputes), MonitorTypeOK, RecordIsCurrent
  PROVE  getBondAccounting.deposited - getBondAccounting.settled = OpenBonds
<1> DEFINE Opened == {d \in Disputes : rows[d] # "none"}
           Settled == {d \in Disputes : rows[d] = "settled"}
<1>1. disputes \in [Disputes -> Dispute]
  BY DEF MonitorTypeOK
<1>2. \A d \in Disputes : disputes[d].state \in {"none", "active", "settled"}
  BY <1>1 DEF Dispute
<1>3. /\ Opened \cap Settled = Settled /\ Opened \ Settled = ActiveDisputes
  BY <1>2 DEF RecordIsCurrent, ActiveDisputes
<1>4. IsFiniteSet(Opened) /\ IsFiniteSet(Settled)
  BY FS_Subset
<1>5. Cardinality(Opened \ Settled) = Cardinality(Opened) - Cardinality(Opened \cap Settled)
  BY <1>4, FS_Difference
<1> QED BY <1>3, <1>5 DEF getBondAccounting, OpenBonds

\* A step that moves no bond.
LEMMA BondsStay ==
  ASSUME EscrowInv, MonitorTypeOK', UNCHANGED <<holdings, leaked, wired>>,
         ActiveDisputes' = ActiveDisputes,
         \A a \in Audits : audit'[a].calm =>
           \/ audit'[a] = audit[a]
           \/ wired /\ audit'[a].pc = "balance" /\ expected_escrow_holdings(a)' = OpenBonds
  PROVE  EscrowInv'
<1>1. OpenBonds' = OpenBonds
  BY DEF OpenBonds
<1> QED BY <1>1 DEF EscrowInv, expected_escrow_holdings

LEMMA EscrowStep ==
  ASSUME IsFiniteSet(Disputes)
  PROVE  EscrowInv /\ [CouncilNext \/ EscrowNext]_monitorVars => EscrowInv'
<1> SUFFICES ASSUME EscrowInv, [CouncilNext \/ EscrowNext]_monitorVars PROVE EscrowInv'
  OBVIOUS
<1>0. /\ MonitorTypeOK /\ disputes \in [Disputes -> Dispute] /\ audit \in [Audits -> Audit]
      /\ leaked \in BOOLEAN /\ IsFiniteSet(ActiveDisputes) /\ OpenBonds \in Nat
  BY ActiveIsFinite DEF EscrowInv, MonitorTypeOK
<1>1. MonitorTypeOK'
  BY <1>0, MonitorStep
<1>2. \A a \in Audits : ~Disturbed[a].calm
  BY <1>0 DEF Disturbed, Audit
<1>3. \A a \in Audits : ~NoAudit[a].calm
  BY DEF NoAudit, IdleAudit
<1>4. ASSUME NEW d \in Disputes, Open(d)
      PROVE  EscrowInv'
  <2>1. ActiveDisputes' = ActiveDisputes \cup {d} /\ d \notin ActiveDisputes
    BY <1>0, <1>4 DEF Open, ActiveDisputes, Dispute
  <2>2. OpenBonds' = OpenBonds + 1
    BY <1>0, <2>1, FS_AddElement DEF OpenBonds
  <2>3. holdings' = holdings + 1 /\ leaked' = leaked /\ audit' = Disturbed
    BY <1>4 DEF Open
  <2> QED BY <1>0, <1>1, <1>2, <2>2, <2>3 DEF EscrowInv
<1>5. ASSUME NEW d \in Disputes, Settle(d)
      PROVE  EscrowInv'
  <2>1. ActiveDisputes' = ActiveDisputes \ {d} /\ d \in ActiveDisputes
    BY <1>0, <1>5 DEF Settle, ActiveDisputes, NoDispute
  <2>2. OpenBonds' = OpenBonds - 1
    BY <1>0, <2>1, FS_RemoveElement DEF OpenBonds
  <2>3. holdings' = holdings - 1 /\ leaked' = leaked /\ audit' = Disturbed
    BY <1>5 DEF Settle
  <2> QED BY <1>0, <1>1, <1>2, <2>2, <2>3 DEF EscrowInv
<1>6. CASE Leak
  <2>1. ~leaked /\ leaked' /\ holdings' = holdings - 1 /\ UNCHANGED <<disputes, wired, escrowVars>>
    BY <1>6 DEF Leak
  <2>2. OpenBonds' = OpenBonds /\ audit' = audit /\ wired' = wired
    BY <2>1 DEF OpenBonds, ActiveDisputes, escrowVars
  <2> QED BY <1>0, <1>1, <2>1, <2>2 DEF EscrowInv, expected_escrow_holdings
<1>7. ASSUME NEW d \in Disputes, Elapse(d) \/ (\E v \in Voters : Vote(d, v))
      PROVE  EscrowInv'
  <2>1. \A e \in Disputes : disputes'[e].state = disputes[e].state
    BY <1>0, <1>7 DEF Elapse, Vote, Dispute
  <2>2. ActiveDisputes' = ActiveDisputes /\ UNCHANGED <<holdings, leaked, wired, audit>>
    BY <1>7, <2>1 DEF ActiveDisputes, Elapse, Vote, escrowVars
  <2> QED BY <1>1, <2>2, BondsStay
<1>8. ASSUME UNCHANGED <<disputes, holdings, leaked, wired, audit>>
      PROVE  EscrowInv'
  BY <1>1, <1>8, BondsStay DEF ActiveDisputes
<1>9. ASSUME NEW k \in Keys,
             \/ ResolvePagerDutyAlert(k) \/ DispatchPagerDutyAlert(k)
             \/ ResolveFails(k) \/ DispatchFails(k)
      PROVE  EscrowInv'
  BY <1>8, <1>9 DEF ResolvePagerDutyAlert, DispatchPagerDutyAlert, ResolveFails, DispatchFails,
     chainVars, escrowVars
<1>10. ASSUME \/ FetchActive \/ ResolvedAll \/ CheckEnds \/ ResetCircuitBreaker
              \/ (\E d \in Disputes : Record(d)) \/ UNCHANGED monitorVars
       PROVE  EscrowInv'
  BY <1>8, <1>10 DEF FetchActive, ResolvedAll, CheckEnds, ResetCircuitBreaker, Record, monitorVars,
     chainVars, escrowVars
<1>11. CASE MonitorRestart
  BY <1>1, <1>3, <1>11, BondsStay DEF MonitorRestart, chainVars, ActiveDisputes
<1>12. ASSUME NEW a \in Audits, AuditStep(a)
       PROVE  EscrowInv'
  <2>1. UNCHANGED <<holdings, leaked, wired>> /\ ActiveDisputes' = ActiveDisputes
    BY <1>12 DEF AuditStep, ReadAccounting, ReadAccountingFails, verifyEscrowInvariant, BalanceFails,
       Judge, chainVars, ActiveDisputes
  <2>2. \A b \in Audits \ {a} : audit'[b] = audit[b]
    BY <1>0, <1>12 DEF AuditStep, ReadAccounting, ReadAccountingFails, verifyEscrowInvariant,
       BalanceFails, Judge
  <2>3. audit'[a].calm =>
          wired /\ audit'[a].pc = "balance" /\ expected_escrow_holdings(a)' = OpenBonds
    <3>1. CASE ReadAccounting(a)
      <4>1. /\ wired /\ audit'[a].pc = "balance" /\ audit'[a].accounting = getBondAccounting
            /\ audit'[a].calm <=> RecordIsCurrent
        BY <1>0, <3>1 DEF ReadAccounting
      <4> QED BY <1>0, <4>1, CurrentRecord DEF expected_escrow_holdings
    <3>2. CASE ReadAccountingFails(a) \/ verifyEscrowInvariant(a) \/ BalanceFails(a)
      BY <1>0, <3>2 DEF ReadAccountingFails, verifyEscrowInvariant, BalanceFails, Judge, IdleAudit
    <3> QED BY <1>12, <3>1, <3>2 DEF AuditStep
  <2> QED BY <1>1, <2>1, <2>2, <2>3, BondsStay
<1>13. CASE CouncilNext
  BY <1>13, <1>4, <1>5, <1>7, <1>9, <1>10, <1>11 DEF CouncilNext, CouncilCheck
<1>14. CASE EscrowNext
  BY <1>14, <1>4, <1>5, <1>6, <1>10, <1>11, <1>12 DEF EscrowNext, AuditStep
<1> QED BY <1>10, <1>13, <1>14

\* The verdict of a calm audit.
LEMMA CalmVerdict ==
  ASSUME EscrowInv, IsFiniteSet(Disputes), [CouncilNext \/ EscrowNext]_monitorVars,
         NEW a \in Audits, audit[a].calm, audit'[a].pc = "idle", monitorFaults' = monitorFaults
  PROVE  (leaked => tripped') /\ (tripped' => tripped \/ leaked)
<1>0. /\ audit \in [Audits -> Audit] /\ OpenBonds \in Nat /\ monitorFaults \in Nat
      /\ leaked \in BOOLEAN /\ tripped \in BOOLEAN
      /\ holdings = IF leaked THEN OpenBonds - 1 ELSE OpenBonds
      /\ wired /\ audit[a].pc = "balance" /\ expected_escrow_holdings(a) = OpenBonds
  BY ActiveIsFinite DEF EscrowInv, MonitorTypeOK
<1>1. ~MonitorFault
  BY <1>0 DEF MonitorFault
<1>2. audit'[a] # audit[a] /\ Disturbed[a].pc = "balance"
  BY <1>0 DEF Disturbed, Audit
<1>3. verifyEscrowInvariant(a)
  <2>1. ASSUME NEW b \in Audits, ReadAccounting(b) \/ ReadAccountingFails(b)
        PROVE  FALSE
    <3>1. b = a
      BY <1>0, <1>2, <2>1 DEF ReadAccounting, ReadAccountingFails
    <3> QED BY <1>0, <2>1, <3>1 DEF ReadAccounting, ReadAccountingFails
  <2>2. ASSUME NEW b \in Audits, verifyEscrowInvariant(b)
        PROVE  b = a
    BY <1>0, <1>2, <2>2 DEF verifyEscrowInvariant, Judge
  <2>3. ASSUME \/ MonitorRestart \/ (\E b \in Audits : BalanceFails(b))
               \/ (\E k \in Keys : ResolveFails(k) \/ DispatchFails(k))
        PROVE  FALSE
    BY <1>1, <2>3 DEF MonitorRestart, BalanceFails, ResolveFails, DispatchFails
  <2>4. ASSUME NEW d \in Disputes, Open(d) \/ Settle(d)
        PROVE  FALSE
    BY <1>2, <2>4 DEF Open, Settle
  <2>5. ASSUME audit' = audit PROVE FALSE
    BY <1>2, <2>5
  <2>6. ASSUME CouncilNext PROVE FALSE
    BY <2>6, <2>3, <2>4, <2>5 DEF CouncilNext, CouncilCheck, Elapse, Vote, FetchActive, ResolvedAll,
       CheckEnds, ResolvePagerDutyAlert, DispatchPagerDutyAlert, escrowVars
  <2>7. CASE EscrowNext
    BY <2>7, <2>1, <2>2, <2>3, <2>4, <2>5 DEF EscrowNext, Record, Leak, ResetCircuitBreaker, escrowVars
  <2>8. CASE UNCHANGED monitorVars
    BY <2>5, <2>8 DEF monitorVars, escrowVars
  <2> QED BY <2>6, <2>7, <2>8
<1>4. tripped' = (tripped \/ ~(expected_escrow_holdings(a) = holdings))
  BY <1>0, <1>3 DEF verifyEscrowInvariant, Judge, assertInvariant
<1>5. (expected_escrow_holdings(a) = holdings) <=> ~leaked
  BY <1>0
<1> QED BY <1>0, <1>4, <1>5

\* Without getContractBalance the record is compared with itself.
LEMMA UnwiredVerdict ==
  ASSUME EscrowInv, [CouncilNext \/ EscrowNext]_monitorVars, ~wired, tripped'
  PROVE  tripped
<1>1. ASSUME NEW a \in Audits, verifyEscrowInvariant(a)
      PROVE  tripped
  BY <1>1 DEF verifyEscrowInvariant, Judge, assertInvariant
<1>2. ASSUME NEW a \in Audits, BalanceFails(a)
      PROVE  FALSE
  BY <1>2 DEF BalanceFails
<1>3. ASSUME ~tripped' PROVE FALSE
  BY <1>3
<1>4. CASE CouncilNext
  BY <1>3, <1>4 DEF CouncilNext, CouncilCheck, Open, Settle, Elapse, Vote, FetchActive, ResolvedAll,
     CheckEnds, ResolvePagerDutyAlert, DispatchPagerDutyAlert, ResolveFails, DispatchFails,
     MonitorRestart, escrowVars
<1>5. CASE EscrowNext
  BY <1>1, <1>2, <1>3, <1>5 DEF EscrowNext, Open, Settle, Record, Leak, ReadAccounting,
     ReadAccountingFails, ResetCircuitBreaker, MonitorRestart, escrowVars
<1>6. CASE UNCHANGED monitorVars
  BY <1>6 DEF monitorVars, escrowVars
<1> QED BY <1>4, <1>5, <1>6

\* bond-escrow-worker.js: an audit during which no bond moved and whose accounting was up to date
\* trips the circuit breaker if a bond has leaked and raises no alarm if none has, for any finite
\* set of disputes and any audits that overlap it.  A worker without a balance to look at never
\* trips it.
THEOREM MonitorsAuditIsRight ==
  ASSUME IsFiniteSet(Disputes)
  PROVE  MonitorsSpec => AuditIsRight
<1> DEFINE Right == /\ \A a \in Audits :
                          wired /\ audit[a].calm /\ audit'[a].pc = "idle" /\ monitorFaults' = monitorFaults
                            => /\ leaked => tripped'
                               /\ tripped' => tripped \/ leaked
                    /\ ~wired /\ tripped' => tripped
<1>1. EscrowInv /\ [CouncilNext \/ EscrowNext]_monitorVars => [Right]_monitorVars
  BY CalmVerdict, UnwiredVerdict
<1>2. MonitorInit => EscrowInv
  BY EscrowInitial
<1>3. EscrowInv /\ [CouncilNext \/ EscrowNext]_monitorVars => EscrowInv'
  BY EscrowStep
<1> QED BY <1>1, <1>2, <1>3, PTL DEF MonitorsSpec, AuditIsRight

------------------------------------------------------------------------------
(* Secrets.                                                                 *)

\* The URL logs in and goes on to: the role exists and its password does not expire.
Sound(url) == /\ CanLogIn(roles, url)
              /\ roles[url.user].exists /\ ~roles[url.user].expires

\* The command has read the store and not written it yet.
Unwritten == script.pc \in {"set_password", "verify", "add_signer", "remove_signer", "publish"}

CommandSteps ==
  /\ script.pc \in {"set_password", "verify", "restore", "rerolling", "drain"} => script.cmd = "db"
  /\ script.pc = "add_signer" => script.cmd = "hot-wallet"
  /\ script.pc = "remove_signer" => script.cmd = "hot-wallet:finalize"
  /\ script.pc = "overlap" => script.cmd = "api-key"
  /\ script.pc # "idle" => script.fresh = runs + 1 /\ runs >= 1
  /\ Unwritten => script.secrets = store
  /\ script.pc = "publish" /\ script.cmd = "api-key" => store.apiPrev = 0
  /\ script.pc \in {"rolling", "overlap"} /\ script.cmd = "api-key" => store.apiKey = script.fresh

\* A signer is older than the secret of the command until that command adds it.
SignersAreOld ==
  /\ signers \subseteq 1 .. runs + 1
  /\ script.pc # "idle" /\ (script.cmd # "hot-wallet" \/ script.pc = "add_signer") =>
       script.fresh \notin signers
  /\ script.pc = "publish" /\ script.cmd = "hot-wallet" =>
       script.fresh \in signers /\ script.fresh # store.wallet

StoreIsSound ==
  /\ Sound(store.url)
  /\ store.wallet \in signers /\ store.wallet # store.walletPrev
  /\ store.apiKey # 0

DbRun ==
  script.cmd = "db" =>
    /\ script.pc \in {"verify", "publish"} => Sound(nextUrl)
    /\ script.pc \in {"rolling", "restore", "drain"} => store.url = nextUrl
    /\ script.pc \in {"rolling", "restore"} => Sound(script.secrets.url)

PodsInStep ==
  script.pc \in {"drain", "overlap"} \/ (clean /\ Unwritten) => \A p \in Deployed : InStep(p)

PodsAreServed ==
  clean => \A p \in Deployed :
    /\ Sound(pods[p].url) /\ pods[p].wallet \in signers
    /\ client \in pods[p].keys /\ client \in Snapshot(store).keys
    /\ announced => store.apiKey \in pods[p].keys

FinalizeIsSafe ==
  clean /\ script.pc = "publish" /\ script.cmd = "api-key:finalize" => client = store.apiKey

RotateInv ==
  /\ RotateTypeOK /\ CommandSteps /\ SignersAreOld /\ StoreIsSound /\ DbRun
  /\ PodsInStep /\ PodsAreServed /\ FinalizeIsSafe

ScriptState == [cmd : Command, pc : Step, secrets : SecretMap, fresh : Secret]

LEMMA StandbyIsOther ==
  \A u : standbyUser(u) \in DbUsers /\ standbyUser(u) \in Roles /\ standbyUser(u) # u
BY DEF standbyUser, DbUsers, Roles

LEMMA RotateTypes ==
  ASSUME RotateInv
  PROVE  /\ roles \in [Roles -> Role] /\ signers \in SUBSET Secret /\ store \in SecretMap
         /\ pods \in [Deployed \cup Outside -> PodEnv] /\ script \in ScriptState
         /\ client \in Secret /\ announced \in BOOLEAN /\ clean \in BOOLEAN
         /\ runs \in 0 .. MaxRuns /\ faults \in 0 .. MaxFaults /\ MaxRuns \in Nat /\ MaxFaults \in Nat
BY RotateAssumption DEF RotateInv, RotateTypeOK, ScriptState

LEMMA SnapshotFacts ==
  ASSUME NEW s \in SecretMap
  PROVE  /\ Snapshot(s) \in PodEnv /\ Snapshot(s).url = s.url /\ Snapshot(s).wallet = s.wallet
         /\ Snapshot(s).keys = {s.apiKey, s.apiPrev} \ {0}
BY DEF Snapshot, PodEnv, SecretMap

LEMMA RotateInitial == RotateInit => RotateInv
<1> SUFFICES ASSUME RotateInit PROVE RotateInv
  OBVIOUS
<1>1. /\ 0 \in Secret /\ 1 \in Secret /\ 0 \in 0 .. MaxRuns /\ 0 \in 0 .. MaxFaults
      /\ "legacy" \in Roles /\ "db" \in Command /\ "idle" \in Step
  BY RotateAssumption DEF Secret, Roles, Command, Step
<1>2. /\ store \in SecretMap /\ store.url = [user |-> "legacy", pw |-> 1]
      /\ store.apiKey = 1 /\ store.apiPrev = 0 /\ store.wallet = 1 /\ store.walletPrev = 0
  BY <1>1 DEF RotateInit, SecretMap, Url
<1>3. /\ Snapshot(store) \in PodEnv /\ Snapshot(store).url = store.url
      /\ Snapshot(store).wallet = 1 /\ Snapshot(store).keys = {1}
  BY <1>2, SnapshotFacts
<1>4. roles \in [Roles -> Role]
  BY <1>1 DEF RotateInit, Role
<1>5. script \in ScriptState /\ script.pc = "idle"
  BY <1>1, <1>2 DEF RotateInit, ScriptState
<1>6. /\ pods \in [Deployed \cup Outside -> PodEnv]
      /\ \A p \in Deployed : pods[p] = Snapshot(store)
  BY <1>3 DEF RotateInit
<1>7. RotateTypeOK
  BY <1>1, <1>2, <1>4, <1>5, <1>6 DEF RotateInit, RotateTypeOK, ScriptState
<1>8. Sound(store.url)
  <2>1. roles["legacy"] = [exists |-> TRUE, login |-> TRUE, pw |-> 1, expires |-> FALSE]
    BY <1>1 DEF RotateInit
  <2>2. store.url.user = "legacy" /\ store.url.pw = 1
    BY <1>2
  <2> QED BY <2>1, <2>2 DEF Sound, CanLogIn
<1>9. CommandSteps /\ SignersAreOld /\ DbRun /\ PodsInStep /\ FinalizeIsSafe
  <2>1. signers = {1} /\ runs = 0
    BY DEF RotateInit
  <2>2. signers \subseteq 1 .. runs + 1
    BY <2>1
  <2>3. \A p \in Deployed : InStep(p)
    BY <1>6 DEF InStep
  <2> QED BY <1>5, <2>2, <2>3 DEF CommandSteps, Unwritten, SignersAreOld, DbRun, PodsInStep, FinalizeIsSafe
<1>10. StoreIsSound
  BY <1>2, <1>8 DEF RotateInit, StoreIsSound
<1>11. PodsAreServed
  BY <1>2, <1>3, <1>6, <1>8 DEF RotateInit, PodsAreServed
<1> QED BY <1>7, <1>9, <1>10, <1>11 DEF RotateInv

\* The step a command begins with.
LEMMA FirstSteps ==
  ASSUME NEW c \in Command, FirstStep(c) # "idle"
  PROVE  \/ c = "db" /\ FirstStep(c) = "set_password"
         \/ c = "api-key" /\ FirstStep(c) = "publish" /\ store.apiPrev = 0
         \/ c = "api-key:finalize" /\ FirstStep(c) = "publish"
         \/ c = "hot-wallet" /\ FirstStep(c) = "add_signer"
         \/ c = "hot-wallet:finalize" /\ FirstStep(c) = "remove_signer"
BY DEF FirstStep, Command

LEMMA StartStep ==
  ASSUME RotateInv, NEW c \in Command, Start(c)
  PROVE  RotateInv'
<1>1. /\ FirstStep(c) # "idle" /\ runs < MaxRuns /\ runs' = runs + 1
      /\ script' = [cmd |-> c, pc |-> FirstStep(c), secrets |-> store, fresh |-> runs + 2]
      /\ c = "api-key:finalize" => MayFinalize
      /\ clean' = (announced /\ \A p \in Deployed : InStep(p) /\ client \in pods[p].keys)
      /\ UNCHANGED <<roles, signers, store, pods, client, announced, faults>>
  BY DEF Start
<1>2. /\ store \in SecretMap /\ runs \in 0 .. MaxRuns /\ MaxRuns \in Nat
  BY RotateTypes
<1>3. /\ script'.cmd = c /\ script'.pc = FirstStep(c) /\ script'.secrets = store
      /\ script'.fresh = runs + 2
  BY <1>1
<1>4. script' \in ScriptState
  <2>1. runs + 2 \in Secret /\ FirstStep(c) \in Step
    BY <1>1, <1>2, FirstSteps DEF Secret, Step
  <2> QED BY <1>1, <1>2, <2>1 DEF ScriptState
<1>5. clean' \in BOOLEAN /\ (clean' => announced /\ \A p \in Deployed : InStep(p) /\ client \in pods[p].keys)
  BY <1>1
<1>6. RotateTypeOK'
  <2>1. runs' \in 0 .. MaxRuns
    BY <1>1, <1>2
  <2> QED BY <1>1, <1>4, <1>5, <2>1 DEF RotateInv, RotateTypeOK, ScriptState
<1>7. script'.fresh = runs' + 1 /\ runs' >= 1
  BY <1>1, <1>2, <1>3
<1>8. CommandSteps'
  BY <1>1, <1>3, <1>7, FirstSteps DEF CommandSteps, Unwritten
<1>9. SignersAreOld'
  <2>1. signers \subseteq 1 .. runs + 1
    BY DEF RotateInv, SignersAreOld
  <2>2. signers \subseteq 1 .. runs' + 1 /\ script'.fresh \notin signers
    BY <1>1, <1>2, <1>3, <2>1
  <2> QED BY <1>1, <1>3, <2>2, FirstSteps DEF SignersAreOld
<1>10. StoreIsSound'
  BY <1>1 DEF RotateInv, StoreIsSound, Sound
<1>11. DbRun'
  BY <1>1, <1>3, FirstSteps DEF DbRun
<1>12. \A p \in Deployed : InStep(p)' <=> InStep(p)
  BY <1>1 DEF InStep
<1>13. PodsInStep'
  BY <1>1, <1>3, <1>5, <1>12, FirstSteps DEF PodsInStep
<1>14. PodsAreServed'
  <2> SUFFICES ASSUME clean', NEW p \in Deployed
               PROVE  /\ Sound(pods[p].url)' /\ pods'[p].wallet \in signers'
                      /\ client' \in pods'[p].keys /\ client' \in Snapshot(store').keys
                      /\ announced' => store'.apiKey \in pods'[p].keys
    BY DEF PodsAreServed
  <2>1. pods[p] = Snapshot(store) /\ client \in pods[p].keys
    BY <1>5 DEF InStep
  <2>2. pods[p].url = store.url /\ pods[p].wallet = store.wallet /\ store.apiKey \in pods[p].keys
    BY <1>2, <2>1, SnapshotFacts DEF RotateInv, StoreIsSound
  <2>3. Sound(pods[p].url)'
    BY <1>1, <2>2 DEF RotateInv, StoreIsSound, Sound
  <2> QED BY <1>1, <2>1, <2>2, <2>3 DEF RotateInv, StoreIsSound
<1>15. FinalizeIsSafe'
  BY <1>1, <1>3, <1>5 DEF FinalizeIsSafe, MayFinalize
<1> QED BY <1>6, <1>8, <1>9, <1>10, <1>11, <1>13, <1>14, <1>15 DEF RotateInv

\* A step of the command changes nothing of it but its place.
LEMMA GotoFacts ==
  ASSUME RotateInv, NEW x \in Step, Goto(x)
  PROVE  /\ script' \in ScriptState /\ script'.pc = x /\ script'.cmd = script.cmd
         /\ script'.secrets = script.secrets /\ script'.fresh = script.fresh
         /\ nextUrl' = nextUrl /\ activeUser' = activeUser
<1>1. script \in ScriptState
  BY RotateTypes
<1>2. /\ script' \in ScriptState /\ script'.pc = x /\ script'.cmd = script.cmd
      /\ script'.secrets = script.secrets /\ script'.fresh = script.fresh
  BY <1>1 DEF Goto, ScriptState
<1> QED BY <1>2 DEF nextUrl, activeUser

\* The command goes to x and nothing else happens, but that the key may be announced.
LEMMA PlaceStep ==
  ASSUME RotateInv, NEW x \in Step, Goto(x), faults' \in 0 .. MaxFaults, announced' \in BOOLEAN,
         UNCHANGED <<roles, signers, store, pods, client, runs, clean>>,
         announced' => announced \/ \A p \in Deployed : InStep(p),
         script.pc # "idle",
         \/ x = "idle"
         \/ x = "publish" /\ script.pc = "verify"
         \/ x = "restore" /\ script.pc = "rolling" /\ script.cmd = "db"
         \/ x = "drain" /\ script.pc = "rolling" /\ script.cmd = "db" /\ \A p \in Deployed : InStep(p)
         \/ x = "overlap" /\ script.pc = "rolling" /\ script.cmd = "api-key"
            /\ \A p \in Deployed : InStep(p)
  PROVE  RotateInv'
<1>1. /\ script' \in ScriptState /\ script'.pc = x /\ script'.cmd = script.cmd
      /\ script'.secrets = script.secrets /\ script'.fresh = script.fresh
      /\ nextUrl' = nextUrl /\ activeUser' = activeUser
  BY GotoFacts
<1>2. \A u : Sound(u)' <=> Sound(u)
  BY DEF Sound
<1>3. RotateTypeOK'
  BY <1>1 DEF RotateInv, RotateTypeOK, ScriptState
<1>4. CommandSteps'
  BY <1>1 DEF RotateInv, CommandSteps, Unwritten
<1>5. SignersAreOld'
  BY <1>1 DEF RotateInv, SignersAreOld, CommandSteps
<1>6. StoreIsSound'
  BY <1>2 DEF RotateInv, StoreIsSound
<1>7. DbRun'
  BY <1>1, <1>2 DEF RotateInv, DbRun, CommandSteps
<1>8. PodsInStep'
  BY <1>1 DEF RotateInv, PodsInStep, Unwritten, InStep
<1>9. PodsAreServed'
  <2> SUFFICES ASSUME clean, NEW p \in Deployed
               PROVE  /\ Sound(pods[p].url)' /\ pods'[p].wallet \in signers'
                      /\ client' \in pods'[p].keys /\ client' \in Snapshot(store').keys
                      /\ announced' => store'.apiKey \in pods'[p].keys
    BY DEF PodsAreServed
  <2>1. /\ Sound(pods[p].url) /\ pods[p].wallet \in signers
        /\ client \in pods[p].keys /\ client \in Snapshot(store).keys
        /\ announced => store.apiKey \in pods[p].keys
    BY DEF RotateInv, PodsAreServed
  <2>2. InStep(p) => store.apiKey \in pods[p].keys
    BY RotateTypes, SnapshotFacts DEF InStep, RotateInv, StoreIsSound
  <2>3. Sound(pods[p].url)'
    BY <2>1 DEF Sound
  <2> QED BY <2>1, <2>2, <2>3
<1>10. FinalizeIsSafe'
  BY <1>1 DEF RotateInv, FinalizeIsSafe, CommandSteps
<1> QED BY <1>3, <1>4, <1>5, <1>6, <1>7, <1>8, <1>9, <1>10 DEF RotateInv

\* Steps that change the roles, to a state where the roles in use are as sound as before.
LEMMA RolesStep ==
  ASSUME RotateInv, NEW x \in Step, script' \in ScriptState, script'.pc = x,
         script'.cmd = script.cmd, script'.secrets = script.secrets, script'.fresh = script.fresh,
         roles' \in [Roles -> Role],
         UNCHANGED <<signers, store, pods, client, announced, runs, faults, clean>>,
         Sound(store.url)',
         clean => \A p \in Deployed : Sound(pods[p].url)',
         \/ x = script.pc /\ (script.cmd = "db" =>
              /\ x \in {"verify", "publish"} => Sound(nextUrl)'
              /\ x \in {"rolling", "restore"} => Sound(script.secrets.url)')
         \/ x = "idle"
         \/ x = "verify" /\ script.pc = "set_password" /\ Sound(nextUrl)'
  PROVE  RotateInv'
<1>1. nextUrl' = nextUrl
  BY DEF nextUrl, activeUser
<1>2. RotateTypeOK'
  BY DEF RotateInv, RotateTypeOK, ScriptState
<1>3. CommandSteps'
  BY DEF RotateInv, CommandSteps, Unwritten
<1>4. SignersAreOld'
  BY DEF RotateInv, SignersAreOld, CommandSteps
<1>5. StoreIsSound'
  <2>1. Sound(store.url)'
    OBVIOUS
  <2> QED BY <2>1 DEF RotateInv, StoreIsSound
<1>6. DbRun'
  BY <1>1 DEF RotateInv, DbRun, CommandSteps
<1>7. PodsInStep'
  BY DEF RotateInv, PodsInStep, Unwritten, InStep
<1>8. PodsAreServed'
  BY DEF RotateInv, PodsAreServed
<1>9. FinalizeIsSafe'
  BY DEF RotateInv, FinalizeIsSafe
<1> QED BY <1>2, <1>3, <1>4, <1>5, <1>6, <1>7, <1>8, <1>9 DEF RotateInv


\* The users a db command has to do with: the one it has read and the other one.
LEMMA UrlFacts ==
  ASSUME RotateInv
  PROVE  /\ store.url \in Url /\ store.url.user \in Roles
         /\ nextUrl.user \in Roles /\ nextUrl.pw = script.fresh /\ activeUser \in Roles
         /\ nextUrl.user # activeUser /\ script.fresh \in Secret
         /\ \A p \in Deployed : pods[p].url.user \in Roles
         /\ \A p \in Deployed : InStep(p) => pods[p].url = store.url
<1>1. store \in SecretMap /\ script \in ScriptState /\ pods \in [Deployed \cup Outside -> PodEnv]
  BY RotateTypes
<1>2. store.url \in Url /\ store.url.user \in Roles /\ activeUser \in Roles /\ script.fresh \in Secret
  BY <1>1 DEF SecretMap, Url, ScriptState, activeUser
<1>3. nextUrl.user \in Roles /\ nextUrl.pw = script.fresh /\ nextUrl.user # activeUser
  BY StandbyIsOther DEF nextUrl
<1>4. \A p \in Deployed : pods[p].url.user \in Roles
  BY <1>1 DEF PodEnv, Url
<1>5. \A p \in Deployed : InStep(p) => pods[p].url = store.url
  BY <1>1, SnapshotFacts DEF InStep
<1> QED BY <1>2, <1>3, <1>4, <1>5

\* A URL whose role is left alone stays sound.
LEMMA SoundStays ==
  ASSUME NEW url, Sound(url), roles'[url.user] = roles[url.user]
  PROVE  CanLogIn(roles', url) /\ roles'[url.user].exists /\ ~roles'[url.user].expires
BY DEF Sound, CanLogIn

LEMMA SetupDbStep ==
  ASSUME RotateInv, SetupDb
  PROVE  RotateInv'
<1>1. roles \in [Roles -> Role] /\ script \in ScriptState /\ 0 \in Secret
  BY RotateTypes DEF Secret
<1>2. /\ roles' = [u \in Roles |-> IF u \in DbUsers /\ ~roles[u].exists
            THEN [exists |-> TRUE, login |-> TRUE, pw |-> 0, expires |-> FALSE] ELSE roles[u]]
      /\ UNCHANGED <<signers, store, pods, script, client, announced, runs, faults, clean>>
      /\ script.pc = "idle"
  BY DEF SetupDb
<1>3. roles' \in [Roles -> Role]
  BY <1>1, <1>2 DEF Role
<1>4. \A u \in Roles : roles[u].exists => roles'[u] = roles[u]
  BY <1>2
<1>5. Sound(store.url)'
  BY <1>2, <1>4, UrlFacts, SoundStays DEF RotateInv, StoreIsSound, Sound
<1>6. ASSUME clean, NEW p \in Deployed PROVE Sound(pods[p].url)'
  <2>1. Sound(pods[p].url)
    BY <1>6 DEF RotateInv, PodsAreServed
  <2> QED BY <1>2, <1>4, <2>1, UrlFacts, SoundStays DEF Sound
<1>7. "idle" \in Step
  BY DEF Step
<1> QED BY <1>1, <1>2, <1>3, <1>5, <1>6, <1>7, RolesStep

LEMMA SetPasswordStep ==
  ASSUME RotateInv, SetPassword
  PROVE  RotateInv'
<1> DEFINE r == [exists |-> TRUE, login |-> TRUE, pw |-> script.fresh, expires |-> FALSE]
<1>1. /\ script.pc = "set_password" /\ roles' = [roles EXCEPT ![nextUrl.user] = r]
      /\ Goto("verify") /\ UNCHANGED <<signers, store, pods, client, announced, runs, faults, clean>>
  BY DEF SetPassword
<1>2. "verify" \in Step
  BY DEF Step
<1>3. /\ script' \in ScriptState /\ script'.pc = "verify" /\ script'.cmd = script.cmd
      /\ script'.secrets = script.secrets /\ script'.fresh = script.fresh
      /\ nextUrl' = nextUrl
  BY <1>1, <1>2, GotoFacts
<1>4. roles \in [Roles -> Role]
  BY RotateTypes
<1>5. r \in Role /\ r.exists /\ r.login /\ r.pw = script.fresh /\ ~r.expires
  BY UrlFacts DEF Role
<1> HIDE DEF r
<1>6. roles' \in [Roles -> Role] /\ roles'[nextUrl.user] = r
  BY <1>1, <1>4, <1>5, UrlFacts
<1>7. script.fresh # 0 /\ script.secrets = store /\ Unwritten
  <2>1. script.fresh = runs + 1 /\ script.secrets = store /\ Unwritten
    BY <1>1 DEF RotateInv, CommandSteps, Unwritten
  <2>2. runs \in 0 .. MaxRuns
    BY RotateTypes
  <2> QED BY <2>1, <2>2
<1>8. Sound(nextUrl)'
  BY <1>3, <1>5, <1>6, <1>7, UrlFacts DEF Sound, CanLogIn
<1>9. store.url.user # nextUrl.user
  BY <1>7, UrlFacts DEF activeUser
<1>10. roles'[store.url.user] = roles[store.url.user]
  BY <1>1, <1>4, <1>9, UrlFacts
<1>11. Sound(store.url)'
  BY <1>1, <1>10, SoundStays DEF RotateInv, StoreIsSound, Sound
<1>12. clean => \A p \in Deployed : Sound(pods[p].url)'
  BY <1>1, <1>7, <1>11, UrlFacts DEF RotateInv, PodsInStep, Sound
<1> QED BY <1>1, <1>2, <1>3, <1>6, <1>8, <1>11, <1>12, RolesStep

\* While the command drains the old user, the store and the pods have the new one.
LEMMA DrainStep ==
  ASSUME RotateInv, script.pc = "drain", Goto("idle"), NEW r \in Role,
         roles' = [roles EXCEPT ![activeUser] = r],
         UNCHANGED <<signers, store, pods, client, announced, runs, faults, clean>>
  PROVE  RotateInv'
<1>1. "idle" \in Step
  BY DEF Step
<1>2. /\ script' \in ScriptState /\ script'.pc = "idle" /\ script'.cmd = script.cmd
      /\ script'.secrets = script.secrets /\ script'.fresh = script.fresh
  BY <1>1, GotoFacts
<1>3. roles \in [Roles -> Role]
  BY RotateTypes
<1>4. roles' \in [Roles -> Role]
  BY <1>3, UrlFacts
<1>5. store.url = nextUrl /\ \A p \in Deployed : InStep(p)
  BY DEF RotateInv, CommandSteps, DbRun, PodsInStep
<1>6. roles'[store.url.user] = roles[store.url.user]
  BY <1>3, <1>5, UrlFacts
<1>7. Sound(store.url)'
  BY <1>6, SoundStays DEF RotateInv, StoreIsSound, Sound
<1>8. \A p \in Deployed : Sound(pods[p].url)'
  BY <1>5, <1>7, UrlFacts DEF Sound
<1> QED BY <1>1, <1>2, <1>4, <1>7, <1>8, RolesStep

LEMMA LockOrExpireStep ==
  ASSUME RotateInv, LockPrevious \/ ExpirePrevious
  PROVE  RotateInv'
<1>1. roles \in [Roles -> Role] /\ activeUser \in Roles /\ 0 \in Secret
  BY RotateTypes, UrlFacts DEF Secret
<1>2. CASE LockPrevious
  <2> DEFINE r == [roles[activeUser] EXCEPT !.login = FALSE, !.pw = 0]
  <2>1. r \in Role
    BY <1>1 DEF Role
  <2>2. roles' = [roles EXCEPT ![activeUser] = r]
    BY <1>1, <1>2 DEF LockPrevious
  <2> QED BY <1>2, <2>1, <2>2, DrainStep DEF LockPrevious
<1>3. CASE ExpirePrevious
  <2> DEFINE r == [roles[activeUser] EXCEPT !.expires = TRUE]
  <2>1. r \in Role
    BY <1>1 DEF Role
  <2>2. roles' = [roles EXCEPT ![activeUser] = r]
    BY <1>1, <1>3 DEF ExpirePrevious
  <2> QED BY <1>3, <2>1, <2>2, DrainStep DEF ExpirePrevious
<1> QED BY <1>2, <1>3

LEMMA ExpireStep ==
  ASSUME RotateInv, NEW u \in Roles, Expire(u)
  PROVE  RotateInv'
<1> DEFINE r == [roles[u] EXCEPT !.pw = 0, !.expires = FALSE]
<1>1. roles \in [Roles -> Role] /\ script \in ScriptState /\ 0 \in Secret
  BY RotateTypes DEF Secret
<1>2. r \in Role
  BY <1>1 DEF Role
<1>3. /\ roles[u].expires /\ roles' = [roles EXCEPT ![u] = r]
      /\ UNCHANGED <<signers, store, pods, script, client, announced, runs, faults, clean>>
  BY <1>1 DEF Expire
<1> HIDE DEF r
<1>4. roles' \in [Roles -> Role] /\ \A v \in Roles : ~roles[v].expires => roles'[v] = roles[v]
  BY <1>1, <1>2, <1>3
<1>5. ASSUME NEW url, url.user \in Roles, Sound(url)
      PROVE  CanLogIn(roles', url) /\ roles'[url.user].exists /\ ~roles'[url.user].expires
  BY <1>4, <1>5, SoundStays DEF Sound
<1>6. Sound(store.url)'
  BY <1>3, <1>5, UrlFacts DEF RotateInv, StoreIsSound, Sound
<1>7. ASSUME clean, NEW p \in Deployed PROVE Sound(pods[p].url)'
  <2>1. Sound(pods[p].url)
    BY <1>7 DEF RotateInv, PodsAreServed
  <2> QED BY <1>3, <1>5, <2>1, UrlFacts DEF Sound
<1>8. script.pc \in Step /\ script.secrets.url.user \in Roles
  BY <1>1, UrlFacts DEF ScriptState, activeUser
<1>9. nextUrl' = nextUrl
  BY <1>3 DEF nextUrl, activeUser
<1>10. ASSUME script.cmd = "db"
       PROVE  /\ script.pc \in {"verify", "publish"} => Sound(nextUrl)'
              /\ script.pc \in {"rolling", "restore"} => Sound(script.secrets.url)'
  <2>1. ASSUME script.pc \in {"verify", "publish"} PROVE Sound(nextUrl)'
    BY <1>5, <1>9, <1>10, <2>1, UrlFacts DEF RotateInv, DbRun, Sound
  <2>2. ASSUME script.pc \in {"rolling", "restore"} PROVE Sound(script.secrets.url)'
    BY <1>3, <1>5, <1>8, <1>10, <2>2 DEF RotateInv, DbRun, Sound
  <2> QED BY <2>1, <2>2
<1> QED BY <1>1, <1>3, <1>4, <1>6, <1>7, <1>8, <1>10, RolesStep

LEMMA PlacesStep ==
  ASSUME RotateInv, Verify \/ RolledOut \/ RolloutFails \/ Crash
  PROVE  RotateInv'
<1>1. /\ faults \in 0 .. MaxFaults /\ announced \in BOOLEAN /\ MaxFaults \in Nat
      /\ {"idle", "publish", "restore", "drain", "overlap"} \subseteq Step
  BY RotateTypes DEF Step
<1>2. Fault => faults' \in 0 .. MaxFaults
  BY <1>1 DEF Fault
<1>3. CASE Verify
  BY <1>1, <1>3, PlaceStep DEF Verify
<1>4. CASE RolledOut
  <2>1. PICK x \in AfterRollout : Goto(x)
    BY <1>4 DEF RolledOut
  <2>2. /\ script.pc \in {"rolling", "rerolling"} /\ \A p \in Deployed : InStep(p)
        /\ announced' \in BOOLEAN
        /\ UNCHANGED <<roles, signers, store, pods, client, runs, faults, clean>>
    BY <1>1, <1>4 DEF RolledOut
  <2>3. \/ x = "idle"
        \/ x = "drain" /\ script.pc = "rolling" /\ script.cmd = "db"
        \/ x = "overlap" /\ script.pc = "rolling" /\ script.cmd = "api-key"
    BY <2>1, <2>2 DEF AfterRollout
  <2> QED BY <1>1, <2>1, <2>2, <2>3, PlaceStep
<1>5. CASE RolloutFails
  BY <1>1, <1>2, <1>5, PlaceStep DEF RolloutFails
<1>6. CASE Crash
  BY <1>1, <1>2, <1>6, PlaceStep DEF Crash
<1> QED BY <1>3, <1>4, <1>5, <1>6

\* The two transactions that change the signers keep the stored key among them.
LEMMA SignersStep ==
  ASSUME RotateInv, script.pc \in {"add_signer", "remove_signer"}, Goto("publish"),
         signers' \in SUBSET Secret, SignersAreOld', store.wallet \in signers',
         UNCHANGED <<roles, store, pods, client, announced, runs, faults, clean>>
  PROVE  RotateInv'
<1>1. "publish" \in Step
  BY DEF Step
<1>2. /\ script' \in ScriptState /\ script'.pc = "publish" /\ script'.cmd = script.cmd
      /\ script'.secrets = script.secrets /\ script'.fresh = script.fresh
  BY <1>1, GotoFacts
<1>3. Unwritten /\ script.cmd \in {"hot-wallet", "hot-wallet:finalize"}
  BY DEF Unwritten, RotateInv, CommandSteps
<1>4. \A u : Sound(u)' <=> Sound(u)
  BY DEF Sound
<1>5. RotateTypeOK'
  BY <1>2 DEF RotateInv, RotateTypeOK, ScriptState
<1>6. CommandSteps'
  BY <1>2, <1>3 DEF RotateInv, CommandSteps, Unwritten
<1>7. StoreIsSound'
  BY <1>4 DEF RotateInv, StoreIsSound
<1>8. DbRun' /\ FinalizeIsSafe'
  BY <1>2, <1>3 DEF DbRun, FinalizeIsSafe
<1>9. clean => \A p \in Deployed : InStep(p) /\ pods[p].wallet = store.wallet
  BY <1>3, RotateTypes, SnapshotFacts DEF RotateInv, PodsInStep, InStep
<1>10. PodsInStep'
  BY <1>2, <1>9 DEF PodsInStep, InStep
<1>11. PodsAreServed'
  BY <1>4, <1>9 DEF RotateInv, PodsAreServed
<1> QED BY <1>5, <1>6, <1>7, <1>8, <1>10, <1>11 DEF RotateInv

LEMMA AddSignerStep ==
  ASSUME RotateInv, AddSigner
  PROVE  RotateInv'
<1>1. /\ script.pc = "add_signer" /\ signers' = signers \cup {script.fresh} /\ Goto("publish")
      /\ UNCHANGED <<roles, store, pods, client, announced, runs, faults, clean>>
  BY DEF AddSigner
<1>2. script'.pc = "publish" /\ script'.cmd = script.cmd /\ script'.fresh = script.fresh
  BY <1>1, GotoFacts DEF Step
<1>3. /\ script.cmd = "hot-wallet" /\ script.fresh = runs + 1 /\ runs >= 1
      /\ script.fresh \notin signers /\ store.wallet \in signers /\ signers \subseteq 1 .. runs + 1
  BY <1>1 DEF RotateInv, CommandSteps, SignersAreOld, StoreIsSound
<1>4. runs \in Nat /\ script.fresh \in Secret /\ signers \in SUBSET Secret
  BY RotateTypes, UrlFacts
<1>5. script.fresh \in 1 .. runs + 1
  BY <1>3, <1>4
<1>6. signers' \subseteq 1 .. runs' + 1
  BY <1>1, <1>3, <1>5
<1>7. SignersAreOld'
  BY <1>1, <1>2, <1>3, <1>6 DEF SignersAreOld
<1> QED BY <1>1, <1>3, <1>4, <1>7, SignersStep

LEMMA RemoveSignerStep ==
  ASSUME RotateInv, RemoveSigner
  PROVE  RotateInv'
<1>1. /\ script.pc = "remove_signer" /\ signers' = signers \ {script.secrets.walletPrev}
      /\ Goto("publish")
      /\ UNCHANGED <<roles, store, pods, client, announced, runs, faults, clean>>
  BY DEF RemoveSigner
<1>2. script'.pc = "publish" /\ script'.cmd = script.cmd /\ script'.fresh = script.fresh
  BY <1>1, GotoFacts DEF Step
<1>3. script.cmd = "hot-wallet:finalize" /\ script.secrets = store
  BY <1>1 DEF RotateInv, CommandSteps, Unwritten
<1>4. SignersAreOld'
  BY <1>1, <1>2, <1>3 DEF RotateInv, SignersAreOld
<1>5. store.wallet \in signers'
  BY <1>1, <1>3 DEF RotateInv, StoreIsSound
<1>6. signers' \in SUBSET Secret
  BY <1>1, RotateTypes
<1> QED BY <1>1, <1>4, <1>5, <1>6, SignersStep

\* What the store is after a command has written it.
LEMMA WrittenFacts ==
  ASSUME RotateInv, Publish
  PROVE  /\ store' \in SecretMap
         /\ store'.url = IF script.cmd = "db" THEN nextUrl ELSE store.url
         /\ store'.apiKey = IF script.cmd = "api-key" THEN script.fresh ELSE store.apiKey
         /\ store'.apiPrev = IF script.cmd = "api-key" THEN store.apiKey
                             ELSE IF script.cmd = "api-key:finalize" THEN 0 ELSE store.apiPrev
         /\ store'.wallet = IF script.cmd = "hot-wallet" THEN script.fresh ELSE store.wallet
         /\ store'.walletPrev = IF script.cmd = "hot-wallet" THEN store.wallet
                                ELSE IF script.cmd = "hot-wallet:finalize" THEN 0
                                ELSE store.walletPrev
<1>1. store \in SecretMap /\ script \in ScriptState /\ 0 \in Secret
  BY RotateTypes DEF Secret
<1>2. script.cmd \in Command /\ script.fresh \in Secret
  BY <1>1 DEF ScriptState
<1>3. nextUrl \in Url
  BY <1>2, StandbyIsOther DEF nextUrl, Url
<1>4. store' = Written /\ script.secrets = store
  BY DEF Publish, RotateInv, CommandSteps, Unwritten
<1>5. store.apiKey \in Secret /\ store.wallet \in Secret
  BY <1>1 DEF SecretMap
<1> HIDE DEF nextUrl
<1>6. CASE script.cmd = "db"
  BY <1>1, <1>3, <1>4, <1>6 DEF Written, SecretMap
<1>7. CASE script.cmd = "api-key"
  BY <1>1, <1>2, <1>4, <1>5, <1>7 DEF Written, SecretMap
<1>8. CASE script.cmd = "api-key:finalize"
  BY <1>1, <1>4, <1>8 DEF Written, SecretMap
<1>9. CASE script.cmd = "hot-wallet"
  BY <1>1, <1>2, <1>4, <1>5, <1>9 DEF Written, SecretMap
<1>10. CASE script.cmd = "hot-wallet:finalize"
  BY <1>1, <1>4, <1>10 DEF Written, SecretMap
<1> QED BY <1>2, <1>6, <1>7, <1>8, <1>9, <1>10 DEF Command

LEMMA PublishStep ==
  ASSUME RotateInv, Publish
  PROVE  RotateInv'
<1>1. /\ script.pc = "publish" /\ Goto("rolling") /\ announced \in BOOLEAN
      /\ announced' = (announced /\ script.cmd # "api-key")
      /\ UNCHANGED <<roles, signers, pods, client, runs, faults, clean>>
  BY RotateTypes DEF Publish
<1>2. /\ script' \in ScriptState /\ script'.pc = "rolling" /\ script'.cmd = script.cmd
      /\ script'.secrets = script.secrets /\ script'.fresh = script.fresh /\ nextUrl' = nextUrl
  BY <1>1, GotoFacts DEF Step
<1>3. /\ script.secrets = store /\ script.fresh = runs + 1 /\ runs >= 1
      /\ script.cmd = "api-key" => store.apiPrev = 0
  BY <1>1 DEF RotateInv, CommandSteps, Unwritten
<1>4. script.fresh # 0
  BY <1>3, RotateTypes
<1>5. 0 \notin signers
  BY RotateTypes DEF RotateInv, SignersAreOld
<1>6. announced' \in BOOLEAN /\ (announced' => announced /\ script.cmd # "api-key")
  BY <1>1
<1>7. RotateTypeOK'
  BY <1>1, <1>2, <1>6, WrittenFacts DEF RotateInv, RotateTypeOK, ScriptState
<1>8. CommandSteps'
  BY <1>1, <1>2, <1>3, WrittenFacts DEF CommandSteps, Unwritten
<1>9. SignersAreOld'
  BY <1>1, <1>2 DEF RotateInv, SignersAreOld
<1>10. \A u : Sound(u)' <=> Sound(u)
  BY <1>1 DEF Sound
<1>11. Sound(store.url) /\ (script.cmd = "db" => Sound(nextUrl))
  BY <1>1 DEF RotateInv, StoreIsSound, DbRun
<1>12. StoreIsSound'
  <2>1. Sound(store'.url)
    BY <1>11, WrittenFacts
  <2>2. store'.wallet \in signers /\ store'.wallet # store'.walletPrev /\ store'.apiKey # 0
    BY <1>1, <1>4, <1>5, WrittenFacts DEF RotateInv, StoreIsSound, SignersAreOld
  <2>3. Sound(store.url)'
    BY <1>1, <2>1 DEF Sound
  <2> QED BY <1>1, <2>2, <2>3 DEF StoreIsSound
<1>13. DbRun'
  <2>1. Sound(script.secrets.url)'
    BY <1>1, <1>2, <1>3, <1>11 DEF Sound
  <2> QED BY <1>2, <2>1, WrittenFacts DEF DbRun
<1>14. PodsInStep' /\ FinalizeIsSafe'
  BY <1>2 DEF PodsInStep, Unwritten, FinalizeIsSafe
<1>15. PodsAreServed'
  <2> SUFFICES ASSUME clean, NEW p \in Deployed
               PROVE  /\ Sound(pods[p].url)' /\ pods[p].wallet \in signers
                      /\ client \in pods[p].keys /\ client \in Snapshot(store').keys
                      /\ announced' => store'.apiKey \in pods[p].keys
    BY <1>1 DEF PodsAreServed
  <2>1. /\ Sound(pods[p].url) /\ pods[p].wallet \in signers
        /\ client \in pods[p].keys /\ client \in Snapshot(store).keys
        /\ announced => store.apiKey \in pods[p].keys
    BY DEF RotateInv, PodsAreServed
  <2>2. Sound(pods[p].url)'
    BY <1>1, <2>1 DEF Sound
  <2>3. announced' => store'.apiKey \in pods[p].keys
    BY <1>6, <2>1, WrittenFacts
  <2>4. client \in {store.apiKey, store.apiPrev} \ {0}
    BY <2>1, RotateTypes, SnapshotFacts
  <2>5. client \in {store'.apiKey, store'.apiPrev} \ {0}
    BY <1>1, <1>3, <2>4, WrittenFacts DEF RotateInv, FinalizeIsSafe
  <2>6. client \in Snapshot(store').keys
    BY <2>5, WrittenFacts, SnapshotFacts
  <2> QED BY <2>1, <2>2, <2>3, <2>6
<1> QED BY <1>7, <1>8, <1>9, <1>12, <1>13, <1>14, <1>15 DEF RotateInv

\* A pod that starts has what the store has, which works.
LEMMA PodStep ==
  ASSUME RotateInv, NEW p \in Deployed \cup Outside, pods' = [pods EXCEPT ![p] = Snapshot(store)],
         UNCHANGED <<roles, signers, store, script, client, announced, runs, faults, clean>>
  PROVE  RotateInv'
<1>1. store \in SecretMap /\ pods \in [Deployed \cup Outside -> PodEnv]
  BY RotateTypes
<1>2. /\ Snapshot(store) \in PodEnv /\ Snapshot(store).url = store.url
      /\ Snapshot(store).wallet = store.wallet /\ Snapshot(store).keys = {store.apiKey, store.apiPrev} \ {0}
  BY <1>1, SnapshotFacts
<1>3. /\ pods' \in [Deployed \cup Outside -> PodEnv] /\ pods'[p] = Snapshot(store)
      /\ \A q \in Deployed : q # p => pods'[q] = pods[q]
  BY <1>1, <1>2
<1>4. \A u : Sound(u)' <=> Sound(u)
  BY DEF Sound
<1>5. RotateTypeOK'
  BY <1>3 DEF RotateInv, RotateTypeOK
<1>6. CommandSteps' /\ SignersAreOld' /\ FinalizeIsSafe'
  BY DEF RotateInv, CommandSteps, Unwritten, SignersAreOld, FinalizeIsSafe
<1>7. StoreIsSound'
  BY <1>4 DEF RotateInv, StoreIsSound
<1>8. DbRun'
  BY DEF RotateInv, DbRun, nextUrl, activeUser, Sound
<1>9. PodsInStep'
  BY <1>3 DEF RotateInv, PodsInStep, Unwritten, InStep
<1>10. PodsAreServed'
  <2> SUFFICES ASSUME clean, NEW q \in Deployed
               PROVE  /\ Sound(pods[q].url)' /\ pods'[q].wallet \in signers
                      /\ client \in pods'[q].keys /\ client \in Snapshot(store).keys
                      /\ announced => store.apiKey \in pods'[q].keys
    BY DEF PodsAreServed
  <2>1. /\ Sound(pods[q].url) /\ pods[q].wallet \in signers
        /\ client \in pods[q].keys /\ client \in Snapshot(store).keys
        /\ announced => store.apiKey \in pods[q].keys
    BY DEF RotateInv, PodsAreServed
  <2>2. CASE q = p
    BY <1>2, <1>3, <2>1, <2>2 DEF RotateInv, StoreIsSound, Sound
  <2>3. CASE q # p
    BY <1>3, <2>1, <2>3 DEF Sound
  <2> QED BY <2>2, <2>3
<1> QED BY <1>5, <1>6, <1>7, <1>8, <1>9, <1>10 DEF RotateInv

LEMMA RestoreStep ==
  ASSUME RotateInv, Restore
  PROVE  RotateInv'
<1>1. /\ script.pc = "restore" /\ store' = [store EXCEPT !.url = script.secrets.url]
      /\ Goto("rerolling")
      /\ UNCHANGED <<roles, signers, pods, client, announced, runs, faults, clean>>
  BY DEF Restore
<1>2. /\ script' \in ScriptState /\ script'.pc = "rerolling" /\ script'.cmd = script.cmd
      /\ script'.secrets = script.secrets /\ script'.fresh = script.fresh
  BY <1>1, GotoFacts DEF Step
<1>3. store \in SecretMap /\ script \in ScriptState
  BY RotateTypes
<1>4. script.secrets.url \in Url
  BY <1>3 DEF ScriptState, SecretMap
<1>5. /\ store' \in SecretMap /\ store'.url = script.secrets.url
      /\ store'.apiKey = store.apiKey /\ store'.apiPrev = store.apiPrev
      /\ store'.wallet = store.wallet /\ store'.walletPrev = store.walletPrev
  BY <1>1, <1>3, <1>4 DEF SecretMap
<1>6. script.cmd = "db" /\ Sound(script.secrets.url)
  BY <1>1 DEF RotateInv, CommandSteps, DbRun
<1>7. RotateTypeOK'
  BY <1>1, <1>2, <1>5 DEF RotateInv, RotateTypeOK, ScriptState
<1>8. CommandSteps' /\ SignersAreOld'
  BY <1>1, <1>2, <1>6 DEF RotateInv, CommandSteps, Unwritten, SignersAreOld
<1>9. StoreIsSound'
  <2>1. Sound(store.url)'
    BY <1>1, <1>5, <1>6 DEF Sound
  <2> QED BY <1>1, <1>5, <2>1 DEF RotateInv, StoreIsSound
<1>10. DbRun' /\ PodsInStep' /\ FinalizeIsSafe'
  BY <1>2 DEF DbRun, PodsInStep, Unwritten, FinalizeIsSafe
<1>11. Snapshot(store').keys = Snapshot(store).keys
  BY <1>3, <1>5, SnapshotFacts
<1>12. PodsAreServed'
  BY <1>1, <1>5, <1>11 DEF RotateInv, PodsAreServed, Sound
<1> QED BY <1>7, <1>8, <1>9, <1>10, <1>12 DEF RotateInv

LEMMA OverlapEndsStep ==
  ASSUME RotateInv, OverlapEnds
  PROVE  RotateInv'
<1>1. /\ script.pc = "overlap" /\ clean' = (clean /\ client = script.fresh)
      /\ script' = [script EXCEPT !.cmd = "api-key:finalize", !.secrets = store,
                    !.pc = IF store.apiPrev = 0 THEN "idle" ELSE "publish"]
      /\ UNCHANGED <<roles, signers, store, pods, client, announced, runs, faults>>
  BY DEF OverlapEnds
<1>2. store \in SecretMap /\ script \in ScriptState
  BY RotateTypes
<1>3. "api-key:finalize" \in Command /\ "idle" \in Step /\ "publish" \in Step
  BY DEF Command, Step
<1>4. /\ script' \in ScriptState /\ script'.cmd = "api-key:finalize" /\ script'.secrets = store
      /\ script'.fresh = script.fresh /\ script'.pc \in {"idle", "publish"}
  BY <1>1, <1>2, <1>3 DEF ScriptState
<1>5. /\ script.cmd = "api-key" /\ store.apiKey = script.fresh
      /\ script.fresh = runs + 1 /\ runs >= 1
  BY <1>1 DEF RotateInv, CommandSteps
<1>6. RotateTypeOK'
  BY <1>1, <1>4 DEF RotateInv, RotateTypeOK, ScriptState
<1>7. CommandSteps' /\ DbRun' /\ FinalizeIsSafe'
  BY <1>1, <1>4, <1>5 DEF CommandSteps, Unwritten, DbRun, FinalizeIsSafe
<1>8. SignersAreOld'
  BY <1>1, <1>4, <1>5 DEF RotateInv, SignersAreOld
<1>9. StoreIsSound' /\ PodsInStep'
  BY <1>1, <1>4 DEF RotateInv, StoreIsSound, PodsInStep, InStep, Sound
<1>10. PodsAreServed'
  BY <1>1 DEF RotateInv, PodsAreServed, Sound
<1> QED BY <1>6, <1>7, <1>8, <1>9, <1>10 DEF RotateInv

LEMMA ClientMovesStep ==
  ASSUME RotateInv, ClientMoves
  PROVE  RotateInv'
<1>1. /\ announced /\ client' = store.apiKey
      /\ UNCHANGED <<roles, signers, store, pods, script, announced, runs, faults, clean>>
  BY DEF ClientMoves
<1>2. store \in SecretMap
  BY RotateTypes
<1>3. store.apiKey \in Secret /\ store.apiKey \in Snapshot(store).keys
  BY <1>2, SnapshotFacts DEF SecretMap, RotateInv, StoreIsSound
<1>4. RotateTypeOK'
  BY <1>1, <1>3 DEF RotateInv, RotateTypeOK
<1>5. CommandSteps' /\ SignersAreOld' /\ PodsInStep' /\ FinalizeIsSafe'
  BY <1>1 DEF RotateInv, CommandSteps, Unwritten, SignersAreOld, PodsInStep, InStep, FinalizeIsSafe
<1>6. StoreIsSound' /\ DbRun'
  BY <1>1 DEF RotateInv, StoreIsSound, DbRun, nextUrl, activeUser, Sound
<1>7. PodsAreServed'
  BY <1>1, <1>3 DEF RotateInv, PodsAreServed, Sound
<1> QED BY <1>4, <1>5, <1>6, <1>7 DEF RotateInv

LEMMA RotateStep == RotateInv /\ [RotateNext]_rotateVars => RotateInv'
<1> SUFFICES ASSUME RotateInv, [RotateNext]_rotateVars
             PROVE  RotateInv'
  OBVIOUS
<1>1. CASE UNCHANGED rotateVars
  BY <1>1 DEF rotateVars, RotateInv, RotateTypeOK, CommandSteps, Unwritten, SignersAreOld, StoreIsSound,
     DbRun, PodsInStep, PodsAreServed, FinalizeIsSafe, Sound, InStep, nextUrl, activeUser
<1>2. CASE \E c \in Command : Start(c)
  BY <1>2, StartStep
<1>3. CASE SetupDb \/ SetPassword \/ LockPrevious \/ ExpirePrevious \/ \E u \in Roles : Expire(u)
  BY <1>3, SetupDbStep, SetPasswordStep, LockOrExpireStep, ExpireStep
<1>4. CASE Verify \/ RolledOut \/ RolloutFails \/ Crash
  BY <1>4, PlacesStep
<1>5. CASE AddSigner \/ RemoveSigner \/ Publish \/ Restore \/ OverlapEnds \/ ClientMoves
  BY <1>5, AddSignerStep, RemoveSignerStep, PublishStep, RestoreStep, OverlapEndsStep, ClientMovesStep
<1>6. CASE (\E p \in Deployed : Roll(p)) \/ (\E p \in Deployed \cup Outside : PodRestarts(p))
  BY <1>6, PodStep DEF Roll, PodRestarts
<1> QED BY <1>1, <1>2, <1>3, <1>4, <1>5, <1>6 DEF RotateNext

\* rotate-secrets.ts: the database user and the wallet key in the store work after every step of
\* every command, wherever one dies, for any number of pods, commands and failures.
THEOREM RotateStoredSecretsWork == RotateSpec => []StoredSecretsWork
<1>1. RotateInv => StoredSecretsWork
  BY DEF RotateInv, StoreIsSound, Sound, StoredSecretsWork
<1> QED BY <1>1, RotateInitial, RotateStep, PTL DEF RotateSpec

\* rotate-secrets.ts: the rotation is without downtime for the deployments it rolls.
THEOREM RotateServicesKeepWorking == RotateSpec => []ServicesKeepWorking
<1>1. RotateInv => ServicesKeepWorking
  BY DEF RotateInv, PodsAreServed, Sound, ServicesKeepWorking
<1> QED BY <1>1, RotateInitial, RotateStep, PTL DEF RotateSpec

\* The store, the roles, the pods and the running command have their types.
THEOREM RotateTypeCorrect == RotateSpec => []RotateTypeOK
<1>1. RotateInv => RotateTypeOK
  BY DEF RotateInv
<1> QED BY <1>1, RotateInitial, RotateStep, PTL DEF RotateSpec

\* A key that neither the store nor the command knows is not the secret of a later command, and
\* a signer is removed only as the stored previous key.
LEMMA OrphansKept == RotateInv /\ [RotateNext]_rotateVars => Orphans \subseteq Orphans'
<1> SUFFICES ASSUME RotateInv, [RotateNext]_rotateVars, NEW k \in Orphans
             PROVE  k \in Orphans'
  OBVIOUS
<1>1. /\ k \in signers /\ k # store.wallet /\ k # store.walletPrev
      /\ script.pc \in {"publish", "rolling"} => k # script.fresh
  BY DEF Orphans
<1>2. k # 0
  BY <1>1, RotateTypes DEF RotateInv, SignersAreOld
<1>3. SUFFICES /\ k \in signers' /\ k # store'.wallet /\ k # store'.walletPrev
               /\ script'.pc \in {"publish", "rolling"} => k # script'.fresh
  BY <1>2 DEF Orphans
<1>4. CASE UNCHANGED <<signers, store, script>>
  BY <1>1, <1>4
<1>5. ASSUME NEW c \in Command, Start(c)
      PROVE  k # script'.fresh /\ UNCHANGED <<signers, store>>
  <2>1. signers \subseteq 1 .. runs + 1 /\ runs \in Nat
    BY RotateTypes DEF RotateInv, SignersAreOld
  <2>2. script'.fresh = runs + 2 /\ UNCHANGED <<signers, store>>
    BY <1>5 DEF Start
  <2> QED BY <1>1, <2>1, <2>2
<1>6. ASSUME NEW x \in Step, Goto(x), x \notin {"publish", "rolling"}, UNCHANGED <<signers, store>>
      PROVE  UNCHANGED <<signers, store>> /\ script'.pc \notin {"publish", "rolling"}
  BY <1>6, GotoFacts
<1>7. CASE SetPassword \/ LockPrevious \/ ExpirePrevious \/ Crash \/ RolloutFails
  BY <1>1, <1>6, <1>7 DEF SetPassword, LockPrevious, ExpirePrevious, Crash, RolloutFails, Step
<1>8. CASE RolledOut
  <2>1. PICK x \in AfterRollout : Goto(x)
    BY <1>8 DEF RolledOut
  <2>2. x \in Step /\ x \notin {"publish", "rolling"} /\ UNCHANGED <<signers, store>>
    BY <1>8, <2>1 DEF RolledOut, AfterRollout, Step
  <2> QED BY <1>1, <1>6, <2>1, <2>2
<1>9. CASE Verify
  <2>1. script'.fresh = script.fresh /\ UNCHANGED <<signers, store>>
    BY <1>9, GotoFacts DEF Verify, Step
  <2>2. script.fresh \notin signers
    BY <1>9 DEF Verify, RotateInv, CommandSteps, SignersAreOld
  <2> QED BY <1>1, <2>1, <2>2
<1>10. CASE AddSigner
  <2>1. script'.fresh = script.fresh /\ UNCHANGED store /\ signers \subseteq signers'
    BY <1>10, GotoFacts DEF AddSigner, Step
  <2>2. script.fresh \notin signers
    BY <1>10 DEF AddSigner, RotateInv, CommandSteps, SignersAreOld
  <2> QED BY <1>1, <2>1, <2>2
<1>11. CASE RemoveSigner
  <2>1. /\ script'.fresh = script.fresh /\ UNCHANGED store
        /\ signers' = signers \ {script.secrets.walletPrev}
    BY <1>11, GotoFacts DEF RemoveSigner, Step
  <2>2. script.fresh \notin signers /\ script.secrets = store
    BY <1>11 DEF RemoveSigner, RotateInv, CommandSteps, Unwritten, SignersAreOld
  <2> QED BY <1>1, <2>1, <2>2
<1>12. CASE Publish
  <2>1. script'.fresh = script.fresh /\ UNCHANGED signers /\ script.pc = "publish"
    BY <1>12, GotoFacts DEF Publish, Step
  <2> QED BY <1>1, <1>2, <1>12, <2>1, WrittenFacts
<1>13. CASE Restore
  <2>1. store'.wallet = store.wallet /\ store'.walletPrev = store.walletPrev /\ UNCHANGED signers
    BY <1>13, RotateTypes DEF Restore, SecretMap
  <2>2. script'.pc = "rerolling"
    BY <1>13, GotoFacts DEF Restore, Step
  <2> QED BY <1>1, <2>1, <2>2
<1>14. CASE OverlapEnds
  <2>1. script'.fresh = script.fresh /\ UNCHANGED <<signers, store>>
    BY <1>14, RotateTypes DEF OverlapEnds, ScriptState
  <2>2. script.fresh \notin signers
    BY <1>14 DEF OverlapEnds, RotateInv, CommandSteps, SignersAreOld
  <2> QED BY <1>1, <2>1, <2>2
<1>15. ASSUME \/ SetupDb \/ ClientMoves \/ UNCHANGED rotateVars
              \/ (\E p \in Deployed : Roll(p)) \/ (\E u \in Roles : Expire(u))
              \/ (\E p \in Deployed \cup Outside : PodRestarts(p))
       PROVE  UNCHANGED <<signers, store, script>>
  BY <1>15 DEF SetupDb, ClientMoves, rotateVars, Roll, Expire, PodRestarts
<1> QED BY <1>1, <1>4, <1>5, <1>7, <1>8, <1>9, <1>10, <1>11, <1>12, <1>13, <1>14, <1>15 DEF RotateNext

\* rotate-secrets.ts: a signer whose secret was lost stays one, through every later command.
THEOREM RotateOrphansStay == RotateSpec => OrphansStay
<1>1. RotateInv /\ [RotateNext]_rotateVars => [Orphans \subseteq Orphans']_rotateVars
  BY OrphansKept
<1> QED BY <1>1, RotateInitial, RotateStep, PTL DEF RotateSpec, OrphansStay

==============================================================================
