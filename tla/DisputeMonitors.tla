--------------------------- MODULE DisputeMonitors ---------------------------
(***************************************************************************)
(* The two watchers of oracle disputes: the indexer's                       *)
(* monitors/councilInactivity.js, which pages the council when a dispute    *)
(* has no quorum, and its bond-escrow-worker.js, which compares the bonds   *)
(* on record with the contract's balance and halts the automated resolution *)
(* when they differ.                                                        *)
(*                                                                          *)
(* A dispute's bond (of amount 1) is deposited when it is opened and paid   *)
(* out when it is settled; the indexer records both later.  Every await is  *)
(* a step.  PagerDuty and the chain are external.                           *)
(***************************************************************************)
EXTENDS Integers, FiniteSets

CONSTANTS
  Disputes,    \* dispute ids
  Roster,      \* ORACLE_COUNCIL_ROSTER
  Voters,      \* who may vote on chain: the roster and others
  Quorum,      \* ORACLE_COUNCIL_QUORUM
  Milestones,  \* number of escalations: 24, 48 and 60 hours in the code
  Audits,      \* audits that may run at a time: the interval does not wait for one
  MaxMonitorFaults    \* bound on failing requests and restarts

ASSUME MonitorAssumption ==
  /\ Roster \subseteq Voters /\ IsFiniteSet(Roster)
  /\ Quorum \in Nat \ {0}
  /\ Milestones \in Nat
  /\ MaxMonitorFaults \in Nat

VARIABLES
  disputes,    \* the oracle contract
  holdings,    \* the escrow contract's balance
  leaked,      \* a bond has left the escrow without a settlement
  wired,       \* the escrow worker was given getContractBalance and a database with
               \* getBondAccounting, as in its tests; the repository's instance has neither
  rows,        \* the indexer's record of each bond
  pager,       \* incidents open at PagerDuty
  sentAlerts,  \* notifiedMilestones: what this process has sent
  check,       \* the council monitor: position and disputes it fetched
  audit,       \* the escrow worker's audits: position, accounting read, and whether the
               \* record was up to date then and no bond has moved since
  tripped,     \* circuitBreaker.tripped, automatedResolutionHalted
  monitorFaults

chainVars == <<disputes, holdings, leaked, wired, rows>>
councilVars == <<pager, sentAlerts, check>>
escrowVars == <<audit, tripped>>
monitorVars == <<chainVars, councilVars, escrowVars, monitorFaults>>

Keys == Disputes \X (1 .. Milestones)
Dispute == [state : {"none", "active", "settled"}, votes : SUBSET Voters, passed : 0 .. Milestones]
Accounting == [deposited : 0 .. Cardinality(Disputes), settled : 0 .. Cardinality(Disputes)]
Audit == [pc : {"idle", "balance"}, accounting : Accounting, calm : BOOLEAN]

MonitorTypeOK ==
  /\ disputes \in [Disputes -> Dispute]
  /\ holdings \in Int
  /\ leaked \in BOOLEAN /\ wired \in BOOLEAN
  /\ rows \in [Disputes -> {"none", "deposited", "settled"}]
  /\ pager \in SUBSET Keys
  /\ sentAlerts \in SUBSET Keys
  /\ check \in [pc : {"idle", "resolve", "dispatch"}, seen : [Disputes -> -1 .. Milestones]]
  /\ audit \in [Audits -> Audit]
  /\ tripped \in BOOLEAN
  /\ monitorFaults \in 0 .. MaxMonitorFaults

NoDispute == [state |-> "none", votes |-> {}, passed |-> 0]
NoAccounting == [deposited |-> 0, settled |-> 0]
IdleCheck == [pc |-> "idle", seen |-> [d \in Disputes |-> -1]]
IdleAudit == [pc |-> "idle", accounting |-> NoAccounting, calm |-> FALSE]
NoAudit == [a \in Audits |-> IdleAudit]

MonitorInit ==
  /\ disputes = [d \in Disputes |-> NoDispute]
  /\ holdings = 0 /\ leaked = FALSE /\ wired \in BOOLEAN
  /\ rows = [d \in Disputes |-> "none"]
  /\ pager = {} /\ sentAlerts = {} /\ check = IdleCheck
  /\ audit = NoAudit /\ tripped = FALSE
  /\ monitorFaults = 0

MonitorFault == monitorFaults < MaxMonitorFaults /\ monitorFaults' = monitorFaults + 1

------------------------------------------------------------------------------
(* The oracle contract, its escrow and the indexer's rows: external.        *)

\* History: a bond moves while audits run.
Disturbed == [a \in Audits |-> [audit[a] EXCEPT !.calm = FALSE]]

Open(d) ==
  /\ disputes[d].state = "none"
  /\ disputes' = [disputes EXCEPT ![d].state = "active"]
  /\ holdings' = holdings + 1
  /\ audit' = Disturbed
  /\ UNCHANGED <<leaked, wired, rows, councilVars, tripped, monitorFaults>>

Vote(d, v) ==
  /\ disputes[d].state = "active"
  /\ disputes' = [disputes EXCEPT ![d].votes = @ \cup {v}]
  /\ UNCHANGED <<holdings, leaked, wired, rows, councilVars, escrowVars, monitorFaults>>

\* The next of the escalation times passes.
Elapse(d) ==
  /\ disputes[d].state = "active" /\ disputes[d].passed < Milestones
  /\ disputes' = [disputes EXCEPT ![d].passed = @ + 1]
  /\ UNCHANGED <<holdings, leaked, wired, rows, councilVars, escrowVars, monitorFaults>>

Settle(d) ==
  /\ disputes[d].state = "active" /\ holdings > 0
  /\ disputes' = [disputes EXCEPT ![d] = [NoDispute EXCEPT !.state = "settled"]]
  /\ holdings' = holdings - 1
  /\ audit' = Disturbed
  /\ UNCHANGED <<leaked, wired, rows, councilVars, tripped, monitorFaults>>

Leak ==
  /\ ~leaked /\ holdings > 0
  /\ leaked' = TRUE /\ holdings' = holdings - 1
  /\ UNCHANGED <<disputes, wired, rows, councilVars, escrowVars, monitorFaults>>

\* The indexer records a deposit, or a settlement after its deposit.
Record(d) ==
  /\ \/ rows[d] = "none" /\ disputes[d].state # "none"
     \/ rows[d] = "deposited" /\ disputes[d].state = "settled"
  /\ rows' = [rows EXCEPT ![d] = IF @ = "none" THEN "deposited" ELSE "settled"]
  /\ UNCHANGED <<disputes, holdings, leaked, wired, councilVars, escrowVars, monitorFaults>>

------------------------------------------------------------------------------
(* councilInactivity.js.  One check after the other; a request that fails   *)
(* ends the check, and PagerDuty may have taken it all the same.            *)

\* getVotingMembers: votes of others do not count.
quorumReached(r) == Cardinality(r.votes \cap Roster) >= Quorum

Undecided(d) == disputes[d].state = "active" /\ ~quorumReached(disputes[d])

\* Keys whose incident is over: the dispute is not active any more or has its quorum.
Over == {k \in sentAlerts : check.seen[k[1]] = -1}

\* dueMilestones of all fetched disputes, less those that have been sent.
Due == {k \in Keys \ sentAlerts : k[2] <= check.seen[k[1]]}

\* What a check needs of the disputes it fetched: the escalation times that have
\* passed, or -1 when there is nothing to escalate.
FetchActive ==
  /\ check.pc = "idle"
  /\ check' = [pc |-> "resolve",
               seen |-> [d \in Disputes |-> IF Undecided(d) THEN disputes[d].passed ELSE -1]]
  /\ UNCHANGED <<chainVars, pager, sentAlerts, escrowVars, monitorFaults>>

ResolvePagerDutyAlert(k) ==
  /\ check.pc = "resolve" /\ k \in Over
  /\ pager' = pager \ {k}
  /\ sentAlerts' = sentAlerts \ {k}
  /\ UNCHANGED <<chainVars, check, escrowVars, monitorFaults>>

ResolveFails(k) ==
  /\ check.pc = "resolve" /\ k \in Over
  /\ MonitorFault
  /\ pager' \in {pager, pager \ {k}}
  /\ check' = IdleCheck
  /\ UNCHANGED <<chainVars, sentAlerts, escrowVars>>

ResolvedAll ==
  /\ check.pc = "resolve" /\ Over = {}
  /\ check' = [check EXCEPT !.pc = "dispatch"]
  /\ UNCHANGED <<chainVars, pager, sentAlerts, escrowVars, monitorFaults>>

DispatchPagerDutyAlert(k) ==
  /\ check.pc = "dispatch" /\ k \in Due
  /\ pager' = pager \cup {k}
  /\ sentAlerts' = sentAlerts \cup {k}
  /\ UNCHANGED <<chainVars, check, escrowVars, monitorFaults>>

\* Mutant: sentAlerts.add before the request.
DispatchFailsAfterAdd(k) ==
  /\ check.pc = "dispatch" /\ k \in Due
  /\ MonitorFault
  /\ pager' \in {pager, pager \cup {k}}
  /\ sentAlerts' = sentAlerts \cup {k}
  /\ check' = IdleCheck
  /\ UNCHANGED <<chainVars, escrowVars>>

DispatchFails(k) ==
  /\ check.pc = "dispatch" /\ k \in Due
  /\ MonitorFault
  /\ pager' \in {pager, pager \cup {k}}
  /\ check' = IdleCheck
  /\ UNCHANGED <<chainVars, sentAlerts, escrowVars>>

\* Mutant: a check that found nothing to send is the last one.
CheckIsTheLast ==
  /\ check.pc = "dispatch" /\ Due = {}
  /\ check' = IF pager = {} THEN check ELSE IdleCheck
  /\ UNCHANGED <<chainVars, pager, sentAlerts, escrowVars, monitorFaults>>

CheckEnds ==
  /\ check.pc = "dispatch" /\ Due = {}
  /\ check' = IdleCheck
  /\ UNCHANGED <<chainVars, pager, sentAlerts, escrowVars, monitorFaults>>

------------------------------------------------------------------------------
(* bond-escrow-worker.js.  Audits overlap; nobody has to make one, since    *)
(* start() is called by nothing in the repository.                          *)

getBondAccounting ==
  [deposited |-> Cardinality({d \in Disputes : rows[d] # "none"}),
   settled |-> Cardinality({d \in Disputes : rows[d] = "settled"})]

\* The record has every bond's deposit and settlement.
RecordIsCurrent ==
  \A d \in Disputes :
    rows[d] = (CASE disputes[d].state = "none" -> "none"
                 [] disputes[d].state = "active" -> "deposited"
                 [] disputes[d].state = "settled" -> "settled")

expected_escrow_holdings(a) == audit[a].accounting.deposited - audit[a].accounting.settled

ReadAccounting(a) ==
  /\ wired /\ audit[a].pc = "idle"
  /\ audit' = [audit EXCEPT ![a] = [pc |-> "balance", accounting |-> getBondAccounting,
                                    calm |-> RecordIsCurrent]]
  /\ UNCHANGED <<chainVars, councilVars, tripped, monitorFaults>>

\* A failing query counts as no bonds at all; the repository's database has no such query.
ReadAccountingFails(a) ==
  /\ audit[a].pc = "idle"
  /\ IF wired THEN MonitorFault ELSE UNCHANGED monitorFaults
  /\ audit' = [audit EXCEPT ![a] = [pc |-> "balance", accounting |-> NoAccounting,
                                    calm |-> FALSE]]
  /\ UNCHANGED <<chainVars, councilVars, tripped>>

\* Mutant: only holdings above the expected ones are noticed.
assertInvariantOneSided(a, actual) == expected_escrow_holdings(a) >= actual

\* Amounts stay below 2^53, so that Number() keeps them.
assertInvariant(a, actual) == expected_escrow_holdings(a) = actual

\* The end of verifyEscrowInvariant: the circuit breaker is tripped when assertInvariant
\* throws.
Judge(a, actual) ==
  /\ audit[a].pc = "balance"
  /\ tripped' = (tripped \/ ~assertInvariant(a, actual))
  /\ audit' = [audit EXCEPT ![a] = IdleAudit]
  /\ UNCHANGED <<chainVars, councilVars>>

\* Without getContractBalance the balance is taken to be the expected one.
verifyEscrowInvariant(a) ==
  /\ Judge(a, IF wired THEN holdings ELSE expected_escrow_holdings(a))
  /\ UNCHANGED monitorFaults

\* So is a balance that cannot be fetched; one that is not a number counts as 0.
BalanceFails(a) ==
  /\ wired /\ MonitorFault
  /\ Judge(a, expected_escrow_holdings(a)) \/ Judge(a, 0)

ResetCircuitBreaker ==
  /\ tripped
  /\ tripped' = FALSE
  /\ UNCHANGED <<chainVars, councilVars, audit, monitorFaults>>

\* The process restarts: sent alerts and circuit breaker live in memory.
MonitorRestart ==
  /\ MonitorFault
  /\ sentAlerts' = {} /\ check' = IdleCheck
  /\ audit' = NoAudit /\ tripped' = FALSE
  /\ UNCHANGED <<chainVars, pager>>

CouncilCheck ==
  \/ FetchActive \/ ResolvedAll \/ CheckEnds
  \/ \E k \in Keys : ResolvePagerDutyAlert(k) \/ DispatchPagerDutyAlert(k)

\* The two watchers share nothing but the disputes they read.
CouncilNext ==
  \/ \E d \in Disputes : Open(d) \/ Elapse(d) \/ Settle(d)
  \/ \E d \in Disputes, v \in Voters : Vote(d, v)
  \/ CouncilCheck
  \/ \E k \in Keys : ResolveFails(k) \/ DispatchFails(k)
  \/ MonitorRestart

EscrowNext ==
  \/ \E d \in Disputes : Open(d) \/ Settle(d) \/ Record(d)
  \/ Leak
  \/ \E a \in Audits : \/ ReadAccounting(a) \/ ReadAccountingFails(a)
                       \/ verifyEscrowInvariant(a) \/ BalanceFails(a)
  \/ ResetCircuitBreaker \/ MonitorRestart

MonitorsSpec == MonitorInit /\ [][CouncilNext \/ EscrowNext]_monitorVars

------------------------------------------------------------------------------
(* Properties.                                                              *)

\* What the monitor remembers as sent is an open incident for as long as the dispute
\* is undecided, although checks work on a snapshot, stop at the first request that
\* fails and do not know whether it was carried out: no escalation is lost.
SentIsOpen == \A k \in sentAlerts : Undecided(k[1]) => k \in pager

\* Every escalation time that passes without a quorum is paged, or the dispute is
\* decided: failing requests for one dispute only delay the alerts of another.
InactivityIsPaged ==
  \A k \in Keys : (Undecided(k[1]) /\ k[2] <= disputes[k[1]].passed)
                    ~> (k \in pager \/ ~Undecided(k[1]))

\* An audit whose accounting was up to date when it was read, and during which no bond was
\* deposited or paid out, judges right, whatever other audits do: after it the circuit
\* breaker is tripped if a bond has leaked, and if none has it raised no alarm.  A worker
\* without getContractBalance, as is the repository's only one, compares the record with
\* itself: it never trips the breaker, whatever has leaked.
AuditIsRight ==
  [][/\ \A a \in Audits :
          wired /\ audit[a].calm /\ audit'[a].pc = "idle" /\ monitorFaults' = monitorFaults
            => /\ leaked => tripped'
               /\ tripped' => tripped \/ leaked
     /\ ~wired /\ tripped' => tripped]_monitorVars
==============================================================================
