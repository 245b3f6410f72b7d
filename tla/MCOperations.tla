--------------------------- MODULE MCOperations -----------------------------
(* What operates the platform, in parts that share no state: the status page,    *)
(* the synthetic probes, the two watchers of disputes and the rotation of        *)
(* secrets.  A behaviour is about one of them, the others stay in their initial  *)
(* state.                                                                        *)
EXTENDS StatusPage, SyntheticProbes, DisputeMonitors, RotateSecrets

CONSTANTS d1, d2, member, outsider, p1, p2, q
VARIABLE subject
operationsVars == <<subject, statusVars, probeVars, monitorVars, rotateVars>>

\* The endpoints in good order, and ways in which one or two of them are not.
Well ==
  [horizon |-> [reach |-> "answers", ok |-> TRUE, stale |-> FALSE],
   rpc |-> [reach |-> "answers", ok |-> TRUE, healthy |-> TRUE],
   indexer |-> [reach |-> "answers", db |-> TRUE, lag |-> 0],
   oracle |-> [set |-> TRUE, reach |-> "answers", ok |-> TRUE, status |-> "ok", resolvers |-> 1]]
MCWorlds ==
  {Well,
   [Well EXCEPT !.oracle.set = FALSE],
   [Well EXCEPT !.horizon.reach = "hangs", !.rpc.reach = "hangs", !.indexer.db = FALSE],
   [Well EXCEPT !.horizon.reach = "hangs", !.rpc.ok = FALSE],
   [Well EXCEPT !.indexer.lag = 5, !.rpc.ok = FALSE],
   [Well EXCEPT !.oracle.status = "error", !.indexer.reach = "slow"],
   [Well EXCEPT !.indexer.lag = Never, !.horizon.stale = TRUE, !.oracle.resolvers = 0],
   [Well EXCEPT !.indexer.lag = 2, !.oracle.status = "degraded"]}
MCTargets == <<"frontend", "indexer">>

\* Two disputes; one council member, whose vote is a quorum, and an outsider.
MCDisputes == {d1, d2}
MCRoster == {member}
MCVoters == {member, outsider}

\* Two rolled pods, so that a rollout can stop half way, and one service that is not rolled.
MCDeployed == {p1, p2}
MCOutside == {q}

OperationsInit ==
  /\ subject \in {"status", "probes", "council", "escrow", "rotation"}
  /\ StatusInit /\ ProbesInit /\ MonitorInit /\ RotateInit
  /\ subject # "status" => world = Well
  /\ subject # "escrow" => wired

OperationsNext ==
  /\ UNCHANGED subject
  /\ \/ subject = "status" /\ StatusNext /\ UNCHANGED <<probeVars, monitorVars, rotateVars>>
     \/ subject = "probes" /\ ProbesNext /\ UNCHANGED <<statusVars, monitorVars, rotateVars>>
     \/ subject = "council" /\ CouncilNext /\ UNCHANGED <<statusVars, probeVars, rotateVars>>
     \/ subject = "escrow" /\ EscrowNext /\ UNCHANGED <<statusVars, probeVars, rotateVars>>
     \/ subject = "rotation" /\ RotateNext /\ UNCHANGED <<statusVars, probeVars, monitorVars>>

\* Timers fire and requests end: those of the probes have timeouts, those of the alerts are
\* answered in the end.  Nobody has to vote, settle, leak, audit or rotate, and no failure has
\* to happen.
OperationsFairness ==
  /\ WF_statusVars(subject = "status" /\ Tick)
  /\ WF_statusVars(subject = "status" /\ RoundEnds)
  /\ \A id \in PROBES : WF_statusVars(subject = "status" /\ ProbeEnds(id))
  /\ WF_probeVars(subject = "probes" /\ IntervalElapses)
  /\ \A r \in Rounds : /\ WF_probeVars(subject = "probes" /\ StartRound(r))
                       /\ WF_probeVars(subject = "probes" /\ RoundStep(r))
  /\ WF_monitorVars(subject = "council" /\ CouncilCheck)

OperationsSpec == OperationsInit /\ [][OperationsNext]_operationsVars /\ OperationsFairness

\* LastsIsShown, for the behaviours in which the status page runs: if the endpoints stop
\* changing, the page comes to say for good whether a part is down or all is well, whatever
\* changed before in the middle of a round of probes.
OutageIsShown == subject = "status" => LastsIsShown
==============================================================================
