----------------------------- MODULE StatusPage -----------------------------
(***************************************************************************)
(* The public status page (backend/status-page): every interval a round of   *)
(* probes asks the platform's endpoints, concurrently and each at its own     *)
(* moment, and the results become the page's summary.  The endpoints change   *)
(* at any time, also during a round.                                         *)
(***************************************************************************)
EXTENDS Integers, FiniteSets

CONSTANTS
  Worlds,           \* the states the endpoints are taken through
  LagAlert,         \* LAG_ALERT_THRESHOLD_S
  LagOutage         \* STATUS_INDEXER_LAG_OUTAGE_S

\* hangs: no answer before the probe's timeout; slow: above the latency threshold.
Reach == {"answers", "slow", "hangs"}
Never == -1    \* lag of an indexer that has not indexed a ledger yet

World == [horizon : [reach : Reach, ok : BOOLEAN, stale : BOOLEAN],
          rpc : [reach : Reach, ok : BOOLEAN, healthy : BOOLEAN],
          indexer : [reach : Reach, db : BOOLEAN, lag : Int],
          oracle : [set : BOOLEAN, reach : Reach, ok : BOOLEAN,
                    status : {"ok", "degraded", "error"}, resolvers : Nat]]

ASSUME StatusAssumption ==
  /\ Worlds \subseteq World
  /\ LagAlert \in Nat /\ LagOutage \in Nat

------------------------------------------------------------------------------
(* What the endpoints answer.                                               *)

\* GET /health of the indexer.
health(db, lag) ==
  [ok |-> db /\ lag <= LagAlert,
   db |-> IF db THEN "connected" ELSE "disconnected",
   status |-> IF ~db THEN "error" ELSE IF lag > LagAlert THEN "degraded" ELSE "ok",
   lag |-> lag]

\* GET /ready, of the same process.
ready(db) == [ok |-> db]

------------------------------------------------------------------------------
(* The probes: from an answer to a status.                                  *)

STATUS == {"operational", "unknown", "degraded", "major_outage"}
SEVERITY == [operational |-> 0, unknown |-> 1, degraded |-> 2, major_outage |-> 3]

worstStatus(statuses) ==
  IF statuses = {} THEN "operational"
  ELSE CHOOSE s \in statuses : \A t \in statuses : SEVERITY[t] <= SEVERITY[s]

latencyStatus(reach) == IF reach = "slow" THEN "degraded" ELSE "operational"

\* One endpoint down is degraded, both are an outage.
probeStellar(w) ==
  LET horizonDown == w.horizon.reach = "hangs" \/ ~w.horizon.ok
      rpcDown == w.rpc.reach = "hangs" \/ ~w.rpc.ok
      horizon == IF horizonDown THEN {"major_outage"}
                 ELSE {latencyStatus(w.horizon.reach)}
                      \cup (IF w.horizon.stale THEN {"degraded"} ELSE {})
      rpc == IF rpcDown THEN {"major_outage"}
             ELSE {latencyStatus(w.rpc.reach)}
                  \cup (IF w.rpc.healthy THEN {} ELSE {"degraded"})
      worst == worstStatus(horizon \cup rpc)
  IN IF worst = "major_outage" /\ ~(horizonDown /\ rpcDown) THEN "degraded" ELSE worst

probeIndexer(w) ==
  LET body == health(w.indexer.db, w.indexer.lag)
  IN CASE w.indexer.reach = "hangs" -> "major_outage"
       [] w.indexer.reach # "hangs" /\ (body.db = "disconnected" \/ body.lag > LagOutage)
            -> "major_outage"
       [] w.indexer.reach # "hangs" /\ body.db = "connected" /\ body.lag <= LagOutage
          /\ (body.lag > LagAlert \/ body.status = "degraded") -> "degraded"
       [] OTHER -> IF body.ok THEN latencyStatus(w.indexer.reach) ELSE "major_outage"

probeOracle(w) ==
  CASE ~w.oracle.set -> "unknown"
    [] w.oracle.set /\ (w.oracle.reach = "hangs" \/ ~w.oracle.ok \/ w.oracle.status = "error")
         -> "major_outage"
    [] w.oracle.set /\ w.oracle.reach # "hangs" /\ w.oracle.ok
       /\ (w.oracle.status = "degraded" \/ (w.oracle.status = "ok" /\ w.oracle.resolvers = 0))
         -> "degraded"
    [] OTHER -> latencyStatus(w.oracle.reach)

probeApi(w) ==
  IF w.indexer.reach = "hangs" \/ ~ready(w.indexer.db).ok THEN "major_outage"
  ELSE latencyStatus(w.indexer.reach)

PROBES == {"stellar-rpc", "indexer", "oracle", "api"}

Probe(id, w) ==
  CASE id = "stellar-rpc" -> probeStellar(w) [] id = "indexer" -> probeIndexer(w)
    [] id = "oracle" -> probeOracle(w) [] id = "api" -> probeApi(w)

------------------------------------------------------------------------------
(* StatusMonitor.                                                           *)

NoResult == "none"

VARIABLES
  world,        \* the endpoints
  probing,      \* a round is running: StatusMonitor.running
  results,      \* its results so far
  latest        \* what the page shows

statusVars == <<world, probing, results, latest>>

StatusTypeOK ==
  /\ world \in Worlds /\ probing \in BOOLEAN
  /\ results \in [PROBES -> STATUS \cup {NoResult}]
  /\ latest \in [PROBES -> STATUS \cup {NoResult}]

StatusInit ==
  /\ world \in Worlds
  /\ probing = FALSE
  /\ results = [id \in PROBES |-> NoResult]
  /\ latest = [id \in PROBES |-> NoResult]

WorldChanges(w) ==
  /\ world' = w
  /\ UNCHANGED <<probing, results, latest>>

\* The interval fires; a round that still runs is left alone.
Tick ==
  /\ ~probing
  /\ probing' = TRUE
  /\ results' = [id \in PROBES |-> NoResult]
  /\ UNCHANGED <<world, latest>>

\* A probe has its answers, or was aborted: it never throws.
ProbeEnds(id) ==
  /\ probing /\ results[id] = NoResult
  /\ results' = [results EXCEPT ![id] = Probe(id, world)]
  /\ UNCHANGED <<world, probing, latest>>

\* Mutant: the flag is only taken back when a result has changed.
RoundEndsIfChanged ==
  /\ probing /\ \A id \in PROBES : results[id] # NoResult
  /\ latest' = results
  /\ probing' = (latest = results)
  /\ UNCHANGED <<world, results>>

\* Promise.all: all results are shown together, and the next round may begin.
RoundEnds ==
  /\ probing /\ \A id \in PROBES : results[id] # NoResult
  /\ latest' = results
  /\ probing' = FALSE
  /\ UNCHANGED <<world, results>>

\* snapshot(): the page's headline.
overall ==
  IF \E id \in PROBES : latest[id] = NoResult THEN "unknown"
  ELSE worstStatus({latest[id] : id \in PROBES})

StatusNext ==
  \/ \E w \in Worlds : WorldChanges(w)
  \/ Tick \/ RoundEnds \/ \E id \in PROBES : ProbeEnds(id)

------------------------------------------------------------------------------
(* Properties.                                                              *)

\* A world in which every endpoint answers in time and nothing is reported.
AllWell(w) ==
  /\ w.horizon = [reach |-> "answers", ok |-> TRUE, stale |-> FALSE]
  /\ w.rpc = [reach |-> "answers", ok |-> TRUE, healthy |-> TRUE]
  /\ w.indexer.reach = "answers" /\ w.indexer.db /\ w.indexer.lag <= LagAlert
  /\ w.oracle.set => /\ w.oracle.reach = "answers" /\ w.oracle.ok
                     /\ w.oracle.status = "ok" /\ w.oracle.resolvers > 0

\* An endpoint is of use: it answers, and not with an error.
Serves(e) == e.reach # "hangs" /\ e.ok

\* A part of the platform cannot be used: neither way to the chain; the indexer gone,
\* without its database or too far behind; the oracle gone or in error.
PartIsDown(w) ==
  \/ ~Serves(w.horizon) /\ ~Serves(w.rpc)
  \/ w.indexer.reach = "hangs" \/ ~w.indexer.db \/ w.indexer.lag > LagOutage
  \/ w.oracle.set /\ (~Serves(w.oracle) \/ w.oracle.status = "error")

\* What lasts is shown.  If the endpoints stop changing, the page comes to say, and goes on
\* saying, that there is a major outage exactly when a part is down, and that all is well
\* exactly when it is, except that without an oracle endpoint it never gets beyond
\* "unknown"; whatever changes before, in the middle of a round.
LastsIsShown ==
  \A w \in Worlds :
    <>[](world = w) =>
      /\ <>[]((overall = "major_outage") = PartIsDown(w))
      /\ AllWell(w) => <>[](overall = IF w.oracle.set THEN "operational" ELSE "unknown")
      /\ ~AllWell(w) => <>[](overall \in {"degraded", "major_outage"})
==============================================================================
