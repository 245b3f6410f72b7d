------------------------ MODULE OracleAutoSubmitter ------------------------
(***************************************************************************)
(* oracle/src: daemons that poll the markets table for expired open        *)
(* markets, claim each, ask the adapters of its category for the outcome,  *)
(* submit it on chain and record that.  Every await of the code ends an    *)
(* action: between two of them the other daemons, the chain and a failure  *)
(* may act.  A query that fails may still have been executed, a submission *)
(* that is reported as failed may still land, later.                       *)
(***************************************************************************)
EXTENDS Integers, FiniteSets, Functions

CONSTANTS
    Daemons,            \* processes running daemon.js
    Markets,            \* rows of the markets table
    EndsAt,             \* markets.ends_at
    Adapters,
    CategoryAdapters,   \* the adapters of the market's category, {} if it has none
    Honest,             \* adapters that report the true outcome or fail
    Truth,              \* the true outcome of each market
    None,
    MaxFaults           \* bound on failures of adapters, submissions, queries, daemons

ASSUME OracleAssumption ==
    /\ EndsAt \in [Markets -> Nat]
    /\ CategoryAdapters \in [Markets -> SUBSET Adapters]
    /\ Honest \subseteq Adapters
    /\ Truth \in [Markets -> BOOLEAN]
    /\ None \notin BOOLEAN
    /\ None \notin Markets
    /\ MaxFaults \in Nat

VARIABLES
    status,     \* markets.status
    expired,    \* the markets with ends_at <= NOW()
    chain,      \* the outcome the market contract holds
    inflight,   \* submissions reported as failed that may still land
    pc,         \* where each daemon is; "idle" between two polls
    rows,       \* the rows of the poll each daemon has still to visit
    market,     \* the market submitExpiredMarket was called with
    outcome,    \* what determineOutcome returned for it
    faults      \* failures so far

vars == <<status, expired, chain, inflight, pc, rows, market, outcome, faults>>

Working == {"determine", "submit", "mark", "release"}

TypeOK ==
    /\ status \in [Markets -> {"open", "submitting", "submitted"}]
    /\ expired \subseteq Markets
    /\ chain \in [Markets -> BOOLEAN \cup {None}]
    /\ inflight \subseteq Markets \X BOOLEAN
    /\ pc \in [Daemons -> {"down", "idle", "next"} \cup Working]
    /\ rows \in [Daemons -> SUBSET Markets]
    /\ market \in [Daemons -> Markets \cup {None}]
    /\ outcome \in [Daemons -> BOOLEAN \cup {None}]
    /\ faults \in 0 .. MaxFaults
    /\ \A d \in Daemons : pc[d] \in Working => market[d] \in Markets

Init ==
    /\ status = [m \in Markets |-> "open"]
    /\ expired = {}
    /\ chain = [m \in Markets |-> None]
    /\ inflight = {}
    /\ pc = [d \in Daemons |-> "idle"]
    /\ rows = [d \in Daemons |-> {}]
    /\ market = [d \in Daemons |-> None]
    /\ outcome = [d \in Daemons |-> None]
    /\ faults = 0

----------------------------------------------------------------------------

Fault == faults < MaxFaults /\ faults' = faults + 1

Goto(d, label) == pc' = [pc EXCEPT ![d] = label]

\* The row the loop of pollOnce is at: ORDER BY ends_at.
FirstRow(d, m) == m \in rows[d] /\ \A n \in rows[d] : EndsAt[m] <= EndsAt[n]

\* submitExpiredMarket is left, its local variables with it.
Return(d) ==
    /\ market' = [market EXCEPT ![d] = None]
    /\ outcome' = [outcome EXCEPT ![d] = None]

\* It returned; on to the next row.
NextRow(d) == Goto(d, "next") /\ Return(d) /\ UNCHANGED rows

\* An exception leaves pollOnce: the loop catches it and sleeps.
AbortPoll(d) ==
    /\ Goto(d, "idle")
    /\ Return(d)
    /\ rows' = [rows EXCEPT ![d] = {}]

SetStatus(m, s) == status' = [status EXCEPT ![m] = s]

----------------------------------------------------------------------------
(* daemon.js: pollOnce.                                                    *)

\* The timer fires; the SELECT takes a snapshot.
Poll(d) ==
    /\ pc[d] = "idle"
    /\ rows' = [rows EXCEPT ![d] = {m \in expired : status[m] = "open"}]
    /\ Goto(d, "next")
    /\ UNCHANGED <<status, expired, chain, inflight, market, outcome, faults>>

\* Every row visited; the next poll is scheduled.
EndPoll(d) ==
    /\ pc[d] = "next"
    /\ rows[d] = {}
    /\ Goto(d, "idle")
    /\ UNCHANGED <<status, expired, chain, inflight, rows, market, outcome, faults>>

----------------------------------------------------------------------------
(* auto-submitter.js: submitExpiredMarket.                                 *)

\* A claim that trusts the SELECT and does not look at the status again.
ClaimUnconditional(d, m) ==
    /\ pc[d] = "next" /\ FirstRow(d, m)
    /\ rows' = [rows EXCEPT ![d] = @ \ {m}]
    /\ SetStatus(m, "submitting")
    /\ market' = [market EXCEPT ![d] = m]
    /\ Goto(d, "determine")
    /\ UNCHANGED <<expired, chain, inflight, outcome, faults>>

\* UPDATE ... WHERE status = 'open' RETURNING id; without a row, the next one.
Claim(d, m) ==
    /\ pc[d] = "next" /\ FirstRow(d, m)
    /\ rows' = [rows EXCEPT ![d] = @ \ {m}]
    /\ IF status[m] = "open"
       THEN /\ SetStatus(m, "submitting")
            /\ market' = [market EXCEPT ![d] = m]
            /\ Goto(d, "determine")
       ELSE UNCHANGED <<status, market, pc>>
    /\ UNCHANGED <<expired, chain, inflight, outcome, faults>>

\* The claim is outside the try block: its failure ends the poll.
ClaimFails(d, m) ==
    /\ pc[d] = "next" /\ FirstRow(d, m)
    /\ Fault
    /\ \/ UNCHANGED status
       \/ status[m] = "open" /\ SetStatus(m, "submitting")
    /\ AbortPoll(d)
    /\ UNCHANGED <<expired, chain, inflight>>

\* What the adapters of the market may answer, None for a failure.
Answers(m) ==
    {f \in [CategoryAdapters[m] -> BOOLEAN \cup {None}] :
        \A a \in CategoryAdapters[m] \cap Honest : f[a] \in {Truth[m], None}}

\* determineOutcome that takes the first answer it is given.
AnyAnswer(f) ==
    IF Range(f) \subseteq {None} THEN None ELSE CHOOSE o \in Range(f) \ {None} : TRUE

\* One answer, from every adapter; None when it throws.
determineOutcome(f) ==
    IF Cardinality(Range(f)) = 1 THEN CHOOSE o \in Range(f) : TRUE ELSE None

Determine(d) ==
    /\ pc[d] = "determine"
    /\ \E f \in Answers(market[d]) :
        /\ determineOutcome(f) # None
        /\ outcome' = [outcome EXCEPT ![d] = determineOutcome(f)]
    /\ Goto(d, "submit")
    /\ UNCHANGED <<status, expired, chain, inflight, rows, market, faults>>

\* No adapter for the category, a failed fetch or a disagreement.
DetermineFails(d) ==
    /\ pc[d] = "determine"
    /\ \E f \in Answers(market[d]) : determineOutcome(f) = None
    /\ IF CategoryAdapters[market[d]] = {} THEN UNCHANGED faults ELSE Fault
    /\ Goto(d, "release")
    /\ UNCHANGED <<status, expired, chain, inflight, rows, market, outcome>>

\* The market contract's submit_outcome: only an open market takes one.
Accepts(m) == chain[m] = None

\* A submission that takes any answer of the contract for success.
SubmitUnchecked(d) ==
    /\ pc[d] = "submit"
    /\ chain' = [chain EXCEPT ![market[d]] = outcome[d]]
    /\ Goto(d, "mark")
    /\ UNCHANGED <<status, expired, inflight, rows, market, outcome, faults>>

\* submitOutcomeOnChain: the CLI returns when the transaction was applied,
\* and fails when the contract panics.
Submit(d) ==
    /\ pc[d] = "submit"
    /\ IF Accepts(market[d])
       THEN /\ chain' = [chain EXCEPT ![market[d]] = outcome[d]]
            /\ Goto(d, "mark")
       ELSE /\ Goto(d, "release")
            /\ UNCHANGED chain
    /\ UNCHANGED <<status, expired, inflight, rows, market, outcome, faults>>

\* The CLI fails; the transaction is lost, or on its way.
SubmitFails(d) ==
    /\ pc[d] = "submit"
    /\ Fault
    /\ inflight' \in {inflight, inflight \cup {<<market[d], outcome[d]>>}}
    /\ Goto(d, "release")
    /\ UNCHANGED <<status, expired, chain, rows, market, outcome>>

Mark(d) ==
    /\ pc[d] = "mark"
    /\ SetStatus(market[d], "submitted")
    /\ NextRow(d)
    /\ UNCHANGED <<expired, chain, inflight, faults>>

MarkFails(d) ==
    /\ pc[d] = "mark"
    /\ Fault
    /\ UNCHANGED status \/ SetStatus(market[d], "submitted")
    /\ Goto(d, "release")
    /\ UNCHANGED <<expired, chain, inflight, rows, market, outcome>>

\* A release that puts the market back in front of the others.
ReleaseAndRetry(d) ==
    /\ pc[d] = "release"
    /\ SetStatus(market[d], "open")
    /\ Goto(d, "next")
    /\ Return(d)
    /\ rows' = [rows EXCEPT ![d] = @ \cup {market[d]}]
    /\ UNCHANGED <<expired, chain, inflight, faults>>

\* The catch block: back to 'open', whatever the status is now.
Release(d) ==
    /\ pc[d] = "release"
    /\ SetStatus(market[d], "open")
    /\ NextRow(d)
    /\ UNCHANGED <<expired, chain, inflight, faults>>

\* A failing query in the catch block leaves pollOnce.
ReleaseFails(d) ==
    /\ pc[d] = "release"
    /\ Fault
    /\ UNCHANGED status \/ SetStatus(market[d], "open")
    /\ AbortPoll(d)
    /\ UNCHANGED <<expired, chain, inflight>>

----------------------------------------------------------------------------
(* The process and its surroundings.                                       *)

\* A crash, or SIGTERM: shutdown ends the pool and exits wherever the poll
\* is.  A CLI child that was submitting goes on by itself.
Stop(d) ==
    /\ pc[d] # "down"
    /\ Fault
    /\ Goto(d, "down")
    /\ Return(d)
    /\ rows' = [rows EXCEPT ![d] = {}]
    /\ \/ UNCHANGED inflight
       \/ pc[d] = "submit" /\ inflight' = inflight \cup {<<market[d], outcome[d]>>}
    /\ UNCHANGED <<status, expired, chain>>

Restart(d) ==
    /\ pc[d] = "down"
    /\ Goto(d, "idle")
    /\ UNCHANGED <<status, expired, chain, inflight, rows, market, outcome, faults>>

\* The end of a market passes, after the ends that come before it.
Expire(m) ==
    /\ m \notin expired
    /\ \A n \in Markets : EndsAt[n] < EndsAt[m] => n \in expired
    /\ expired' = expired \cup {m}
    /\ UNCHANGED <<status, chain, inflight, pc, rows, market, outcome, faults>>

\* A submission believed to have failed reaches the contract.
Land(m, o) ==
    /\ <<m, o>> \in inflight
    /\ inflight' = inflight \ {<<m, o>>}
    /\ chain' = [chain EXCEPT ![m] = IF Accepts(m) THEN o ELSE @]
    /\ UNCHANGED <<status, expired, pc, rows, market, outcome, faults>>

Step(d) ==
    \/ Poll(d) \/ EndPoll(d)
    \/ \E m \in Markets : Claim(d, m) \/ ClaimFails(d, m)
    \/ Determine(d) \/ DetermineFails(d)
    \/ Submit(d) \/ SubmitFails(d)
    \/ Mark(d) \/ MarkFails(d)
    \/ Release(d) \/ ReleaseFails(d)

Next ==
    \/ \E d \in Daemons : Step(d) \/ Stop(d) \/ Restart(d)
    \/ \E m \in Markets : Expire(m)
    \/ \E m \in Markets, o \in BOOLEAN : Land(m, o)

\* A running daemon's awaits settle and its timer fires; a supervisor starts
\* a stopped one again.
Fairness == \A d \in Daemons : WF_vars(Step(d)) /\ WF_vars(Restart(d))

Spec == Init /\ [][Next]_vars /\ Fairness

----------------------------------------------------------------------------
(* Properties.                                                             *)

Holds(d, m) == pc[d] \in Working /\ market[d] = m

\* Two daemons never work on one market: between a claim and its end nobody
\* else's claim succeeds, although both selected the row as open.
ClaimIsExclusive ==
    \A m \in Markets : \A d, e \in Daemons : Holds(d, m) /\ Holds(e, m) => d = e

\* One adapter that never reports the wrong outcome is enough: whatever the
\* others answer, in however many attempts, only the truth gets on chain.
NoWrongOutcome ==
    \A m \in Markets :
        CategoryAdapters[m] \cap Honest # {} => chain[m] \in {None, Truth[m]}

\* A market is recorded as submitted only if its outcome is on chain.
RecordedIsOnChain ==
    \A m \in Markets : status[m] = "submitted" => chain[m] # None

\* Claimed, and no daemon left that would submit or release it.
Orphaned(m) == status[m] = "submitting" /\ \A d \in Daemons : ~Holds(d, m)

\* On chain, not recorded, and no daemon about to record it.
Unrecorded(m) ==
    /\ chain[m] # None
    /\ status[m] # "submitted"
    /\ \A d \in Daemons : ~(Holds(d, m) /\ pc[d] = "mark")

\* Neither state is ever left: a poll selects 'open' rows only, and the
\* contract refuses a second submission of an outcome that already landed.
StuckForEver ==
    [][\A m \in Markets : /\ Orphaned(m) => Orphaned(m)'
                          /\ Unrecorded(m) => Unrecorded(m)']_vars

\* The market as one worker would see it: whoever holds it, wherever it is.
Phase(m) ==
    IF \E d \in Daemons : Holds(d, m) THEN "working"
    ELSE [open |-> "waiting", submitting |-> "lost", submitted |-> "done"][status[m]]

\* Without an honest adapter any outcome may be agreed on.
Admissible ==
    [m \in Markets |-> IF CategoryAdapters[m] \cap Honest = {} THEN BOOLEAN ELSE {Truth[m]}]

Resolution == INSTANCE MarketResolution WITH
    outcome <- chain, phase <- [m \in Markets |-> Phase(m)]

\* The daemons together implement one atomic worker per market: a market is
\* worked on only after it ended, gets at most one outcome, is done only when
\* that stands on chain, and neither a done nor a lost market is ever taken up
\* again, although a failed query may have reset or set the status and any
\* number of daemons selected the row.
ResolutionIsImplemented == Resolution!Spec

\* An expired market whose category has adapters is eventually recorded as
\* submitted, or stuck in one of the two ways above; there is no third one,
\* whatever failed in whichever order.
ExpiredIsSettledOrStuck ==
    \A m \in Markets :
        CategoryAdapters[m] # {} =>
            (m \in expired ~> status[m] = "submitted" \/ Orphaned(m) \/ Unrecorded(m))

============================================================================
