------------------------------- MODULE Market -------------------------------
(***************************************************************************)
(* contracts/market: one prediction market.                                *)
(*                                                                         *)
(* The contract keeps its record under DataKey::Market.  A deployment made *)
(* before the record was packed into a single status has it under          *)
(* DataKey::LegacyMarket instead; load_market reads either, every write    *)
(* goes to DataKey::Market, and migrate rewrites the legacy record.        *)
(* Calls to the token and to the referral registry are joined to PlaceBet  *)
(* by the module that composes the contracts.                              *)
(***************************************************************************)
EXTENDS Ledger

VARIABLES
    marketAdmin,    \* DataKey::Admin
    hasRegistry,    \* whether DataKey::Registry is set
    paused,         \* DataKey::IsPaused
    market,         \* DataKey::Market
    legacy,         \* DataKey::LegacyMarket
    hasBet          \* the addresses with a DataKey::HasBet entry

marketVars == <<marketAdmin, hasRegistry, paused, market, legacy, hasBet>>

MarketStatus == {"Open", "ResolvedYes", "ResolvedNo", "Disputed", "Cancelled"}

MarketRecord == [status : MarketStatus, yes_pool : Amount, no_pool : Amount]

LegacyRecord ==
    [resolved : BOOLEAN, cancelled : BOOLEAN, outcome : BOOLEAN, disputed : BOOLEAN,
     yes_pool : Amount, no_pool : Amount]

ASSUME MarketAssumption == None \notin MarketRecord /\ None \notin LegacyRecord

MarketTypeOK ==
    /\ marketAdmin \in Users \cup {None}
    /\ hasRegistry \in BOOLEAN
    /\ paused \in BOOLEAN
    /\ market \in MarketRecord \cup {None}
    /\ legacy \in LegacyRecord \cup {None}
    /\ hasBet \subseteq Users

\* A contract just deployed: nothing stored.
MarketDeployed ==
    /\ marketAdmin = None
    /\ hasRegistry = FALSE
    /\ paused = FALSE
    /\ market = None
    /\ legacy = None
    /\ hasBet = {}

\* A contract whose code was upgraded while it held the record l.
MarketUpgraded(l) ==
    /\ marketAdmin \in Users
    /\ hasRegistry \in BOOLEAN
    /\ paused = FALSE
    /\ market = None
    /\ legacy = l
    /\ hasBet \in SUBSET Users

----------------------------------------------------------------------------

from_legacy(l) ==
    [status |-> CASE l.cancelled -> "Cancelled"
                  [] ~l.cancelled /\ l.disputed -> "Disputed"
                  [] ~l.cancelled /\ ~l.disputed /\ l.resolved ->
                        IF l.outcome THEN "ResolvedYes" ELSE "ResolvedNo"
                  [] OTHER -> "Open",
     yes_pool |-> l.yes_pool,
     no_pool |-> l.no_pool]

\* load_market panics (NotInitialised) when neither record is stored.
Loadable == market # None \/ legacy # None
load_market == IF market # None THEN market ELSE from_legacy(legacy)

Pools(m) == m.yes_pool + m.no_pool

----------------------------------------------------------------------------

InitMarket(admin, registry) ==
    /\ marketAdmin = None
    /\ marketAdmin' = admin
    /\ hasRegistry' = registry
    /\ paused' = FALSE
    /\ market' = [status |-> "Open", yes_pool |-> 0, no_pool |-> 0]
    /\ UNCHANGED <<legacy, hasBet>>

Pause(admin) ==
    /\ admin = marketAdmin
    /\ paused' = TRUE
    /\ UNCHANGED <<marketAdmin, hasRegistry, market, legacy, hasBet>>

Unpause(admin) ==
    /\ admin = marketAdmin
    /\ paused' = FALSE
    /\ UNCHANGED <<marketAdmin, hasRegistry, market, legacy, hasBet>>

\* migrate asks neither for paused nor for the absence of DataKey::Market.
Migrate(admin) ==
    /\ admin = marketAdmin
    /\ legacy # None
    /\ market' = from_legacy(legacy)
    /\ legacy' = None
    /\ UNCHANGED <<marketAdmin, hasRegistry, paused, hasBet>>

\* Whether this bet makes place_bet call the registry's record_first_bet
\* (ReportsEveryBet: with the test for a first bet left out).
ReportsEveryBet(bettor) == hasRegistry

ReportsFirstBet(bettor) == bettor \notin hasBet /\ hasRegistry

\* place_bet that reads the pools and forgets the status.
PlaceBetAnyStatus(bettor, yes, amount) ==
    /\ ~paused
    /\ amount > 0
    /\ Loadable
    /\ AddReturns(IF yes THEN load_market.yes_pool ELSE load_market.no_pool, amount)
    /\ market' = [load_market EXCEPT !.yes_pool = IF yes THEN Plus(@, amount) ELSE @,
                                     !.no_pool = IF yes THEN @ ELSE Plus(@, amount)]
    /\ hasBet' = hasBet \cup {bettor}
    /\ UNCHANGED <<marketAdmin, hasRegistry, paused, legacy>>

\* The market's own writes of place_bet.
PlaceBetInMarket(bettor, yes, amount) ==
    /\ ~paused
    /\ amount > 0
    /\ Loadable
    /\ load_market.status = "Open"
    /\ AddReturns(IF yes THEN load_market.yes_pool ELSE load_market.no_pool, amount)
    /\ market' = [load_market EXCEPT !.yes_pool = IF yes THEN Plus(@, amount) ELSE @,
                                     !.no_pool = IF yes THEN @ ELSE Plus(@, amount)]
    /\ hasBet' = hasBet \cup {bettor}
    /\ UNCHANGED <<marketAdmin, hasRegistry, paused, legacy>>

SubmitOutcome(admin, yes) ==
    /\ ~paused
    /\ admin = marketAdmin
    /\ Loadable
    /\ load_market.status = "Open"
    /\ market' = [load_market EXCEPT !.status = IF yes THEN "ResolvedYes" ELSE "ResolvedNo"]
    /\ UNCHANGED <<marketAdmin, hasRegistry, paused, legacy, hasBet>>

\* Any signer may challenge; no bond is asked for.
ChallengeOutcome(challenger) ==
    /\ ~paused
    /\ Loadable
    /\ load_market.status \in {"ResolvedYes", "ResolvedNo"}
    /\ market' = [load_market EXCEPT !.status = "Disputed"]
    /\ UNCHANGED <<marketAdmin, hasRegistry, paused, legacy, hasBet>>

============================================================================
