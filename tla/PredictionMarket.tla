-------------------------- MODULE PredictionMarket --------------------------
(***************************************************************************)
(* The market, the IPREDICT token and the referral registry deployed       *)
(* together: bets are paid in IPREDICT, the market reports first bets to   *)
(* the registry, the registry mints the welcome bonus.  Every action below *)
(* is one transaction; any user may send any of them at any time.          *)
(***************************************************************************)
EXTENDS IPredictToken, Market, ReferralRegistry, Functions

CONSTANTS
    Admins,             \* the users an init call names as admin
    Minters,            \* the addresses the token's admin may authorise
    BetAmounts,         \* amounts users mint, transfer and bet
    XlmBalances,        \* what the native token may answer
    LegacyRecords,      \* the legacy records an upgrade may find
    MaxTime             \* bound on the ledger timestamp

ASSUME CompositionAssumption ==
    /\ Admins \subseteq Users
    /\ Minters \subseteq Addresses
    /\ BetAmounts \subseteq Int
    /\ XlmBalances \subseteq Int
    /\ MaxTime \in Nat
    /\ LegacyRecords \subseteq LegacyRecord
    /\ \A l \in LegacyRecords : l.yes_pool + l.no_pool <= MaxAmount

vars == <<tokenVars, marketVars, registryVars, now>>

TypeOK == TokenTypeOK /\ MarketTypeOK /\ RegistryTypeOK

\* Three contracts just deployed.
Fresh == TokenInit /\ MarketDeployed

\* The market's code was upgraded; the token holds the market's old bets.
Upgraded(l) ==
    /\ MarketUpgraded(l)
    /\ marketAdmin \in Admins
    /\ tokenAdmin \in Admins
    /\ minters = {}
    /\ totalSupply = Pools(l)
    /\ balance = [a \in Addresses |-> IF a = MarketAddress THEN Pools(l) ELSE 0]

Init ==
    /\ Fresh \/ \E l \in LegacyRecords : Upgraded(l)
    /\ RegistryDeployed

----------------------------------------------------------------------------
(* Transactions of one contract.                                           *)

CallToken ==
    /\ \/ \E a \in Admins : InitToken(a)
       \/ \E a \in Users, m \in Minters : AddMinter(a, m) \/ RemoveMinter(a, m)
       \/ \E a \in Users, to \in Addresses, amount \in BetAmounts :
            Mint(a, to, amount) \/ Transfer(a, to, amount)
    /\ UNCHANGED <<marketVars, registryVars, now>>

CallMarket ==
    /\ \/ \E a \in Admins, registry \in BOOLEAN : InitMarket(a, registry)
       \/ \E a \in Users : Pause(a) \/ Unpause(a) \/ Migrate(a) \/ ChallengeOutcome(a)
       \/ \E a \in Users, yes \in BOOLEAN : SubmitOutcome(a, yes)
    /\ UNCHANGED <<tokenVars, registryVars, now>>

CallRegistry ==
    /\ \/ \E a \in Admins : InitRegistry(a)
       \/ \E u \in Users, r \in Users \cup {None}, xlm \in XlmBalances : Register(u, r, xlm)
    /\ UNCHANGED <<tokenVars, marketVars>>

----------------------------------------------------------------------------
(* Transactions that span contracts.                                       *)

\* place_bet that takes no payment when the market's own checks pass.
PlaceBetUnpaid(bettor, yes, amount) ==
    /\ PlaceBetInMarket(bettor, yes, amount)
    /\ IF ReportsFirstBet(bettor)
       THEN RecordFirstBet(bettor)
       ELSE UNCHANGED <<registryVars, now>>
    /\ UNCHANGED tokenVars

\* place_bet: the transfer of the stake, the pools, the report of a first bet.
PlaceBet(bettor, yes, amount) ==
    /\ PlaceBetInMarket(bettor, yes, amount)
    /\ Transfer(bettor, MarketAddress, amount)
    /\ IF ReportsFirstBet(bettor)
       THEN RecordFirstBet(bettor)
       ELSE UNCHANGED <<registryVars, now>>

\* claim_welcome_bonus: when the mint panics nothing of the claim stays.
ClaimWelcomeBonus(user) ==
    /\ ClaimInRegistry(user)
    /\ Mint(RegistryAddress, user, WelcomeTokens)
    /\ UNCHANGED marketVars

\* The ledger closes; MaxTime bounds the model.
Tick ==
    /\ now < MaxTime
    /\ now' = now + 1
    /\ UNCHANGED <<tokenVars, marketVars, registryVars>>

Next ==
    \/ CallToken
    \/ CallMarket
    \/ CallRegistry
    \/ \E u \in Users, yes \in BOOLEAN, amount \in BetAmounts : PlaceBet(u, yes, amount)
    \/ \E u \in Users : ClaimWelcomeBonus(u)
    \/ Tick

Spec == Init /\ [][Next]_vars

----------------------------------------------------------------------------
(* Properties.                                                             *)

\* "overflow-checks = true" in the contracts' manifests: no sum of amounts
\* leaves i128, so none comes out negative.
AmountsNeverWrap ==
    totalSupply >= 0 /\ \A a \in Addresses : balance[a] >= 0

\* mint and transfer, the two writers of balances, keep the recorded supply
\* equal to the sum of the balances, a transfer to oneself included.
SupplyIsBacked == totalSupply = SumFunction(balance)

\* The market's token balance covers both pools, whatever was transferred,
\* bet, migrated or claimed: every bet in a pool was paid for.
MarketSolvent ==
    Loadable => Pools(load_market) <= balance[MarketAddress]

\* The bonus is paid at most once per user, after a first bet the market
\* reported and after the whole cooldown: points exist exactly for a claimed
\* registration, and only one bonus of them.
BonusIsEarnedOnce ==
    \A u \in Users :
        IF registration[u] # None /\ registration[u].claimed
        THEN /\ points[u] = WelcomePoints
             /\ registration[u].has_bet
             /\ u \in hasBet
             /\ now >= registration[u].registered_at + Cooldown
        ELSE points[u] = 0

\* The registry's half of a claim never stays without the token's half: the
\* step that credits points mints the welcome tokens to the same user.
BonusIsAtomic ==
    [][\A u \in Users : points'[u] # points[u] =>
            /\ balance'[u] = balance[u] + WelcomeTokens
            /\ totalSupply' = totalSupply + WelcomeTokens]_vars

\* n may follow m: the status only moves from open to resolved to disputed and
\* the pools only grow, and only while the market is open.
Advances(m, n) ==
    /\ \/ n.status = m.status
       \/ m.status = "Open" /\ n.status \in {"ResolvedYes", "ResolvedNo"}
       \/ m.status \in {"ResolvedYes", "ResolvedNo"} /\ n.status = "Disputed"
    /\ IF m.status = "Open"
       THEN n.yes_pool >= m.yes_pool /\ n.no_pool >= m.no_pool
       ELSE n.yes_pool = m.yes_pool /\ n.no_pool = m.no_pool

\* migrate while DataKey::Market is already there.
StaleMigration == market # None /\ legacy # None /\ legacy' = None

\* What get_market answers only advances.  The one step that may take it back
\* is a migration of a legacy record that is older than the stored market.
MarketOnlyAdvances ==
    [][Loadable /\ ~StaleMigration => Advances(load_market, load_market')]_vars

\* migrate "rewrites a legacy flag-based market into the packed status form":
\* what get_market answers is the same before and after.
MigrationKeepsTheMarket ==
    [][legacy # None /\ legacy' = None => load_market' = load_market]_vars

\* A user who bet before registering: the market reports first bets only, so
\* the registration never learns of a bet.
LockedOut(u) ==
    registration[u] # None /\ ~registration[u].has_bet /\ u \in hasBet

\* Such a user stays without the bonus for ever, however often they bet.
LateRegistrationLocksOut ==
    [][\A u \in Users : LockedOut(u) => LockedOut(u)']_vars

============================================================================
