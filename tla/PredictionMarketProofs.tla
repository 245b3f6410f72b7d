----------------------- MODULE PredictionMarketProofs -----------------------
(***************************************************************************)
(* Proofs about the composed contracts, for any set of users, any amounts  *)
(* and any i128 bound.                                                     *)
(***************************************************************************)
EXTENDS PredictionMarket, FiniteSets, FiniteSetTheorems, NaturalsInduction, WellFoundedInduction,
        TLAPS

(***************************************************************************)
(* The inductive invariant.  Solvency of what load_market answers is not   *)
(* inductive: migrate brings the legacy record back, so that record must   *)
(* stay covered too.  A bonus may be paid because a registration says a    *)
(* bet was made, so that must be true of the market.                       *)
(***************************************************************************)
PoolsCovered ==
    /\ market # None => Pools(market) <= balance[MarketAddress]
    /\ legacy # None => Pools(legacy) <= balance[MarketAddress]

AdminBeforeRecord == Loadable => marketAdmin # None

BetsAreReported ==
    \A u \in Users : registration[u] # None /\ registration[u].has_bet => u \in hasBet

IInv == /\ TypeOK
        /\ PoolsCovered
        /\ AdminBeforeRecord
        /\ BetsAreReported
        /\ BonusIsEarnedOnce

----------------------------------------------------------------------------
(* Facts about single contracts.                                           *)

\* What Transfer does to the token: types stay, the market's balance does
\* not fall (a user sends), and a payment into the market by a user arrives in full.
LEMMA TransferFacts ==
    ASSUME OverflowChecks, TokenTypeOK, NEW from \in Users, NEW to \in Addresses, NEW amount \in Int,
           Transfer(from, to, amount)
    PROVE  /\ TokenTypeOK'
           /\ balance'[MarketAddress] >= balance[MarketAddress]
           /\ to = MarketAddress =>
                balance'[MarketAddress] = balance[MarketAddress] + amount
  <1> DEFINE debited == [balance EXCEPT ![from] = @ - amount]
  <1>1. /\ from \in Addresses /\ MarketAddress \in Addresses /\ from # MarketAddress
        /\ MaxAmount \in Nat
    BY LedgerAssumption DEF Addresses
  <1>2. /\ amount > 0 /\ balance[from] >= amount
        /\ debited[to] + amount <= MaxAmount
        /\ balance' = [debited EXCEPT ![to] = @ + amount]
        /\ UNCHANGED <<tokenAdmin, minters, totalSupply>>
    BY DEF Transfer, AddReturns, Plus
  <1>3. balance \in [Addresses -> Amount]
    BY DEF TokenTypeOK
  <1>4. debited \in [Addresses -> Amount]
    BY <1>1, <1>2, <1>3 DEF Amount
  <1>5. balance' \in [Addresses -> Amount]
    BY <1>1, <1>2, <1>4 DEF Amount
  <1>6. debited[MarketAddress] = balance[MarketAddress]
    BY <1>1, <1>3
  <1>7. balance'[MarketAddress] =
            IF to = MarketAddress THEN balance[MarketAddress] + amount ELSE balance[MarketAddress]
    BY <1>1, <1>2, <1>4, <1>6
  <1>8. balance[MarketAddress] \in Nat
    BY <1>1, <1>3 DEF Amount
  <1>9. TokenTypeOK'
    BY <1>2, <1>5 DEF TokenTypeOK
  <1> QED BY <1>2, <1>7, <1>8, <1>9

\* What Mint does to the token.
LEMMA MintFacts ==
    ASSUME OverflowChecks, TokenTypeOK, NEW caller, NEW to \in Addresses, NEW amount \in Int,
           Mint(caller, to, amount)
    PROVE  /\ TokenTypeOK'
           /\ balance'[MarketAddress] >= balance[MarketAddress]
           /\ balance'[to] = balance[to] + amount
           /\ totalSupply' = totalSupply + amount
  <1>1. MarketAddress \in Addresses /\ MaxAmount \in Nat
    BY LedgerAssumption DEF Addresses
  <1>2. /\ amount > 0
        /\ balance[to] + amount <= MaxAmount
        /\ totalSupply + amount <= MaxAmount
        /\ balance' = [balance EXCEPT ![to] = @ + amount]
        /\ totalSupply' = totalSupply + amount
        /\ UNCHANGED <<tokenAdmin, minters>>
    BY DEF Mint, AddReturns, Plus
  <1>3. balance \in [Addresses -> Amount] /\ totalSupply \in Amount
    BY DEF TokenTypeOK
  <1>4. balance' \in [Addresses -> Amount] /\ totalSupply' \in Amount
    BY <1>1, <1>2, <1>3 DEF Amount
  <1>5. balance'[MarketAddress] >= balance[MarketAddress]
    BY <1>1, <1>2, <1>3 DEF Amount
  <1>6. TokenTypeOK'
    BY <1>2, <1>4 DEF TokenTypeOK
  <1> QED BY <1>2, <1>3, <1>5, <1>6

\* from_legacy keeps the pools and yields a market record.
LEMMA FromLegacyFacts ==
    ASSUME NEW l \in LegacyRecord
    PROVE  /\ from_legacy(l) \in MarketRecord
           /\ Pools(from_legacy(l)) = Pools(l)
           /\ from_legacy(l).yes_pool = l.yes_pool
           /\ from_legacy(l).no_pool = l.no_pool
  <1>1. from_legacy(l).status \in MarketStatus
    BY DEF from_legacy, LegacyRecord, MarketStatus
  <1>2. from_legacy(l) = [status |-> from_legacy(l).status,
                          yes_pool |-> l.yes_pool, no_pool |-> l.no_pool]
    BY DEF from_legacy
  <1>3. l.yes_pool \in Amount /\ l.no_pool \in Amount
    BY DEF LegacyRecord
  <1>4. from_legacy(l) \in MarketRecord
    BY <1>1, <1>2, <1>3 DEF MarketRecord
  <1>5. from_legacy(l).yes_pool = l.yes_pool /\ from_legacy(l).no_pool = l.no_pool
    BY <1>2
  <1> QED BY <1>4, <1>5 DEF Pools

\* What load_market answers, once there is a record.
LEMMA LoadFacts ==
    ASSUME MarketTypeOK, Loadable
    PROVE  /\ load_market \in MarketRecord
           /\ market # None => load_market = market
           /\ market = None => legacy \in LegacyRecord /\ load_market = from_legacy(legacy)
  <1>1. CASE market # None
    BY <1>1 DEF MarketTypeOK, load_market
  <1>2. CASE market = None
    <2>1. legacy \in LegacyRecord
      BY <1>2 DEF MarketTypeOK, Loadable
    <2> QED BY <1>2, <2>1, FromLegacyFacts DEF load_market
  <1> QED BY <1>1, <1>2

\* PoolsCovered covers what load_market answers.
LEMMA CoveredIsSolvent ==
    ASSUME TypeOK, PoolsCovered
    PROVE  MarketSolvent
  <1> SUFFICES ASSUME Loadable PROVE Pools(load_market) <= balance[MarketAddress]
    BY DEF MarketSolvent
  <1>1. MarketTypeOK
    BY DEF TypeOK
  <1>2. CASE market # None
    BY <1>1, <1>2, LoadFacts DEF PoolsCovered
  <1>3. CASE market = None
    BY <1>1, <1>3, LoadFacts, FromLegacyFacts DEF PoolsCovered, Loadable
  <1> QED BY <1>2, <1>3

----------------------------------------------------------------------------
(* The invariant.                                                          *)

LEMMA InitIInv == Init => IInv
  <1> SUFFICES ASSUME Init PROVE IInv
    OBVIOUS
  <1> USE LedgerAssumption
  <1>1. RegistryTypeOK /\ BetsAreReported /\ BonusIsEarnedOnce
    BY DEF Init, RegistryDeployed, RegistryTypeOK, BetsAreReported, BonusIsEarnedOnce
  <1>2. CASE Fresh
    <2>1. TokenTypeOK
      BY <1>2 DEF Fresh, TokenInit, TokenTypeOK, Amount
    <2>2. MarketTypeOK
      BY <1>2 DEF Fresh, MarketDeployed, MarketTypeOK
    <2>3. PoolsCovered /\ AdminBeforeRecord
      BY <1>2 DEF Fresh, MarketDeployed, PoolsCovered, AdminBeforeRecord, Loadable
    <2> QED BY <1>1, <2>1, <2>2, <2>3 DEF IInv, TypeOK
  <1>3. ASSUME NEW l \in LegacyRecords, Upgraded(l)
        PROVE  IInv
    <2>1. l \in LegacyRecord /\ Pools(l) \in Amount
      BY CompositionAssumption DEF LegacyRecord, Amount, Pools
    <2>2. TokenTypeOK
      BY <1>3, <2>1, CompositionAssumption DEF Upgraded, TokenTypeOK, Amount, Addresses
    <2>3. MarketTypeOK
      BY <1>3, <2>1, CompositionAssumption DEF Upgraded, MarketUpgraded, MarketTypeOK
    <2>4. PoolsCovered
      <3>1. balance[MarketAddress] = Pools(l)
        BY <1>3 DEF Upgraded, Addresses
      <3> QED BY <1>3, <2>1, <3>1 DEF Upgraded, MarketUpgraded, PoolsCovered, Amount
    <2>5. AdminBeforeRecord
      BY <1>3 DEF Upgraded, MarketUpgraded, AdminBeforeRecord, Addresses
    <2> QED BY <1>1, <2>2, <2>3, <2>4, <2>5 DEF IInv, TypeOK
  <1> QED BY <1>2, <1>3 DEF Init

\* A transaction of the token alone never takes tokens from the market.
LEMMA CallTokenFacts ==
    ASSUME OverflowChecks, TokenTypeOK, CallToken
    PROVE  /\ TokenTypeOK'
           /\ balance'[MarketAddress] >= balance[MarketAddress]
           /\ UNCHANGED <<marketVars, registryVars, now>>
  <1> USE LedgerAssumption, CompositionAssumption
  <1>1. balance[MarketAddress] \in Nat
    BY DEF TokenTypeOK, Amount, Addresses
  <1>2. UNCHANGED <<marketVars, registryVars, now>>
    BY DEF CallToken
  <1>3. ASSUME NEW a \in Admins, InitToken(a)
        PROVE  TokenTypeOK' /\ balance'[MarketAddress] >= balance[MarketAddress]
    BY <1>1, <1>3 DEF InitToken, TokenTypeOK, Amount, Addresses
  <1>4. ASSUME NEW a \in Users, NEW m \in Minters, AddMinter(a, m) \/ RemoveMinter(a, m)
        PROVE  TokenTypeOK' /\ balance'[MarketAddress] >= balance[MarketAddress]
    BY <1>1, <1>4 DEF AddMinter, RemoveMinter, TokenTypeOK
  <1>5. ASSUME NEW a \in Users, NEW to \in Addresses, NEW amount \in BetAmounts,
               Mint(a, to, amount) \/ Transfer(a, to, amount)
        PROVE  TokenTypeOK' /\ balance'[MarketAddress] >= balance[MarketAddress]
    <2>1. amount \in Int
      OBVIOUS
    <2> QED BY <1>5, <2>1, MintFacts, TransferFacts
  <1> QED BY <1>2, <1>3, <1>4, <1>5 DEF CallToken

\* The market's own writes of a bet: the pools grow by the stake.
LEMMA PlaceBetInMarketFacts ==
    ASSUME OverflowChecks, MarketTypeOK, NEW u \in Users, NEW yes \in BOOLEAN,
           NEW amount \in Int, PlaceBetInMarket(u, yes, amount)
    PROVE  /\ MarketTypeOK'
           /\ market' # None
           /\ Pools(market') = Pools(load_market) + amount
           /\ load_market.status = "Open" /\ market'.status = "Open"
           /\ market'.yes_pool >= load_market.yes_pool
           /\ market'.no_pool >= load_market.no_pool
           /\ hasBet' = hasBet \cup {u}
           /\ UNCHANGED <<marketAdmin, hasRegistry, paused, legacy>>
  <1> DEFINE m == load_market
  <1>1. /\ Loadable /\ amount > 0 /\ m.status = "Open"
        /\ (IF yes THEN m.yes_pool ELSE m.no_pool) + amount <= MaxAmount
        /\ market' = [m EXCEPT !.yes_pool = IF yes THEN @ + amount ELSE @,
                               !.no_pool = IF yes THEN @ ELSE @ + amount]
        /\ hasBet' = hasBet \cup {u}
        /\ UNCHANGED <<marketAdmin, hasRegistry, paused, legacy>>
    BY DEF PlaceBetInMarket, AddReturns, Plus
  <1>2. m \in MarketRecord
    BY <1>1, LoadFacts
  <1>3. MaxAmount \in Nat
    BY LedgerAssumption
  <1> HIDE DEF m
  <1>4. /\ market' \in MarketRecord
        /\ market'.status = "Open"
        /\ market'.yes_pool = IF yes THEN m.yes_pool + amount ELSE m.yes_pool
        /\ market'.no_pool = IF yes THEN m.no_pool ELSE m.no_pool + amount
    <2>2. /\ m.status \in MarketStatus
          /\ m.yes_pool \in Amount /\ m.no_pool \in Amount
      BY <1>2 DEF MarketRecord
    <2>3. market' = [status |-> m.status,
                     yes_pool |-> IF yes THEN m.yes_pool + amount ELSE m.yes_pool,
                     no_pool |-> IF yes THEN m.no_pool ELSE m.no_pool + amount]
      BY <1>1, <1>2 DEF MarketRecord
    <2>4. /\ (IF yes THEN m.yes_pool + amount ELSE m.yes_pool) \in Amount
          /\ (IF yes THEN m.no_pool ELSE m.no_pool + amount) \in Amount
      BY <1>1, <1>3, <2>2 DEF Amount
    <2> QED BY <1>1, <2>2, <2>3, <2>4 DEF MarketRecord
  <1>5. m.yes_pool \in Nat /\ m.no_pool \in Nat
    BY <1>2 DEF MarketRecord, Amount
  <1>6. /\ Pools(market') = Pools(m) + amount
        /\ market'.yes_pool >= m.yes_pool /\ market'.no_pool >= m.no_pool
    BY <1>1, <1>4, <1>5 DEF Pools
  <1>7. MarketTypeOK'
    BY <1>1, <1>4 DEF MarketTypeOK
  <1> QED BY <1>1, <1>4, <1>6, <1>7, MarketAssumption DEF m

\* The registry's side of a reported bet: types stay, and only has_bet of
\* the bettor's registration may change.
LEMMA RecordFirstBetFacts ==
    ASSUME RegistryTypeOK, NEW u \in Users, RecordFirstBet(u)
    PROVE  /\ RegistryTypeOK'
           /\ \A v \in Users :
                /\ registration'[v] = None <=> registration[v] = None
                /\ registration[v] # None =>
                    /\ registration'[v].claimed = registration[v].claimed
                    /\ registration'[v].registered_at = registration[v].registered_at
                    /\ v # u => registration'[v] = registration[v]
                    /\ registration[v].has_bet => registration'[v].has_bet
           /\ UNCHANGED <<registryAdmin, points, now>>
  <1>1. /\ registration' = [v \in Users |->
                IF v = u /\ registration[v] # None
                THEN [registration[v] EXCEPT !.has_bet = TRUE]
                ELSE registration[v]]
        /\ UNCHANGED <<registryAdmin, points, now>>
    BY DEF RecordFirstBet
  <1>2. registration \in [Users -> Registration \cup {None}]
    BY DEF RegistryTypeOK
  <1>3. ASSUME NEW v \in Users, registration[v] # None
        PROVE  [registration[v] EXCEPT !.has_bet = TRUE] \in Registration
    BY <1>2, <1>3 DEF Registration
  <1>4. registration' \in [Users -> Registration \cup {None}]
    BY <1>1, <1>2, <1>3
  <1>5. RegistryTypeOK'
    BY <1>1, <1>4 DEF RegistryTypeOK
  <1>6. ASSUME NEW v \in Users
        PROVE  /\ registration'[v] = None <=> registration[v] = None
               /\ registration[v] # None =>
                    /\ registration'[v].claimed = registration[v].claimed
                    /\ registration'[v].registered_at = registration[v].registered_at
                    /\ v # u => registration'[v] = registration[v]
                    /\ registration[v].has_bet => registration'[v].has_bet
    BY <1>1, <1>2, <1>3, RegistrationAssumption DEF Registration
  <1> QED BY <1>1, <1>5, <1>6

\* Marking an entry claimed changes nothing else of it.
LEMMA ClaimedEntry ==
    ASSUME NEW r \in Registration
    PROVE  /\ [r EXCEPT !.claimed = TRUE] \in Registration
           /\ [r EXCEPT !.claimed = TRUE].claimed = TRUE
           /\ [r EXCEPT !.claimed = TRUE].has_bet = r.has_bet
           /\ [r EXCEPT !.claimed = TRUE].registered_at = r.registered_at
  BY DEF Registration

\* A transaction of the market alone leaves the pools as load_market answers
\* them or, for migrate, as the legacy record has them.
LEMMA CallMarketFacts ==
    ASSUME MarketTypeOK, AdminBeforeRecord, CallMarket
    PROVE  /\ MarketTypeOK'
           /\ marketAdmin' # None
           /\ hasBet' = hasBet
           /\ legacy' \in {legacy, None}
           /\ \/ market' = market
              \/ ~Loadable /\ market' \in MarketRecord /\ Pools(market') = 0
              \/ Loadable /\ market' \in MarketRecord /\ Pools(market') = Pools(load_market)
                 /\ Advances(load_market, market')
              \/ legacy # None /\ legacy' = None /\ market' = from_legacy(legacy)
           /\ Loadable /\ ~StaleMigration => Advances(load_market, load_market')
           /\ UNCHANGED <<tokenVars, registryVars, now>>
  <1> DEFINE Goal ==
           /\ MarketTypeOK'
           /\ marketAdmin' # None
           /\ hasBet' = hasBet
           /\ legacy' \in {legacy, None}
           /\ \/ market' = market
              \/ ~Loadable /\ market' \in MarketRecord /\ Pools(market') = 0
              \/ Loadable /\ market' \in MarketRecord /\ Pools(market') = Pools(load_market)
                 /\ Advances(load_market, market')
              \/ legacy # None /\ legacy' = None /\ market' = from_legacy(legacy)
           /\ Loadable /\ ~StaleMigration => Advances(load_market, load_market')
  <1> USE LedgerAssumption, CompositionAssumption, MarketAssumption
  <1>1. Loadable => load_market \in MarketRecord
    BY LoadFacts
  <1>2. \A m \in MarketRecord : Advances(m, m)
    BY DEF Advances, MarketRecord, Amount
  <1>3. ASSUME NEW a \in Admins, NEW registry \in BOOLEAN, InitMarket(a, registry)
        PROVE  Goal
    <2>1. ~Loadable /\ a # None /\ a \in Users
      BY <1>3 DEF InitMarket, AdminBeforeRecord, Addresses
    <2>2. market' \in MarketRecord /\ Pools(market') = 0
      BY <1>3 DEF InitMarket, MarketRecord, MarketStatus, Amount, Pools
    <2> QED BY <1>3, <2>1, <2>2 DEF InitMarket, MarketTypeOK
  <1>4. ASSUME NEW a \in Users, Pause(a) \/ Unpause(a)
        PROVE  Goal
    <2>1. /\ a = marketAdmin /\ a # None /\ paused' \in BOOLEAN
          /\ UNCHANGED <<marketAdmin, hasRegistry, market, legacy, hasBet>>
      BY <1>4 DEF Pause, Unpause, Addresses
    <2>2. MarketTypeOK'
      BY <2>1 DEF MarketTypeOK
    <2>3. load_market' = load_market
      BY <2>1 DEF load_market
    <2> QED BY <1>1, <1>2, <2>1, <2>2, <2>3
  <1>5. ASSUME NEW a \in Users, Migrate(a)
        PROVE  Goal
    <2>1. /\ a = marketAdmin /\ a # None /\ legacy # None /\ legacy' = None
          /\ market' = from_legacy(legacy)
          /\ UNCHANGED <<marketAdmin, hasRegistry, paused, hasBet>>
      BY <1>5 DEF Migrate, Addresses
    <2>2. market' \in MarketRecord
      BY <2>1, FromLegacyFacts DEF MarketTypeOK
    <2>3. MarketTypeOK'
      BY <2>1, <2>2 DEF MarketTypeOK
    <2>4. ASSUME Loadable, ~StaleMigration PROVE Advances(load_market, load_market')
      <3>1. market = None
        BY <2>1, <2>4 DEF StaleMigration
      <3>2. load_market' = load_market
        BY <2>1, <2>2, <3>1 DEF load_market
      <3> QED BY <1>1, <1>2, <2>4, <3>2
    <2> QED BY <2>1, <2>3, <2>4
  <1>6. ASSUME NEW status \in MarketStatus, Loadable,
               \/ load_market.status = "Open" /\ status \in {"ResolvedYes", "ResolvedNo"}
               \/ load_market.status \in {"ResolvedYes", "ResolvedNo"} /\ status = "Disputed",
               market' = [load_market EXCEPT !.status = status],
               marketAdmin' # None,
               UNCHANGED <<marketAdmin, hasRegistry, paused, legacy, hasBet>>
        PROVE  Goal
    <2> DEFINE m == load_market
    <2>1. m \in MarketRecord
      BY <1>1, <1>6
    <2>2. /\ market' = [m EXCEPT !.status = status]
          /\ \/ m.status = "Open" /\ status \in {"ResolvedYes", "ResolvedNo"}
             \/ m.status \in {"ResolvedYes", "ResolvedNo"} /\ status = "Disputed"
      BY <1>6
    <2> HIDE DEF m
    <2>3. /\ market' \in MarketRecord /\ market'.status = status
          /\ market'.yes_pool = m.yes_pool /\ market'.no_pool = m.no_pool
          /\ m.yes_pool \in Nat /\ m.no_pool \in Nat
      BY <2>1, <2>2 DEF MarketRecord, Amount
    <2>4. Pools(market') = Pools(m) /\ Advances(m, market')
      BY <2>2, <2>3 DEF Pools, Advances
    <2>5. load_market' = market'
      BY <2>3 DEF load_market
    <2>6. MarketTypeOK'
      BY <1>6, <2>3 DEF MarketTypeOK
    <2> QED BY <1>6, <2>3, <2>4, <2>5, <2>6 DEF m
  <1>7. ASSUME NEW a \in Users, ChallengeOutcome(a)
        PROVE  Goal
    <2>1. Loadable /\ marketAdmin # None
      BY <1>7 DEF ChallengeOutcome, AdminBeforeRecord
    <2> HIDE DEF Goal
    <2> QED BY <1>6, <1>7, <2>1 DEF ChallengeOutcome, MarketStatus
  <1>8. ASSUME NEW a \in Users, NEW yes \in BOOLEAN, SubmitOutcome(a, yes)
        PROVE  Goal
    <2>1. Loadable /\ marketAdmin # None
      BY <1>8 DEF SubmitOutcome, AdminBeforeRecord
    <2> HIDE DEF Goal
    <2> QED BY <1>6, <1>8, <2>1 DEF SubmitOutcome, MarketStatus
  <1>9. UNCHANGED <<tokenVars, registryVars, now>>
    BY DEF CallMarket
  <1> HIDE DEF Goal
  <1>10. Goal
    BY <1>3, <1>4, <1>5, <1>7, <1>8 DEF CallMarket
  <1> QED BY <1>9, <1>10 DEF Goal

\* Each transaction, and the passing of time, preserves the invariant.
LEMMA NextIInv ==
    ASSUME OverflowChecks
    PROVE  IInv /\ [Next]_vars => IInv'
  <1> SUFFICES ASSUME IInv, [Next]_vars PROVE IInv'
    OBVIOUS
  <1> USE LedgerAssumption, CompositionAssumption, RegistryAssumption
  <1>0. /\ TokenTypeOK /\ MarketTypeOK /\ RegistryTypeOK
        /\ PoolsCovered /\ AdminBeforeRecord /\ BetsAreReported /\ BonusIsEarnedOnce
    BY DEF IInv, TypeOK
  <1>a. /\ balance[MarketAddress] \in Nat
        /\ \A m \in MarketRecord : Pools(m) \in Nat
        /\ \A l \in LegacyRecord : Pools(l) \in Nat
    BY <1>0 DEF TokenTypeOK, Addresses, Amount, MarketRecord, LegacyRecord, Pools
  <1>1. CASE CallToken
    <2>1. /\ TokenTypeOK' /\ balance'[MarketAddress] >= balance[MarketAddress]
          /\ UNCHANGED <<marketVars, registryVars, now>>
      BY <1>0, <1>1, CallTokenFacts
    <2>2. balance'[MarketAddress] \in Nat
      BY <2>1 DEF TokenTypeOK, Addresses, Amount
    <2>3. MarketTypeOK' /\ RegistryTypeOK' /\ AdminBeforeRecord'
      BY <1>0, <2>1 DEF marketVars, registryVars, MarketTypeOK, RegistryTypeOK,
                        AdminBeforeRecord, Loadable
    <2>4. BetsAreReported' /\ BonusIsEarnedOnce'
      BY <1>0, <2>1 DEF marketVars, registryVars, BetsAreReported, BonusIsEarnedOnce
    <2>5. PoolsCovered'
      <3>1. market' = market /\ legacy' = legacy
        BY <2>1 DEF marketVars
      <3>2. /\ market # None => Pools(market) \in Nat
            /\ legacy # None => Pools(legacy) \in Nat
        BY <1>0, <1>a DEF MarketTypeOK
      <3> QED BY <1>0, <1>a, <2>1, <2>2, <3>1, <3>2 DEF PoolsCovered
    <2> QED BY <2>1, <2>3, <2>4, <2>5 DEF IInv, TypeOK
  <1>2. CASE CallMarket
    <2>1. /\ MarketTypeOK' /\ marketAdmin' # None /\ hasBet' = hasBet
          /\ legacy' \in {legacy, None}
          /\ \/ market' = market
             \/ market' \in MarketRecord /\ Pools(market') = 0
             \/ Loadable /\ market' \in MarketRecord /\ Pools(market') = Pools(load_market)
             \/ legacy # None /\ legacy' = None /\ market' = from_legacy(legacy)
          /\ UNCHANGED <<tokenVars, registryVars, now>>
      BY <1>0, <1>2, CallMarketFacts
    <2>2. TokenTypeOK' /\ RegistryTypeOK' /\ AdminBeforeRecord'
      BY <1>0, <2>1 DEF tokenVars, registryVars, TokenTypeOK, RegistryTypeOK, AdminBeforeRecord
    <2>3. BetsAreReported' /\ BonusIsEarnedOnce'
      BY <1>0, <2>1 DEF registryVars, BetsAreReported, BonusIsEarnedOnce
    <2>4. PoolsCovered'
      <3>1. MarketSolvent
        BY <1>0, CoveredIsSolvent DEF IInv
      <3>2. balance' = balance
        BY <2>1 DEF tokenVars
      <3>3. legacy # None => Pools(from_legacy(legacy)) = Pools(legacy)
        BY <1>0, FromLegacyFacts DEF MarketTypeOK
      <3> QED BY <1>0, <1>a, <2>1, <3>1, <3>2, <3>3 DEF PoolsCovered, MarketSolvent
    <2> QED BY <2>1, <2>2, <2>3, <2>4 DEF IInv, TypeOK
  <1>3. CASE CallRegistry
    <2>1. UNCHANGED <<tokenVars, marketVars>>
      BY <1>3 DEF CallRegistry
    <2>2. TokenTypeOK' /\ MarketTypeOK' /\ PoolsCovered' /\ AdminBeforeRecord'
      BY <1>0, <2>1 DEF tokenVars, marketVars, TokenTypeOK, MarketTypeOK, PoolsCovered,
                        AdminBeforeRecord, Loadable
    <2>3. ASSUME NEW a \in Admins, InitRegistry(a)
          PROVE  RegistryTypeOK' /\ BetsAreReported' /\ BonusIsEarnedOnce'
      BY <1>0, <2>1, <2>3 DEF InitRegistry, marketVars, RegistryTypeOK, BetsAreReported,
                              BonusIsEarnedOnce
    <2>4. ASSUME NEW u \in Users, NEW r \in Users \cup {None}, NEW xlm \in XlmBalances,
                 Register(u, r, xlm)
          PROVE  RegistryTypeOK' /\ BetsAreReported' /\ BonusIsEarnedOnce'
      <3> DEFINE entry == [referrer |-> r, registered_at |-> now,
                           has_bet |-> FALSE, claimed |-> FALSE]
      <3>1. /\ registration[u] = None
            /\ registration' = [registration EXCEPT ![u] = entry]
            /\ UNCHANGED <<registryAdmin, points, now>>
        BY <2>4 DEF Register
      <3>2. entry \in Registration
        BY <1>0 DEF Registration, RegistryTypeOK, Addresses
      <3>3. RegistryTypeOK'
        BY <1>0, <3>1, <3>2 DEF RegistryTypeOK
      <3>4. \A v \in Users : registration'[v] = IF v = u THEN entry ELSE registration[v]
        BY <1>0, <3>1 DEF RegistryTypeOK
      <3>5. hasBet' = hasBet
        BY <2>1 DEF marketVars
      <3> QED BY <1>0, <3>1, <3>3, <3>4, <3>5 DEF BetsAreReported, BonusIsEarnedOnce
    <2> QED BY <1>3, <2>2, <2>3, <2>4 DEF CallRegistry, IInv, TypeOK
  <1>4. ASSUME NEW u \in Users, NEW yes \in BOOLEAN, NEW amount \in BetAmounts,
               PlaceBet(u, yes, amount)
        PROVE  IInv'
    <2>0. amount \in Int /\ MarketAddress \in Addresses
      BY DEF Addresses
    <2>1. /\ TokenTypeOK'
          /\ balance'[MarketAddress] = balance[MarketAddress] + amount
          /\ balance'[MarketAddress] >= balance[MarketAddress]
      BY <1>0, <1>4, <2>0, TransferFacts DEF PlaceBet
    <2>2. /\ MarketTypeOK' /\ market' # None
          /\ Pools(market') = Pools(load_market) + amount
          /\ hasBet' = hasBet \cup {u}
          /\ UNCHANGED <<marketAdmin, hasRegistry, paused, legacy>>
      BY <1>0, <1>4, <2>0, PlaceBetInMarketFacts DEF PlaceBet
    <2>3. Loadable
      BY <1>4 DEF PlaceBet, PlaceBetInMarket
    <2>4. PoolsCovered'
      <3>1. Pools(load_market) <= balance[MarketAddress] /\ Pools(load_market) \in Nat
        BY <1>0, <1>a, <2>3, CoveredIsSolvent, LoadFacts DEF IInv, MarketSolvent
      <3>2. legacy # None => Pools(legacy) \in Nat
        BY <1>0, <1>a DEF MarketTypeOK
      <3> QED BY <1>0, <1>a, <2>0, <2>1, <2>2, <3>1, <3>2 DEF PoolsCovered
    <2>5. AdminBeforeRecord'
      BY <1>0, <2>2, <2>3 DEF AdminBeforeRecord
    <2>6. RegistryTypeOK' /\ BetsAreReported' /\ BonusIsEarnedOnce'
      <3>1. CASE UNCHANGED <<registryVars, now>>
        BY <1>0, <2>2, <3>1 DEF registryVars, RegistryTypeOK, BetsAreReported, BonusIsEarnedOnce
      <3>2. CASE RecordFirstBet(u)
        <4>1. /\ RegistryTypeOK'
              /\ \A v \in Users :
                    /\ registration'[v] = None <=> registration[v] = None
                    /\ registration[v] # None =>
                        /\ registration'[v].claimed = registration[v].claimed
                        /\ registration'[v].registered_at = registration[v].registered_at
                        /\ v # u => registration'[v] = registration[v]
                        /\ registration[v].has_bet => registration'[v].has_bet
              /\ UNCHANGED <<registryAdmin, points, now>>
          BY <1>0, <3>2, RecordFirstBetFacts
        <4> QED BY <1>0, <2>2, <4>1 DEF BetsAreReported, BonusIsEarnedOnce
      <3> QED BY <1>4, <3>1, <3>2 DEF PlaceBet
    <2> QED BY <2>1, <2>2, <2>4, <2>5, <2>6 DEF IInv, TypeOK
  <1>5. ASSUME NEW u \in Users, ClaimWelcomeBonus(u)
        PROVE  IInv'
    <2>0. u \in Addresses /\ WelcomeTokens \in Int
      BY DEF Addresses
    <2>1. /\ TokenTypeOK' /\ balance'[MarketAddress] >= balance[MarketAddress]
          /\ UNCHANGED marketVars
      BY <1>0, <1>5, <2>0, MintFacts DEF ClaimWelcomeBonus
    <2>2. /\ registration[u] # None /\ ~registration[u].claimed /\ registration[u].has_bet
          /\ now >= registration[u].registered_at + Cooldown
          /\ registration' = [registration EXCEPT ![u].claimed = TRUE]
          /\ points' = [points EXCEPT ![u] = @ + WelcomePoints]
          /\ UNCHANGED <<registryAdmin, now>>
      BY <1>5 DEF ClaimWelcomeBonus, ClaimInRegistry
    <2>3. registration[u] \in Registration /\ points[u] = 0
      BY <1>0, <2>2 DEF RegistryTypeOK, BonusIsEarnedOnce
    <2>4. /\ \A v \in Users : v # u => registration'[v] = registration[v]
          /\ registration'[u] = [registration[u] EXCEPT !.claimed = TRUE]
          /\ \A v \in Users : points'[v] = IF v = u THEN WelcomePoints ELSE points[v]
      BY <1>0, <2>2, <2>3 DEF RegistryTypeOK
    <2>5. /\ registration'[u] \in Registration
          /\ registration'[u].claimed = TRUE
          /\ registration'[u].has_bet = registration[u].has_bet
          /\ registration'[u].registered_at = registration[u].registered_at
      BY <2>3, <2>4, ClaimedEntry
    <2>6. RegistryTypeOK'
      BY <1>0, <2>2, <2>4, <2>5 DEF RegistryTypeOK
    <2>7. hasBet' = hasBet /\ market' = market /\ legacy' = legacy
      BY <2>1 DEF marketVars
    <2>8. BetsAreReported'
      BY <1>0, <2>2, <2>4, <2>5, <2>7 DEF BetsAreReported
    <2>a. u \in hasBet
      BY <1>0, <2>2 DEF BetsAreReported
    <2>b. BonusIsEarnedOnce'
      <3> SUFFICES ASSUME NEW v \in Users
                   PROVE  IF registration'[v] # None /\ registration'[v].claimed
                          THEN /\ points'[v] = WelcomePoints
                               /\ registration'[v].has_bet
                               /\ v \in hasBet'
                               /\ now' >= registration'[v].registered_at + Cooldown
                          ELSE points'[v] = 0
        BY DEF BonusIsEarnedOnce
      <3>1. CASE v = u
        BY <2>2, <2>4, <2>5, <2>7, <2>a, <3>1, RegistrationAssumption
      <3>2. CASE v # u
        BY <1>0, <2>2, <2>4, <2>7, <3>2 DEF BonusIsEarnedOnce
      <3> QED BY <3>1, <3>2
    <2>9. MarketTypeOK' /\ AdminBeforeRecord'
      BY <1>0, <2>1 DEF marketVars, MarketTypeOK, AdminBeforeRecord, Loadable
    <2>10. PoolsCovered'
      <3>1. balance'[MarketAddress] \in Nat
        BY <2>1 DEF TokenTypeOK, Addresses, Amount
      <3>2. /\ market # None => Pools(market) \in Nat
            /\ legacy # None => Pools(legacy) \in Nat
        BY <1>0, <1>a DEF MarketTypeOK
      <3> QED BY <1>0, <1>a, <2>1, <2>7, <3>1, <3>2 DEF PoolsCovered
    <2> QED BY <2>1, <2>6, <2>8, <2>9, <2>10, <2>b DEF IInv, TypeOK
  <1>6. CASE Tick
    <2>1. now' = now + 1 /\ UNCHANGED <<tokenVars, marketVars, registryVars>>
      BY <1>6 DEF Tick
    <2>2. TokenTypeOK' /\ MarketTypeOK' /\ PoolsCovered' /\ AdminBeforeRecord'
      BY <1>0, <2>1 DEF tokenVars, marketVars, TokenTypeOK, MarketTypeOK, PoolsCovered,
                        AdminBeforeRecord, Loadable
    <2>3. RegistryTypeOK' /\ BetsAreReported'
      BY <1>0, <2>1 DEF marketVars, registryVars, RegistryTypeOK, BetsAreReported
    <2>4. BonusIsEarnedOnce'
      <3>1. \A u \in Users : registration[u] # None => registration[u].registered_at \in Nat
        BY <1>0 DEF RegistryTypeOK, Registration
      <3> QED BY <1>0, <2>1, <3>1 DEF marketVars, registryVars, RegistryTypeOK, BonusIsEarnedOnce
    <2> QED BY <2>2, <2>3, <2>4 DEF IInv, TypeOK
  <1>7. CASE UNCHANGED vars
    BY <1>0, <1>7 DEF vars, tokenVars, marketVars, registryVars, IInv, TypeOK, TokenTypeOK,
        MarketTypeOK, RegistryTypeOK, PoolsCovered, AdminBeforeRecord, Loadable,
        BetsAreReported, BonusIsEarnedOnce
  <1> QED BY <1>1, <1>2, <1>3, <1>4, <1>5, <1>6, <1>7 DEF Next

----------------------------------------------------------------------------
(* The theorems.                                                           *)

\* The invariant holds in every reachable state.
THEOREM Invariance ==
    ASSUME OverflowChecks
    PROVE  Spec => []IInv
  BY InitIInv, NextIInv, PTL DEF Spec

\* Every storage entry keeps its type: no balance goes below zero or above
\* i128::MAX, in any order of transactions.
THEOREM TypeCorrect ==
    ASSUME OverflowChecks
    PROVE  Spec => []TypeOK
  <1>1. IInv => TypeOK
    BY DEF IInv
  <1> QED BY <1>1, Invariance, PTL

\* The market always holds the tokens of both pools (place_bet, migrate).
THEOREM Solvency ==
    ASSUME OverflowChecks
    PROVE  Spec => []MarketSolvent
  <1>1. IInv => MarketSolvent
    BY CoveredIsSolvent DEF IInv
  <1> QED BY <1>1, Invariance, PTL

\* claim_welcome_bonus pays a user once, after a reported bet and the cooldown.
THEOREM EarnedOnce ==
    ASSUME OverflowChecks
    PROVE  Spec => []BonusIsEarnedOnce
  <1>1. IInv => BonusIsEarnedOnce
    BY DEF IInv
  <1> QED BY <1>1, Invariance, PTL

\* What get_market answers only advances, whatever the transaction, unless it
\* is a migrate that finds the packed market already written.
THEOREM OnlyAdvances ==
    ASSUME OverflowChecks
    PROVE  Spec => MarketOnlyAdvances
  <1>1. ASSUME IInv, Next, Loadable, ~StaleMigration
        PROVE  Advances(load_market, load_market')
    <2>0. TokenTypeOK /\ MarketTypeOK /\ AdminBeforeRecord
      BY <1>1 DEF IInv, TypeOK
    <2>1. load_market \in MarketRecord
      BY <1>1, <2>0, LoadFacts
    <2>2. Advances(load_market, load_market)
      BY <2>1 DEF Advances, MarketRecord, Amount
    <2>3. CASE UNCHANGED marketVars
      <3>1. load_market' = load_market
        BY <2>3 DEF marketVars, load_market
      <3> QED BY <2>2, <3>1
    <2>4. CASE CallMarket
      BY <1>1, <2>0, <2>4, CallMarketFacts
    <2>5. ASSUME NEW u \in Users, NEW yes \in BOOLEAN, NEW amount \in BetAmounts,
                 PlaceBet(u, yes, amount)
          PROVE  Advances(load_market, load_market')
      <3>1. /\ market' # None
            /\ load_market.status = "Open" /\ market'.status = "Open"
            /\ market'.yes_pool >= load_market.yes_pool
            /\ market'.no_pool >= load_market.no_pool
        BY <2>0, <2>5, CompositionAssumption, PlaceBetInMarketFacts DEF PlaceBet
      <3>2. load_market' = market'
        BY <3>1 DEF load_market
      <3> QED BY <3>1, <3>2 DEF Advances
    <2> QED BY <1>1, <2>3, <2>4, <2>5
            DEF Next, CallToken, CallRegistry, ClaimWelcomeBonus, Tick
  <1>2. IInv /\ [Next]_vars => [Loadable /\ ~StaleMigration => Advances(load_market, load_market')]_vars
    BY <1>1
  <1> QED BY <1>2, Invariance, PTL DEF Spec, MarketOnlyAdvances

\* A user who bet before registering is never paid the welcome bonus.
THEOREM LockedOutForEver ==
    ASSUME OverflowChecks
    PROVE  Spec => LateRegistrationLocksOut
  <1>1. ASSUME IInv, Next, NEW u \in Users, LockedOut(u)
        PROVE  LockedOut(u)'
    <2>0. RegistryTypeOK /\ MarketTypeOK /\ AdminBeforeRecord
      BY <1>1 DEF IInv, TypeOK
    <2>1. registration[u] # None /\ ~registration[u].has_bet /\ u \in hasBet
      BY <1>1 DEF LockedOut
    <2>2. CASE CallToken \/ Tick
      BY <2>1, <2>2 DEF CallToken, Tick, marketVars, registryVars, LockedOut
    <2>3. CASE CallMarket
      BY <2>0, <2>1, <2>3, CallMarketFacts DEF registryVars, LockedOut
    <2>4. CASE CallRegistry
      BY <2>0, <2>1, <2>4 DEF CallRegistry, InitRegistry, Register, marketVars, LockedOut,
                              RegistryTypeOK
    <2>5. ASSUME NEW v \in Users, NEW yes \in BOOLEAN, NEW amount \in BetAmounts,
                 PlaceBet(v, yes, amount)
          PROVE  LockedOut(u)'
      <3>1. u \in hasBet'
        BY <2>1, <2>5 DEF PlaceBet, PlaceBetInMarket
      <3>2. CASE UNCHANGED registryVars
        BY <2>1, <3>1, <3>2 DEF registryVars, LockedOut
      <3>3. CASE RecordFirstBet(v) /\ v \notin hasBet
        BY <2>0, <2>1, <3>1, <3>3, RecordFirstBetFacts DEF LockedOut
      <3> QED BY <2>5, <3>2, <3>3 DEF PlaceBet, ReportsFirstBet
    <2>6. ASSUME NEW v \in Users, ClaimWelcomeBonus(v)
          PROVE  LockedOut(u)'
      BY <2>0, <2>1, <2>6 DEF ClaimWelcomeBonus, ClaimInRegistry, marketVars, LockedOut,
                              RegistryTypeOK
    <2> QED BY <1>1, <2>2, <2>3, <2>4, <2>5, <2>6 DEF Next
  <1>2. IInv /\ [Next]_vars => [\A u \in Users : LockedOut(u) => LockedOut(u)']_vars
    BY <1>1
  <1> QED BY <1>2, Invariance, PTL DEF Spec, LateRegistrationLocksOut

\* claim_welcome_bonus credits points and mints tokens together or not at all.
THEOREM ClaimIsAtomic ==
    ASSUME OverflowChecks
    PROVE  Spec => BonusIsAtomic
  <1>1. ASSUME IInv, Next, NEW u \in Users, points'[u] # points[u]
        PROVE  /\ balance'[u] = balance[u] + WelcomeTokens
               /\ totalSupply' = totalSupply + WelcomeTokens
    <2>0. TokenTypeOK /\ RegistryTypeOK
      BY <1>1 DEF IInv, TypeOK
    <2>1. PICK v \in Users : ClaimWelcomeBonus(v)
      BY <1>1 DEF Next, CallToken, CallMarket, CallRegistry, InitRegistry, Register, PlaceBet,
                  RecordFirstBet, Tick, registryVars
    <2>2. v = u
      BY <1>1, <2>0, <2>1 DEF ClaimWelcomeBonus, ClaimInRegistry, RegistryTypeOK
    <2> QED BY <2>0, <2>1, <2>2, MintFacts, RegistryAssumption DEF ClaimWelcomeBonus, Addresses
  <1>2. IInv /\ [Next]_vars =>
            [\A u \in Users : points'[u] # points[u] =>
                /\ balance'[u] = balance[u] + WelcomeTokens
                /\ totalSupply' = totalSupply + WelcomeTokens]_vars
    BY <1>1
  <1> QED BY <1>2, Invariance, PTL DEF Spec, BonusIsAtomic

----------------------------------------------------------------------------
(* Sums of finite functions, by the least number of indices for which a    *)
(* claim about them is false.                                              *)

\* A set of naturals has a least element.
LEMMA LeastNatural ==
    ASSUME NEW S \in SUBSET Nat, S # {}
    PROVE  \E m \in S : \A k \in S : m <= k
<1>1. PICK m \in S : \A k \in S : <<k, m>> \notin OpToRel(<, Nat)
  BY NatLessThanWellFounded, WFMin
<1>2. ASSUME NEW k \in S PROVE m <= k
  <2>1. ~(k < m)
    BY <1>1 DEF OpToRel
  <2> QED
    BY <2>1
<1> QED
  BY <1>2

\* g holds the sums of f over the subsets of S, taken one index at a time.
pick(s) == CHOOSE x \in s : TRUE
SumsUpTo(g, f, U) ==
    g = [s \in U |-> IF s = {} THEN 0 ELSE f[pick(s)] + g[s \ {pick(s)}]]
Smaller(S, n) == {s \in SUBSET S : Cardinality(s) <= n}

\* Any index may be taken first.
AnyFirst(g, f, S) == \A s \in SUBSET S : g[s] \in Int /\ \A x \in s : g[s] = f[x] + g[s \ {x}]

LEMMA PickIsOne == ASSUME NEW s, s # {} PROVE pick(s) \in s
BY DEF pick

\* The sums over one more index follow from those over fewer.
LEMMA OneMoreIndex ==
    ASSUME NEW S, IsFiniteSet(S), NEW f, NEW n \in Nat, NEW g, SumsUpTo(g, f, Smaller(S, n))
    PROVE  \E h : SumsUpTo(h, f, Smaller(S, n + 1))
<1> DEFINE h == [s \in Smaller(S, n + 1) |-> IF s = {} THEN 0 ELSE f[pick(s)] + g[s \ {pick(s)}]]
<1>1. ASSUME NEW s \in Smaller(S, n + 1), s # {}
      PROVE  h[s \ {pick(s)}] = g[s \ {pick(s)}]
  <2> DEFINE t == s \ {pick(s)}
  <2>1. IsFiniteSet(s) /\ s \in SUBSET S
    BY FS_Subset DEF Smaller
  <2>2. t \in SUBSET S /\ Cardinality(t) = Cardinality(s) - 1 /\ Cardinality(s) \in Nat
    BY <1>1, <2>1, PickIsOne, FS_RemoveElement, FS_CardinalityType
  <2>3. t \in Smaller(S, n) /\ t \in Smaller(S, n + 1)
    BY <2>2 DEF Smaller
  <2> HIDE DEF t
  <2>4. h[t] = IF t = {} THEN 0 ELSE f[pick(t)] + g[t \ {pick(t)}]
    BY <2>3
  <2>5. g[t] = IF t = {} THEN 0 ELSE f[pick(t)] + g[t \ {pick(t)}]
    BY <2>3 DEF SumsUpTo
  <2>6. h[t] = g[t]
    BY <2>4, <2>5
  <2> QED
    BY <2>6 DEF t
<1>2. h = [s \in Smaller(S, n + 1) |-> IF s = {} THEN 0 ELSE f[pick(s)] + h[s \ {pick(s)}]]
  <2>1. \A s \in Smaller(S, n + 1) :
          (IF s = {} THEN 0 ELSE f[pick(s)] + g[s \ {pick(s)}])
            = (IF s = {} THEN 0 ELSE f[pick(s)] + h[s \ {pick(s)}])
    BY <1>1
  <2> HIDE DEF h
  <2>2. h = [s \in Smaller(S, n + 1) |-> IF s = {} THEN 0 ELSE f[pick(s)] + g[s \ {pick(s)}]]
    BY DEF h
  <2> QED
    BY <2>1, <2>2
<1> QED
  BY <1>2 DEF SumsUpTo

LEMMA SumsExist ==
    ASSUME NEW S, IsFiniteSet(S), NEW f
    PROVE  \E g : SumsUpTo(g, f, SUBSET S)
<1> DEFINE Missing == {n \in Nat : ~ \E g : SumsUpTo(g, f, Smaller(S, n))}
<1>1. Missing = {}
  <2> SUFFICES ASSUME Missing # {} PROVE FALSE
    OBVIOUS
  <2>1. PICK n \in Missing : \A k \in Missing : n <= k
    BY LeastNatural
  <2>2. n \in Nat /\ ~ \E g : SumsUpTo(g, f, Smaller(S, n))
    OBVIOUS
  <2>3. CASE n = 0
    <3>1. \A s \in Smaller(S, 0) : s = {}
      <4>1. ASSUME NEW s \in Smaller(S, 0) PROVE s = {}
        <5>1. IsFiniteSet(s) /\ Cardinality(s) <= 0
          BY FS_Subset DEF Smaller
        <5>2. Cardinality(s) \in Nat
          BY <5>1, FS_CardinalityType
        <5>3. Cardinality(s) = 0
          BY <5>1, <5>2
        <5> QED
          BY <5>1, <5>3, FS_EmptySet
      <4> QED
        BY <4>1
    <3> DEFINE g == [s \in Smaller(S, 0) |-> 0]
    <3>2. g = [s \in Smaller(S, 0) |-> IF s = {} THEN 0 ELSE f[pick(s)] + g[s \ {pick(s)}]]
      BY <3>1
    <3>3. SumsUpTo(g, f, Smaller(S, 0))
      BY <3>2 DEF SumsUpTo
    <3> QED
      BY <2>2, <2>3, <3>3
  <2>4. CASE n # 0
    <3>1. n - 1 \in Nat /\ ~(n <= n - 1) /\ (n - 1) + 1 = n
      BY <2>2, <2>4
    <3>2. n - 1 \notin Missing
      BY <2>1, <3>1
    <3>3. PICK g : SumsUpTo(g, f, Smaller(S, n - 1))
      BY <3>1, <3>2
    <3>4. \E h : SumsUpTo(h, f, Smaller(S, (n - 1) + 1))
      BY <3>1, <3>3, OneMoreIndex
    <3> QED
      BY <2>2, <3>1, <3>4
  <2> QED
    BY <2>3, <2>4
<1>2. Cardinality(S) \in Nat
  BY FS_CardinalityType
<1>3. Smaller(S, Cardinality(S)) = SUBSET S
  BY FS_Subset DEF Smaller
<1>4. Cardinality(S) \notin Missing
  BY <1>1
<1>5. PICK g : SumsUpTo(g, f, Smaller(S, Cardinality(S)))
  BY <1>2, <1>4
<1> QED
  BY <1>3, <1>5

\* SumFunction is the sum over the whole domain.
LEMMA SumIs ==
    ASSUME NEW S, IsFiniteSet(S), NEW f, DOMAIN f = S
    PROVE  \E g : SumsUpTo(g, f, SUBSET S) /\ SumFunction(f) = g[S]
<1>1. SumFunction(f) = (CHOOSE g : SumsUpTo(g, f, SUBSET S))[S]
  BY Zenon DEF SumFunction, SumFunctionOnSet, FoldFunctionOnSet, MapThenFoldSet, SumsUpTo, pick
<1> QED
  BY <1>1, SumsExist

\* Any index may be taken first.
LEMMA AnyIndexFirst ==
    ASSUME NEW S, IsFiniteSet(S), NEW f \in [S -> Int], NEW g, SumsUpTo(g, f, SUBSET S)
    PROVE  AnyFirst(g, f, S)
<1> DEFINE Good(t) == g[t] \in Int /\ \A x \in t : g[t] = f[x] + g[t \ {x}]
           Bad == {Cardinality(t) : t \in {r \in SUBSET S : ~Good(r)}}
<1>0. ASSUME NEW t \in SUBSET S
      PROVE  /\ IsFiniteSet(t) /\ Cardinality(t) \in Nat
             /\ t = {} => g[t] = 0
             /\ t # {} => pick(t) \in t /\ g[t] = f[pick(t)] + g[t \ {pick(t)}]
             /\ \A x \in t : Cardinality(t \ {x}) = Cardinality(t) - 1 /\ t \ {x} \in SUBSET S
  <2>1. IsFiniteSet(t) /\ Cardinality(t) \in Nat
    BY FS_Subset, FS_CardinalityType
  <2>2. g[t] = IF t = {} THEN 0 ELSE f[pick(t)] + g[t \ {pick(t)}]
    BY DEF SumsUpTo
  <2>3. \A x \in t : Cardinality(t \ {x}) = Cardinality(t) - 1 /\ t \ {x} \in SUBSET S
    BY <2>1, FS_RemoveElement
  <2> QED
    BY <2>1, <2>2, <2>3, PickIsOne
<1>a. \A t \in SUBSET S : Cardinality(t) \in Nat
  BY <1>0
<1>b. \A t \in SUBSET S : \A x \in t : Cardinality(t \ {x}) = Cardinality(t) - 1 /\ t \ {x} \in SUBSET S
  BY <1>0
<1>1. Bad = {}
  <2> SUFFICES ASSUME Bad # {} PROVE FALSE
    OBVIOUS
  <2>1. Bad \in SUBSET Nat
    BY <1>a
  <2>2. PICK n \in Bad : \A k \in Bad : n <= k
    BY <2>1, LeastNatural
  <2>3. PICK t \in SUBSET S : ~Good(t) /\ Cardinality(t) = n
    OBVIOUS
  <2>4. ASSUME NEW r \in SUBSET S, Cardinality(r) < n PROVE Good(r)
    <3>1. SUFFICES ASSUME ~Good(r) PROVE FALSE
      OBVIOUS
    <3>2. Cardinality(r) \in Bad
      BY <3>1
    <3> HIDE DEF Bad
    <3> QED
      BY <1>a, <2>1, <2>2, <2>4, <3>2
  <2>5. n \in Nat
    BY <2>1
  <2>6. \A x \in t : Cardinality(t \ {x}) < n /\ t \ {x} \in SUBSET S
    BY <1>b, <2>3, <2>5
  <2>7. CASE t = {}
    <3>1. g[t] = 0
      BY <1>0, <2>7
    <3> QED
      BY <2>3, <2>7, <3>1
  <2>8. CASE t # {}
    <3> DEFINE c == pick(t)
    <3>1. c \in t /\ g[t] = f[c] + g[t \ {c}]
      BY <1>0, <2>8
    <3> HIDE DEF c
    <3>2. Good(t \ {c})
      BY <2>4, <2>6, <3>1
    <3>3. f[c] \in Int /\ g[t] \in Int
      BY <3>1, <3>2
    <3>4. ASSUME NEW x \in t, x # c PROVE g[t] = f[x] + g[t \ {x}]
      <4> DEFINE r == (t \ {c}) \ {x}
      <4>1. c \in t \ {x} /\ x \in t \ {c} /\ (t \ {x}) \ {c} = r
        BY <3>1, <3>4
      <4>2. Good(t \ {x})
        BY <2>4, <2>6
      <4>3. g[t \ {x}] = f[c] + g[r]
        BY <4>1, <4>2
      <4>4. g[t \ {c}] = f[x] + g[r]
        BY <3>2, <4>1
      <4>5. g[r] \in Int
        <5>1. Cardinality(t \ {c}) < n /\ t \ {c} \in SUBSET S /\ Cardinality(t \ {c}) \in Nat
          BY <1>a, <2>6, <3>1
        <5>2. Cardinality(r) = Cardinality(t \ {c}) - 1 /\ r \in SUBSET S
          BY <1>b, <4>1, <5>1
        <5>3. Cardinality(r) < n
          BY <2>5, <5>1, <5>2
        <5> QED
          BY <2>4, <5>2, <5>3
      <4>6. f[x] \in Int
        OBVIOUS
      <4> HIDE DEF r
      <4> QED
        BY <3>1, <3>3, <4>3, <4>4, <4>5, <4>6
    <3>5. \A x \in t : g[t] = f[x] + g[t \ {x}]
      BY <3>1, <3>4
    <3> QED
      BY <2>3, <3>3, <3>5
  <2> QED
    BY <2>7, <2>8
<1>2. \A s \in SUBSET S : Good(s)
  BY <1>1
<1> QED
  BY <1>2 DEF AnyFirst

\* The sum and the sums it is made of.
LEMMA SumParts ==
    ASSUME NEW S, IsFiniteSet(S), NEW f \in [S -> Int]
    PROVE  \E g : /\ SumsUpTo(g, f, SUBSET S) /\ SumFunction(f) = g[S]
                  /\ AnyFirst(g, f, S)
<1>1. PICK g : SumsUpTo(g, f, SUBSET S) /\ SumFunction(f) = g[S]
  BY SumIs
<1>2. AnyFirst(g, f, S)
  BY <1>1, AnyIndexFirst
<1> QED
  BY <1>1, <1>2

\* What is outside a set of indices does not count.
LEMMA OthersDoNotCount ==
    ASSUME NEW S, IsFiniteSet(S), NEW f, NEW e, NEW g, NEW h,
           SumsUpTo(g, f, SUBSET S), SumsUpTo(h, e, SUBSET S),
           NEW s \in SUBSET S, \A x \in s : f[x] = e[x]
    PROVE  g[s] = h[s]
<1> DEFINE Bad == {Cardinality(t) : t \in {r \in SUBSET s : g[r] # h[r]}}
<1>0. ASSUME NEW t \in SUBSET s
      PROVE  /\ IsFiniteSet(t) /\ Cardinality(t) \in Nat
             /\ t = {} => g[t] = 0 /\ h[t] = 0
             /\ t # {} => /\ pick(t) \in t /\ f[pick(t)] = e[pick(t)]
                          /\ g[t] = f[pick(t)] + g[t \ {pick(t)}]
                          /\ h[t] = e[pick(t)] + h[t \ {pick(t)}]
                          /\ Cardinality(t \ {pick(t)}) = Cardinality(t) - 1
  <2>1. IsFiniteSet(t) /\ Cardinality(t) \in Nat
    BY FS_Subset, FS_CardinalityType
  <2>2. /\ g[t] = IF t = {} THEN 0 ELSE f[pick(t)] + g[t \ {pick(t)}]
        /\ h[t] = IF t = {} THEN 0 ELSE e[pick(t)] + h[t \ {pick(t)}]
    BY DEF SumsUpTo
  <2>3. t # {} => pick(t) \in t /\ Cardinality(t \ {pick(t)}) = Cardinality(t) - 1
    BY <2>1, FS_RemoveElement, PickIsOne
  <2> QED
    BY <2>1, <2>2, <2>3
<1>1. Bad = {}
  <2> SUFFICES ASSUME Bad # {} PROVE FALSE
    OBVIOUS
  <2>1. Bad \in SUBSET Nat
    BY <1>0
  <2>2. PICK n \in Bad : \A k \in Bad : n <= k
    BY <2>1, LeastNatural
  <2>3. PICK t \in SUBSET s : g[t] # h[t] /\ Cardinality(t) = n
    OBVIOUS
  <2>4. t # {} /\ t \ {pick(t)} \in SUBSET s /\ g[t \ {pick(t)}] # h[t \ {pick(t)}]
    BY <1>0, <2>3
  <2>5. Cardinality(t \ {pick(t)}) \in Bad /\ Cardinality(t \ {pick(t)}) = n - 1 /\ n \in Nat
    BY <1>0, <2>1, <2>3, <2>4
  <2> QED
    BY <2>2, <2>5
<1> QED
  BY <1>1

\* Changing one value changes the sum by as much.
LEMMA SumOfChange ==
    ASSUME NEW S, IsFiniteSet(S), NEW f \in [S -> Int], NEW e \in [S -> Int],
           NEW x \in S, \A y \in S \ {x} : f[y] = e[y]
    PROVE  /\ SumFunction(f) \in Int
           /\ SumFunction(e) = SumFunction(f) - f[x] + e[x]
<1>1. PICK g : /\ SumsUpTo(g, f, SUBSET S) /\ SumFunction(f) = g[S]
              /\ AnyFirst(g, f, S)
  BY SumParts
<1>2. PICK h : /\ SumsUpTo(h, e, SUBSET S) /\ SumFunction(e) = h[S]
              /\ AnyFirst(h, e, S)
  BY SumParts
<1>5. S \in SUBSET S /\ S \ {x} \in SUBSET S
  OBVIOUS
<1>6. g[S \ {x}] = h[S \ {x}]
  BY <1>1, <1>2, <1>5, OthersDoNotCount
<1>7. /\ g[S] \in Int /\ g[S \ {x}] \in Int /\ f[x] \in Int /\ e[x] \in Int
      /\ g[S] = f[x] + g[S \ {x}] /\ h[S] = e[x] + h[S \ {x}]
  BY <1>1, <1>2, <1>5 DEF AnyFirst
<1> QED
  BY <1>1, <1>2, <1>6, <1>7

\* Nothing sums to nothing.
LEMMA SumOfZeros ==
    ASSUME NEW S, IsFiniteSet(S)
    PROVE  SumFunction([x \in S |-> 0]) = 0
<1> DEFINE z == [x \in S |-> 0]
<1>1. PICK g : SumsUpTo(g, z, SUBSET S) /\ SumFunction(z) = g[S]
  BY SumIs
<1> DEFINE Bad == {Cardinality(t) : t \in {r \in SUBSET S : g[r] # 0}}
<1>2. ASSUME NEW t \in SUBSET S
      PROVE  /\ Cardinality(t) \in Nat
             /\ t = {} => g[t] = 0
             /\ t # {} => /\ t \ {pick(t)} \in SUBSET S /\ g[t] = 0 + g[t \ {pick(t)}]
                          /\ Cardinality(t \ {pick(t)}) = Cardinality(t) - 1
  <2>1. IsFiniteSet(t) /\ Cardinality(t) \in Nat
    BY FS_Subset, FS_CardinalityType
  <2>2. g[t] = IF t = {} THEN 0 ELSE z[pick(t)] + g[t \ {pick(t)}]
    BY <1>1 DEF SumsUpTo
  <2>3. t # {} => pick(t) \in t /\ z[pick(t)] = 0 /\ Cardinality(t \ {pick(t)}) = Cardinality(t) - 1
    BY <2>1, FS_RemoveElement, PickIsOne
  <2> QED
    BY <2>1, <2>2, <2>3
<1>3. Bad = {}
  <2> SUFFICES ASSUME Bad # {} PROVE FALSE
    OBVIOUS
  <2>1. Bad \in SUBSET Nat
    BY <1>2
  <2>2. PICK n \in Bad : \A k \in Bad : n <= k
    BY <2>1, LeastNatural
  <2>3. PICK t \in SUBSET S : g[t] # 0 /\ Cardinality(t) = n
    OBVIOUS
  <2>4. t # {} /\ t \ {pick(t)} \in SUBSET S
    BY <1>2, <2>3
  <2>5. g[t \ {pick(t)}] # 0
    <3>1. g[t] = 0 + g[t \ {pick(t)}]
      BY <1>2, <2>4
    <3> QED
      BY <2>3, <3>1
  <2>6. Cardinality(t \ {pick(t)}) \in Bad /\ Cardinality(t \ {pick(t)}) = n - 1 /\ n \in Nat
    BY <1>2, <2>1, <2>3, <2>4, <2>5
  <2> QED
    BY <2>2, <2>6
<1> QED
  BY <1>1, <1>3

----------------------------------------------------------------------------
(* The supply.                                                             *)

\* init sets the supply to zero, so that there must be nothing to forget: a
\* token without an admin has no minter and nobody has tokens.
NothingBeforeInit ==
    tokenAdmin = None => minters = {} /\ balance = [a \in Addresses |-> 0]

SupplyInv == IInv /\ SupplyIsBacked /\ NothingBeforeInit

LEMMA AddressesAreFinite ==
    ASSUME IsFiniteSet(Users)
    PROVE  IsFiniteSet(Addresses)
  <1>1. Addresses = (Users \cup {MarketAddress}) \cup {RegistryAddress}
    BY DEF Addresses
  <1> QED BY <1>1, FS_AddElement

\* A mint adds as much to the balances as to the supply.
LEMMA MintBacked ==
    ASSUME OverflowChecks, IsFiniteSet(Users), TokenTypeOK, SupplyIsBacked, NothingBeforeInit,
           NEW caller, NEW to \in Addresses, NEW amount \in Int, Mint(caller, to, amount)
    PROVE  SupplyIsBacked' /\ NothingBeforeInit'
  <1>1. /\ balance \in [Addresses -> Amount] /\ balance' \in [Addresses -> Amount]
        /\ balance'[to] = balance[to] + amount
        /\ totalSupply' = totalSupply + amount
        /\ totalSupply \in Amount
    BY MintFacts DEF TokenTypeOK
  <1>2. \A a \in Addresses \ {to} : balance[a] = balance'[a]
    BY <1>1 DEF Mint
  <1>3. balance \in [Addresses -> Int] /\ balance' \in [Addresses -> Int]
    BY <1>1 DEF Amount
  <1>4. SumFunction(balance') = SumFunction(balance) - balance[to] + balance'[to]
    BY <1>2, <1>3, AddressesAreFinite, SumOfChange
  <1>5. balance[to] \in Int
    BY <1>3
  <1>6. SupplyIsBacked'
    BY <1>1, <1>4, <1>5 DEF SupplyIsBacked, Amount
  <1> QED BY <1>6 DEF Mint, NothingBeforeInit

\* A transfer takes from one balance what it gives to another, or leaves the
\* one balance as it was.
LEMMA TransferBacked ==
    ASSUME OverflowChecks, IsFiniteSet(Users), TokenTypeOK, SupplyIsBacked, NothingBeforeInit,
           NEW from \in Users, NEW to \in Addresses, NEW amount \in Int, Transfer(from, to, amount)
    PROVE  SupplyIsBacked' /\ NothingBeforeInit'
  <1> DEFINE debited == [balance EXCEPT ![from] = @ - amount]
  <1>1. /\ amount > 0 /\ balance[from] >= amount
        /\ debited[to] + amount <= MaxAmount
        /\ balance' = [debited EXCEPT ![to] = @ + amount]
        /\ UNCHANGED <<tokenAdmin, minters, totalSupply>>
    BY DEF Transfer, AddReturns, Plus
  <1>2. from \in Addresses /\ balance \in [Addresses -> Int] /\ balance[from] \in Int
    BY DEF Addresses, TokenTypeOK, Amount
  <1>3. /\ debited \in [Addresses -> Int] /\ debited[from] = balance[from] - amount
        /\ \A a \in Addresses \ {from} : balance[a] = debited[a]
    BY <1>2
  <1>4. SumFunction(balance) \in Int /\ SumFunction(debited) = SumFunction(balance) - balance[from] + debited[from]
    <2> HIDE DEF debited
    <2> QED BY <1>2, <1>3, AddressesAreFinite, SumOfChange
  <1> HIDE DEF debited
  <1>5. /\ balance' \in [Addresses -> Int] /\ balance'[to] = debited[to] + amount
        /\ \A a \in Addresses \ {to} : debited[a] = balance'[a]
    BY <1>1, <1>3
  <1>6. SumFunction(balance') = SumFunction(debited) - debited[to] + balance'[to]
    BY <1>3, <1>5, AddressesAreFinite, SumOfChange
  <1>7. debited[to] \in Int /\ debited[from] \in Int
    BY <1>2, <1>3
  <1>8. SumFunction(balance') = SumFunction(balance)
    BY <1>2, <1>3, <1>4, <1>5, <1>6, <1>7
  <1>9. SupplyIsBacked'
    BY <1>1, <1>8 DEF SupplyIsBacked
  <1>10. tokenAdmin # None
    <2>1. CASE tokenAdmin = None
      <3>1. balance[from] = 0
        BY <1>2, <2>1 DEF NothingBeforeInit
      <3> QED BY <1>1, <3>1
    <2> QED BY <2>1
  <1> QED BY <1>1, <1>9, <1>10 DEF NothingBeforeInit

\* The token's variables are all that matters.
LEMMA TokenStays ==
    ASSUME SupplyIsBacked, NothingBeforeInit, UNCHANGED tokenVars
    PROVE  SupplyIsBacked' /\ NothingBeforeInit'
  BY DEF SupplyIsBacked, NothingBeforeInit, tokenVars

LEMMA InitSupply ==
    ASSUME IsFiniteSet(Users), Init
    PROVE  SupplyInv
  <1> USE LedgerAssumption
  <1> DEFINE zeros == [a \in Addresses |-> 0]
  <1>1. SumFunction(zeros) = 0
    BY AddressesAreFinite, SumOfZeros
  <1>2. CASE Fresh
    BY <1>1, <1>2, InitIInv DEF Fresh, TokenInit, SupplyInv, SupplyIsBacked, NothingBeforeInit
  <1>3. ASSUME NEW l \in LegacyRecords, Upgraded(l)
        PROVE  SupplyInv
    <2>1. l \in LegacyRecord /\ Pools(l) \in Int /\ MarketAddress \in Addresses
      BY CompositionAssumption DEF LegacyRecord, Amount, Pools, Addresses
    <2>2. /\ balance = [a \in Addresses |-> IF a = MarketAddress THEN Pools(l) ELSE 0]
          /\ totalSupply = Pools(l) /\ tokenAdmin # None
      BY <1>3, CompositionAssumption DEF Upgraded, Addresses
    <2>3. /\ zeros \in [Addresses -> Int] /\ balance \in [Addresses -> Int]
          /\ zeros[MarketAddress] = 0 /\ balance[MarketAddress] = Pools(l)
          /\ \A a \in Addresses \ {MarketAddress} : zeros[a] = balance[a]
      BY <2>1, <2>2
    <2> HIDE DEF zeros
    <2>4. SumFunction(balance) = SumFunction(zeros) - zeros[MarketAddress] + balance[MarketAddress]
      BY <2>1, <2>3, AddressesAreFinite, SumOfChange
    <2>5. SumFunction(balance) = Pools(l)
      BY <1>1, <2>1, <2>3, <2>4
    <2> QED BY <2>2, <2>5, InitIInv DEF SupplyInv, SupplyIsBacked, NothingBeforeInit
  <1> QED BY <1>2, <1>3 DEF Init

LEMMA NextSupply ==
    ASSUME OverflowChecks, IsFiniteSet(Users)
    PROVE  SupplyInv /\ [Next]_vars => SupplyInv'
  <1> SUFFICES ASSUME SupplyInv, [Next]_vars
               PROVE  SupplyIsBacked' /\ NothingBeforeInit'
    BY NextIInv DEF SupplyInv
  <1>0. TokenTypeOK /\ SupplyIsBacked /\ NothingBeforeInit /\ None \notin Addresses
    BY LedgerAssumption DEF SupplyInv, IInv, TypeOK
  <1>1. CASE CallToken
    <2>1. ASSUME NEW a \in Admins, InitToken(a)
          PROVE  SupplyIsBacked' /\ NothingBeforeInit'
      <3>1. balance' = [b \in Addresses |-> 0] /\ totalSupply' = 0 /\ tokenAdmin' # None
        BY <1>0, <2>1, CompositionAssumption DEF InitToken, NothingBeforeInit, Addresses
      <3>2. SumFunction([b \in Addresses |-> 0]) = 0
        BY AddressesAreFinite, SumOfZeros
      <3> QED BY <3>1, <3>2 DEF SupplyIsBacked, NothingBeforeInit
    <2>2. ASSUME NEW a \in Users, NEW m \in Minters, AddMinter(a, m) \/ RemoveMinter(a, m)
          PROVE  SupplyIsBacked' /\ NothingBeforeInit'
      BY <1>0, <2>2 DEF AddMinter, RemoveMinter, SupplyIsBacked, NothingBeforeInit, Addresses
    <2>3. ASSUME NEW a \in Users, NEW to \in Addresses, NEW amount \in BetAmounts,
                 Mint(a, to, amount) \/ Transfer(a, to, amount)
          PROVE  SupplyIsBacked' /\ NothingBeforeInit'
      BY <1>0, <2>3, MintBacked, TransferBacked, CompositionAssumption
    <2> QED BY <1>1, <2>1, <2>2, <2>3 DEF CallToken
  <1>2. CASE CallMarket \/ CallRegistry \/ Tick \/ UNCHANGED vars
    BY <1>0, <1>2, TokenStays DEF CallMarket, CallRegistry, Tick, vars
  <1>3. ASSUME NEW u \in Users, NEW yes \in BOOLEAN, NEW amount \in BetAmounts,
               PlaceBet(u, yes, amount)
        PROVE  SupplyIsBacked' /\ NothingBeforeInit'
    BY <1>0, <1>3, TransferBacked, CompositionAssumption DEF PlaceBet, Addresses
  <1>4. ASSUME NEW u \in Users, ClaimWelcomeBonus(u)
        PROVE  SupplyIsBacked' /\ NothingBeforeInit'
    BY <1>0, <1>4, MintBacked, RegistryAssumption DEF ClaimWelcomeBonus, Addresses
  <1> QED BY <1>1, <1>2, <1>3, <1>4 DEF Next

\* No transaction creates or destroys tokens without the supply saying so,
\* for any finite number of users: not a transfer to oneself, nor the token's
\* init, which would forget the tokens there are.
THEOREM SupplyIsAlwaysBacked ==
    ASSUME OverflowChecks, IsFiniteSet(Users)
    PROVE  Spec => []SupplyIsBacked
  <1>1. Init => SupplyInv
    BY InitSupply
  <1>2. SupplyInv => SupplyIsBacked
    BY DEF SupplyInv
  <1> QED BY <1>1, <1>2, NextSupply, PTL DEF Spec

============================================================================
