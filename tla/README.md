# A verification of PERO-J

PERO-J is an explorer and prediction market on Soroban (Stellar): four Rust
contracts, an indexer that copies contract events into PostgreSQL and serves
them, a daemon that resolves expired markets from external data, a React
frontend and operations tooling. This directory models the parts that keep
state and run concurrently or across failures, checks them with TLC on small
instances and proves the most important results with TLAPS for every instance.

`PROJECT.json` holds the same information for tools: components, runs, the map
from definitions to source lines, mutants, findings, hazards and theorems.
Paths below are relative to `src/`.

    tlc -config Contracts.cfg MCContracts                   # a run
    tlapm PredictionMarketProofs.tla                        # the proofs of a module

## 1. Inventory

| Component | State | Operations | Hard behaviour | What makes it correct |
|---|---|---|---|---|
| `contracts/ipredict_token` | admin, minters, balances, supply | init, add/remove_minter, mint, transfer | i128 arithmetic; self transfer | supply = sum of balances, no wrap-around |
| `contracts/market` | admin, token, registry, paused, market, legacy record, first bets | init, pause, migrate, place_bet, submit_outcome, challenge_outcome | calls into two other contracts in one transaction; an upgrade that finds old data | pools are paid for, the market never goes back |
| `contracts/referral_registry` | registrations, points | init, register, record_first_bet, claim_welcome_bonus | cooldown, called by one contract and calling another | bonus once, atomically, when earned |
| `contracts/explorer` | admin, allowlist, council, registry, event log, betting pools | about ten entry points, `place_bet` | limits; lists against maps; two copies of a counter; saturating arithmetic | council invariant, revocation, exact list, event count, a bet refused only for a reason |
| `oracle/src` | `markets.status`; a daemon's position in its poll | poll, claim, determine, submit, mark, release | several daemons, failing queries, late transactions, shutdown | one daemon per market, only true outcomes, every expired market settled |
| `indexer/src/index.js`, `reorg.js` | cursor in memory, window of ledger hashes | start, fetch, store, route, finish, detect a fork, roll back | replay after any failure, restart, a fork in the middle of a pass | no ledger skipped, every ledger indexed, the window is the chain's |
| `indexer/src/handlers`, `router` | submissions, disputes, markets, bets, claims, balances | one handler per event | several queries per event, replay, two callers with one event | tables converge to what the chain says, books agree |
| `indexer/src/backfill.js` | checkpoint | backfill a range of ledgers | (cannot be run at this commit) | no ledger of the range is missed |
| `indexer/src/dlq-worker.js`, `dataProvider.js` | retry counts, token bucket | batch, dispatch, mark; request, retry | overlapping timers, a crash between dispatch and mark, retry for ever | each item comes to rest |
| `indexer/src/bond-escrow-worker.js`, `monitors` | sent alerts, circuit breaker | check, page, resolve; audit, trip | pairs of reads that belong to different moments, overlapping audits, one request of several failing | alarms that mean something and are not lost |
| `indexer/src` caches | Redis, LRU and TTL entries | look up, query, fill, invalidate, prewarm | a stale fill after an invalidation, a failed lookup cached as an answer | bounded staleness |
| `indexer/src/oracle.js` | consumed nonces, evidence | verify, record | two requests with one nonce, lost answers | a nonce is used once, one bundle per submission |
| `indexer/src/api.js`, `db.js` reads | (the tables) | lists by cursor and by page | rows inserted between pages, a query that fails | no row is missed |
| `frontend/src/bets` | list of bets, rendered list, settled bets | place, confirm, roll back | event stream against confirmation timeout | a landed bet is not shown as failed |
| `frontend/src/pages/DisputePage.tsx`, `api.ts`, `useNetworkStatus` | dispute shown, on-chain banner, connection chip | poll, fall back, connect | answers out of order, of another market, after leaving | the page shows what was asked for and catches up |
| `backend/scripts/rotate-secrets.ts` | secret store, roles, account signers | rotate, finalize, restore | crash between any two steps, failing rollout | never without a working key |
| `backend/status-page`, `backend/shared`, `infra/monitoring/synthetic` | latest results, rate limiter | tick, probe, alert | endpoints that change during a round, overlapping rounds | an outage that lasts is shown and alerted |
| decoding, other pages, scripts | (none of their own) | | | presentation, conversion, I/O |

How they interact. The market calls the token (payment) and the registry (first
bet); the registry calls the token (bonus): each call chain is one atomic
transaction. The oracle daemons share the markets table with each other and
submit to the market contract through the command line client. The indexer reads
the events of the contracts and writes the tables that the API, the monitors and
the frontend read.

Some of the sources do not build as they are in this commit. They are read as
follows:

* `indexer/src/index.js`, `indexLedger` (93-169) mixes three versions. The fetch
  loop (93-118) is complete; in the loop over the events the lines 132-140 and
  171-235 use names that do not exist (`res`, `decoded`, `batch`). The model is the
  version that the names which do exist make up: each event is decoded, stored by
  `db.upsertEvent` (141) and routed to its handler (151-168); the function returns
  the latest ledger (240), after which `run` (319-325) moves the cursor.
* Functions that are called and not in the repository are taken to do what their
  callers and comments say, and are external in the map: `db.rollbackToLedger`,
  `recordLedger` and `getIndexedLedgers` (reorg), `isNonceConsumed` and
  `recordOracleNonce` (attestations), `getBondAccounting` (escrow), `insertDeadLetter`, and
  the queries of the claim, fee and reward handlers (`insertClaim`, `getUserBalance`, ...).
  The dead-letter table is the one the worker's queries name (`resolved`,
  `next_retry_at`), which is not the one of `db.ts`.
* `pages/DisputePage.tsx` imports a `fetchDispute` that `api.ts` does not export; it is
  read as the other reads of `api.ts`: backend first, chain as fallback.
* `index.js:342` refers to an undefined `lockLost`; the line is not modelled.
* `contracts/explorer/src/lib.rs` uses `DataKey::Council` and
  `Error::InvalidThreshold` without declaring them; the council is modelled as
  the functions use it.
* `router/registry.js`: `dispatchContractEvent` is called by tests only. `indexLedger` stores
  an event and routes the three oracle events, and nothing hands an event to the handlers
  of claims, fees, bets and reward points. Their model has callers that are external.
* `backfill.js` asks for `db.getBackfillCheckpoint` and `setBackfillCheckpoint`, which do not
  exist, and hands `indexLedger` a third argument (`onlyLedger`) that it does not take. It is
  not modelled.
* `bond-escrow-worker.js`: the only instance (266) is constructed without
  `getContractBalance`, its database lacks `getBondAccounting`, and `start()` is called by
  nothing; the routes of `api.js:410-420` make an audit when asked. The variable `wired` says
  whether a worker has both; both kinds are checked.
* `api.js`: `createApp` redirects every path under `/api` that is not under `/api/v1` (226-234),
  and `v1Router` (236), which has the routes of `/api/v1`, is mounted by nothing in `src/`; its
  tests presuppose that it is. As it stands, all its routes are unreachable, and so are the
  routes that are declared on `/api` after the redirect (`/api/markets/stream`, 532,
  `/api/events/:seq/raw`, 566, token metadata, the oracle's attestations, 686-687), which are
  answered 301. The reads, caches and attestations are modelled as their handlers are written;
  what this does to the chip's stream is part of `LiveStream`. For the same reason the bets'
  event stream does not arrive at this commit: `BetFlow` lets every event be lost.
* `contracts/market/src/test.rs` tests a different contract (fees, limits,
  payouts); `lib.rs` is the reference.
* The daemon passes `market_id`, `outcome` and `bond` to a `submit_outcome` that
  takes `admin` and `yes` and holds one market. The daemon's model takes from the
  contract what both agree on: a market takes one outcome and refuses a second.

## 2. Modules

### Contracts

`Ledger` declares what the contracts share: addresses, the absent entry, the range
of an i128 (`MaxAmount` stands for its maximum) and addition in the two builds a
manifest may ask for. A contract call is a transaction, so an entry point is one
action: its checks are the guard, its writes the primed variables, a call to
another contract a conjoined action, so that a panic undoes everything.

* `IPredictToken`: `InitToken`, `AddMinter`, `RemoveMinter`, `Mint`, `Transfer`.
* `Market`: `InitMarket`, `Pause`, `Unpause`, `Migrate`, `SubmitOutcome`,
  `ChallengeOutcome` and the market's own half of `place_bet`. `load_market` falls
  back to the legacy record as the code does.
* `ReferralRegistry`: `InitRegistry`, `Register`, `RecordFirstBet` and the
  registry's half of `claim_welcome_bonus`.
* `PredictionMarket` composes them: `PlaceBet` joins market, token and registry,
  `ClaimWelcomeBonus` registry and token. It starts from a fresh deployment or
  from an upgrade that found a legacy record (`Fresh`, `Upgraded`).
* `BettingPool`: the explorer contract's `place_bet` and `compute_odds` with their
  saturating arithmetic, and the bet slip of `lib/slippage.ts` that reads the odds
  and later sends a bet with the lowest odds it accepts. `calculateMinOdds` works in
  floating point; the model lets it be one lower where the product is whole, which is
  how far it deviates for whole percentages.
* `ExplorerContract`: every other entry point. The contract's `Vec`s
  are sequences, so that freedom from duplicates is a result and not an
  assumption. The two storage copies of `EventSeq` are two variables.

Left out: TTL extension and expiry of entries, published contract events, views.

### Oracle daemon

`OracleAutoSubmitter` has one process per running `daemon.js`. Every `await` ends
an action. `pollOnce` takes a snapshot of the open expired rows (`Poll`) and visits
them in the order of `ends_at`; `submitExpiredMarket` is `Claim`, `Determine`,
`Submit`, `Mark`, or `Release` from the catch block. Each has a failing twin: a
failing query may have been executed, a failing submission may land later
(`Land`). `Stop` is the shutdown handler, which does not wait for the market at
hand, `Restart` the container's restart policy. Adapters answer arbitrarily,
except that the ones in `Honest` report the truth or fail.

`MarketResolution` is the abstract specification: each market is waiting, being
worked on, done or lost, and has at most one outcome, an admissible one. Its moves
are `Expire`, `Begin`, `Settle`, `GiveUp`, `Finish` and `Lose`; no daemon, poll, query or
adapter is left. `OracleAutoSubmitter` states the mapping (`Phase`: a market is working
while a daemon holds its claim, lost when its row says `submitting` and nobody holds
it) and `ResolutionIsImplemented`, which is both model-checked and proved. An expired
market may be settled in every phase, because a submission that was
given up may land at any later time.

### Indexer

`Indexer` is the loop of `run`, `indexLedger` and the three oracle handlers, one
action per query. `GetLatestLedger` begins a pass, `FetchPage` fetches `PageSize` events at
a time, and `LedgerChanged` throws all pages away when a ledger closed meanwhile;
`StoreEvent` inserts the event and enters its handler; `InsertSubmission`,
`FindSubmission`, `InsertDispute`, `UpdateStatus` and `UpsertMarket` are the
handlers' queries; `FinishPass` moves the cursor. `FetchFails`, `StoreEventFails` and
`FinishPassFails` throw into the loop, which repeats the pass; `HandlerFails` is
swallowed by the handler. `Crash` may come between any two queries. The chain only
grows here; forks are in `Reorg`.

* `Reorg`: the loop of `run` over a chain that may replace its last ledgers at any
  step. `FetchHashes` and `Compare` are `detectReorg`, then `RollbackToLedger`, the pass, and
  the recording of its last ledger. A ledger's hash is the number of forks there
  had been.
* `EventHandlers`: the router's choice and the bet, claim, fee and reward handlers, one action
  per query, for two callers that hand over the same events and start again from the first
  after a failure (as two indexers on one database would; at this commit there is no caller).
  A bet is one transaction (`InsertBet`, `UpdateTotals`, `Commit`) with the row locks that
  PostgreSQL gives it; the others are not.
* `DeadLetters`: rows of `dlq_events` and overlapping batches that select, dispatch and
  mark; `DataProvider`: requests that share a token bucket, time out, are limited or
  fail, with the attempts as the code counts them.
* `Attestations`: concurrent requests with attestations (checks, nonce, signature,
  record) and with evidence bundles, whose answers may be lost and which are then
  sent again.

### Reading through the API

* `EventPages`: the six paginated lists, each with its own sort key, filter and
  cursor, and a reader that walks one by cursor or by page number while rows are
  inserted and contracts renamed. Times have microseconds, cursors milliseconds. A query
  may fail: `getMarkets` and `getBets` answer that as the end of the list
  (`CursorQueryFails`), a page of the frontend that gives up shows none and disables "Next"
  (`PageQueryFails`).
* `ApiCaches`: the caches differ only in a few parameters (time to live of a positive
  and a negative entry, whether it runs from the start of the request, whether an
  event evicts); each is a record of these, and one module models lookup, query, failing
  lookup (which the decoder caches as "not registered", `decoder.js:57`), fill, eviction,
  update, bet event and prewarming for all of them.

### Operations

* `RotateSecrets`: the secret store, the two database roles, the account's signers and
  the pods that read the store when they start. Every await of the command is a
  step; it may die after each, a rollout may stop half way and the restoration with
  it.
* `StatusPage`: endpoints that change at any time, a round whose probes each look at
  their own moment, and the summary. `SyntheticProbes`: overlapping rounds of the probe
  runner and the notifier's rate limiter and webhooks.
* `DisputeMonitors`: disputes and bonds on chain, the council's inactivity monitor with
  PagerDuty, and the escrow worker with its circuit breaker: audits overlap, each reading
  the accounting and then the balance; without `getContractBalance` (`wired` is FALSE), or
  when it fails, the expected holdings are taken for the actual ones. Amounts stay below
  2^53, so that the conversions keep them.

### Frontend betting flow

`BetFlow` is one browser session of `frontend/src/bets`. `placeBet` is `PlaceBet`,
`Signed` (the bet is shown), the four answers of `sendBetTransaction`, and the three
ends of `waitForConfirmation`; at most one runs at a time (`inFlightRef`), so `pc`
is its program counter. `pendingBets` is React's state and `betsRef` what was last
rendered: `Render` copies one to the other, and the stream's callback and the bet
slip see only the copy. `confirmBet` and `rollbackBet` both go through
`settledRef`. `StreamEvent` may be lost. The network is external: a transaction it
took succeeds, fails or expires at any time, also after the wait gave up (45 s
against a validity of 180 s).

`DisputeView` is the page of a dispute: polls that overlap, each with headers, body,
timeout and fallback of its own, a user who goes to another market meanwhile, and the
module-wide on-chain banner. `LiveStream` is the stream of events and the chip that follows
it (`useNetworkStatus`), with the route as the tests presuppose it and as it is at this commit
(`v1Mounted`); the browser's `EventSource` is external. The stream of market updates
(`useMarketStream`) asks for a route that is not served and is not modelled.

The `MC` modules name model values and, where a run covers parts that share no state,
compose them as a sum: a variable (`subject`, `service`) says which part a behaviour is
about, and the others stay in their initial state. Every interleaving within a part is
explored; interleavings between parts that have nothing in common are not. The `.cfg`
files hold the bounds.

## 3. Runs

| Run | Shows |
|---|---|
| `contracts` | 1.3 million states. `SupplyIsBacked`, `MarketSolvent`, `BonusIsEarnedOnce`, `MarketOnlyAdvances`, `LateRegistrationLocksOut` (market, token, registry), `CouncilInvariant`, `ListMatchesRegistry`, `RevocationIsComplete` (explorer contract), `RefusedForAReason` (betting pool) |
| `market_migration` (violation) | `MigrationKeepsTheMarket`: a legacy market that was bet on before `migrate` is called loses the bets |
| `contract_overflow` (violation) | `AmountsNeverWrap`: with the profile Cargo really uses (the members' `[profile.release]` is ignored in a workspace) sums wrap |
| `explorer_events` (violation) | `EventCountIsStored`: the counter that is read is never advanced |
| `oracle_daemon` | 68 thousand states. `ClaimIsExclusive`, `NoWrongOutcome`, `ResolutionIsImplemented` (the refinement), `ExpiredIsSettledOrStuck` |
| `indexer` | 234 thousand states. `NothingIsSkipped`, `ReplayConverges`, `LatestSubmissionAgrees`, `LedgersAreIndexed` |
| `indexer_resume` (violation) | `NothingIsSkipped` without `START_LEDGER`: a restart leaves a hole |
| `indexer_services` | 402 thousand states. `BooksAgree` (handlers), `AcceptedOnce` (attestations), `WindowIsCurrent` (forks), `DeadLettersEnd`, `RequestsEnd` |
| `indexer_balances` (violation) | `ClaimsAreCredited`: a claim that is recorded and not credited, without any fee withdrawn |
| `api_reads` | 1.1 million states. `WalkIsComplete` (lists), `StaleBound`, `BetPurges` (caches) |
| `frontend` | 230 thousand states. `MessagesAreTrue`, `SettledForGood`, `PendingIsResolved` (bets), `ShownIsThisMarket`, `ViewCatchesUp` (dispute page), `LiveIsLive` (chip) |
| `operations` | 383 thousand states. `StoredSecretsWork`, `ServicesKeepWorking`, `OrphansStay` (rotation), `OutageIsShown`, `DownIsAlerted` (status page, probes), `SentIsOpen`, `InactivityIsPaged`, `AuditIsRight` (monitors) |

Several properties hold only with an exception that the code makes necessary, and
state it: it was found by TLC with the exception left out.

* `RefusedForAReason`: odds rounded to 0, saturated pools.
* `MarketOnlyAdvances`: a stale migration.
* `ExpiredIsSettledOrStuck`: the two stuck states.
* `ReplayConverges`, `LatestSubmissionAgrees`: an error that a handler swallowed.
* `LedgersAreIndexed`: passes that are overtaken by closing ledgers for ever. A backlog of more
  pages than are fetched between two ledgers is started over each time.
* `WindowIsCurrent`: ledgers between recorded ones, hashes fetched after a fork.
* `RequestsEnd`: server errors, a body that never ends.
* `WalkIsComplete`: rows of one millisecond, lists without a complete order, and failing queries
  that were answered as the end of the list.
* `StaleBound` bounds the life of every entry that is not the row's, one that never was included
  (a failed lookup); it does not say that there is none. `BetPurges` is about what is in the
  cache when a bet is placed: an entry that a request read before and filled in after the
  purge may stay until it expires.
* `ShownIsThisMarket`: until the first answer the page shows the dispute of the market before.
* `LiveIsLive`: after an HTTP error the chip says "reconnecting" for good. At this commit every
  request is answered with one.
* `ServicesKeepWorking`: a command that starts with pods out of step with the store, and clients
  that have not taken the new key when `--overlap` is over, which the command does not look at.
* `AuditIsRight`: an audit that a bond, a failing query or a stale record disturbed. Of a worker
  that cannot read the balance it says the contrary: such a worker never raises the alarm.
* `InactivityIsPaged`: only transient failures; a request to PagerDuty that fails each time keeps
  all alerts behind it from being sent.

Every property of a passing run has a mutant in `PROJECT.json`, a plausible bug of
the code that violates it; the mutated definitions stand before the originals in
the modules and are used nowhere else.

Bounds and why they are enough.

* `contracts`: in the market two users (a bettor and a referrer, an admin and an outsider),
  amounts to a small `MaxAmount` that minting reaches, so that additions at the limit happen,
  one cooldown of time; in the pool an i128 whose maximum is 20 and 5 basis points to a whole,
  so that odds of 0, saturated sums and saturated products all occur with two stakes; in the
  explorer contract three users, a council of three (thresholds 1 to 3 and one beyond), an
  allowlist of two that fills up, two ids.
* `oracle_daemon`: two daemons, three markets (two adapters, one, none), two
  failures: one for the submission and one for the release or a shutdown, which
  is what reaches both stuck states. Markets expire in the order of `ends_at`.
* `indexer`: three ledgers, of which two are closed before the start, up to two
  events each (two submissions with different outcomes, a dispute, a
  finalization after an irrelevant event), two failures or crashes, so that a
  replay can itself be interrupted. A page holds two events, so that a pass takes up to
  four requests. A ledger beyond the bound may close in the middle of a pass. Deadlock is
  not checked because the bounded chain stops and the caught-up indexer waits for a ledger.
* `indexer_services`: four logs of three events (repeated bets on both sides, claims around a
  fee, unregistered and malformed events) and two callers, two failures; two dead letters in
  two batches; two requests with one nonce; two callers and two retries; four ledgers, two
  forks, a window of two, so that a fork falls below, into and between recorded ledgers.
* `api_reads`: four rows with two sort keys and three instants, two to a millisecond,
  pages of one row; two readers of a cache, one bet, times to live of three and one
  ticks, requests that take one.
* `operations`: two rolled pods (a rollout stops half way) and one that is not, three
  commands, two failures: a command that dies, and one that runs over what it left;
  eight states of the endpoints; two targets, two overlapping rounds, a limiter of four
  alerts in two intervals, which two rounds fill; two disputes, one escalation
  time, one failure; two audits at a time, of a worker with and without a balance to look at.
* `frontend`, dispute page and streams: two markets, two requests in flight, a dispute that
  changes once; one HTTP error, and a route that is mounted or not. Bets: three, so that a bet
  is placed while an earlier one that timed out can still land and its event is still to come;
  the code's two retries. Deadlock is not checked because the bets of the session are bounded.

Fairness. `oracle_daemon` assumes that a running daemon's queries and commands
settle, one way or the other, and that a stopped daemon is restarted (`docker-compose.yml`:
`restart: unless-stopped`); failures are bounded by `MaxFaults` and never forced.
`indexer` assumes the same of its process; ledgers need not close.
`frontend` assumes of the bets that requests settle, the deadline passes and React renders, and
nothing of the network, the stream or the user. That requests settle is an assumption about
the RPC server and the browser: `sendTransaction` and `getTransaction` have no timeout of
their own, and the deadline of `submit.ts:153-157` is looked at only between two polls. Of the
dispute page it assumes that its timer fires and a request, which has a timeout, ends; of a
stream that the browser tries to connect, notices a lost connection and delivers what arrived.
`indexer_services` assumes that the worker's timer fires, its queries settle and backoffs
end, and that time passes for the provider's bucket and requests get their headers or
their timeout; it does not assume that a body ends, because no timeout covers it.
`operations` assumes that intervals elapse and requests end. Those of the probes have
timeouts; the posts of alerts to the webhooks (`notifier.ts:254-280`) and to PagerDuty have
none and are assumed to be answered in the end. Nobody has to vote, leak, record, make an
audit or run a command, and no failure has to happen. The contracts, the rotation, the escrow
worker, the attestations and the reads have no liveness properties: nobody has to call them.

## 4. Findings

1. `migrate` overwrites a newer market with the legacy record (`market_migration`).
2. Whoever bets before registering can never claim the bonus; a later bet is not
   reported (`contracts`, `LateRegistrationLocksOut`).
3. Overflow checks are configured where Cargo does not read them
   (`contract_overflow`).
4. `submit_event` writes one copy of the counter and reads the other: every event
   has number 0 (`explorer_events`).
5. A claimed market is not released "on any failure": the abstract specification
   needs `Lose`, and no step leaves the phase lost (`oracle_daemon`).
   `ExpiredIsSettledOrStuck` shows that the other way to get stuck is an outcome
   that is on chain and not recorded: the contract refuses every retry.
6. The indexer does not resume: `setCursor` has no caller (`indexer_resume`).
7. A bet that lands after its confirmation timed out is never shown again
   (`frontend`, `SettledForGood`), although the page promises to reconcile it.
8. Odds are said to be 1 to 10 000 basis points and can be 0, below those of an empty
   side; a protected bet on such a side is always refused (`contracts`,
   `RefusedForAReason`).
9. A second `db` rotation after one that died before the rollout changes the password
   the pods log in with (`operations`, `ServicesKeepWorking`).
10. A hot-wallet rotation that dies between the transaction and the store leaves a
   signer for good (`operations`, `OrphansStay`).
11. Cursors lose microseconds; `getEvents` cuts by one key and sorts by another; the
   leaderboard's cursor reads a date as the count 0 (`api_reads`, `WalkIsComplete`).
12. `cache.js`'s `invalidateMarketCache` does nothing: freshness is the time to live, not
   "within 5 seconds" (`api_reads`, `StaleBound`).
13. Nothing but tests calls the router of claims, fees, bets and reward points, and its
   handlers throw their errors on, although said not to stop the indexer
   (`indexer_services`, `BooksAgree` is about what they would do).
14. Unparseable events are not stored: `persistDlqEvent` uses names that `insertDlqEvent`
   does not know (`indexer_services`, `DeadLettersEnd`).
15. A server error does not count as an attempt (`indexer_services`, `RequestsEnd`).
16. A fork is found at the first *recorded* ledger, one per pass (`indexer_services`,
   `WindowIsCurrent`).
17. An `EventSource` that is answered with an HTTP error is not opened again, and the
   stream's route is in a router that nothing mounts, so that this is every request
   (`frontend`, `LiveIsLive`).
18. A ledger that closes while a pass fetches makes it throw away all its pages and start
   over: a backlog longer than that is never passed (`indexer`, `LedgersAreIndexed`).
19. "Skips duplicate event records" it does not: the table of events has no constraint for
   the insert's `ON CONFLICT` to meet, and a pass that is repeated stores its events again
   (`indexer`; `ReplayConverges` shows that the oracle tables do not suffer from it).
20. A claim may be recorded and not credited (`indexer_balances`).
21. The escrow worker as the repository constructs it compares the record with itself
   (`operations`, `AuditIsRight`).
22. A failing query is answered as the end of the list of markets or bets (`api_reads`,
   `WalkIsComplete`).

Noted without a run: nobody emits the `market_update` that `api.js:556` forwards.
`DisputePage` keeps the dispute of the market before until the first answer. A fallback
that ends after the backend has answered again turns the banner on (`api.ts:212`). The
status page reports "unknown" for an oracle without `ORACLE_URL`. The backfill's `onlyLedger`
is ignored by `indexLedger`. The branch of
`remove_council_member` that resets the threshold is never reached
(`CouncilStays`). `update_contract` is said to be for the "original
registrant", but `registered_by` is what the caller wrote. `rollbackBet` shows its
error even when the stream has confirmed the bet before, so that a confirmed bet
may be followed by "Timed out".

## 5. Proofs

Every invariant and every safety action property of the passing runs is a theorem, for every
value of the constants that satisfies the modules' named assumptions (`LedgerAssumption`,
`MarketAssumption`, ... `ViewAssumption`; TLC evaluates all of them in the runs). The
assumptions say of what sort a constant is, that "no record" is not a record, and that the
roster of the council is finite. What a theorem needs beyond them is a hypothesis in its
statement and is named below. Where a run composes independent components (`indexer_services`,
`operations`, `api_reads`, `frontend`, `contracts`), the theorem is about the component's own
specification (`ExplorerSpec`, `HandlersSpec`, `RotateSpec`, ...); the run leaves the
component's variables alone or takes one of its steps.

* `PredictionMarketProofs`, under the hypothesis `OverflowChecks` (without it
  `contract_overflow` is a counterexample): `TypeCorrect`, `Solvency`, `EarnedOnce`,
  `ClaimIsAtomic`, `OnlyAdvances`, `LockedOutForEver`. The inductive invariant (`IInv`)
  adds that the stored market *and* the legacy record are covered by the market's balance,
  because `migrate` may bring the latter back; that a record exists only when there is an
  admin, so that `init` cannot replace a market that is in use; and that a registration
  which says "has bet" is right. `SupplyIsAlwaysBacked`, for finitely many users: nobody
  has a token or may mint before the token has an admin, which is why `init` forgets
  nothing. What a transfer does to the sum of the balances cannot be proved by induction
  here; the lemmas about sums take the least prefix of the addresses at which the claim
  fails (`LeastNatural`) and refute it.
* `ExplorerContractProofs`: `ExplorerTypes`, `CouncilIsSound`, `CouncilStays`,
  `RevocationHolds`, `ListIsExact`. The invariant adds that allowlist, council and
  contract list hold no element twice: it makes `first_index_of` the only position, so
  that one removal is enough. Three lemmas say what `RemoveAt` and `Append` do to such a
  sequence. `ProtectedBetHolds` and `PoolTypeCorrect`, of the betting pool: while nobody
  has bet against a quoted slip, and no sum is saturated, the pool still gives its side
  the odds it asks for, or odds of 0 (`SlipHolds`); lemmas about integer division show it
  for every width and stake.
* `OracleAutoSubmitterProofs`: `OracleTypes`, `ExclusiveClaims`,
  `OneHonestAdapterSuffices`, `RecordsAreTrue`, `StuckStaysStuck` and
  `OracleImplementsResolution`. The invariant adds that a market somebody works on is not
  open (this is what makes the claim exclusive), that a daemon about to record has its
  outcome on chain, and that outcomes in hand or in flight were vouched for by every
  adapter. The refinement needs one more fact (`WorkIsExpired`: what a daemon works on, or
  has sent, has expired). Its steps are sorted by what they do to the phases: `SamePhases`
  for those that are stutters, `IdleMoves` and `HolderMoves` for those of a daemon without
  and with a claim, `SettlingIsAStep` for an outcome that gets on chain, and `OnePhase`
  shows that a daemon that leaves a market changes no other market's phase, because claims
  are exclusive.
* `IndexerProofs`, for `START_LEDGER # 0` (with 0 the run `indexer_resume` is a
  counterexample). `NothingIsEverSkipped`: everything below the cursor is stored,
  everything fetched in this pass is stored or still to do, and the cursor is at most one
  beyond the chain, so that a ledger that closes adds nothing below it.
  `ReplayAlwaysConverges` and `LatestSubmissionAlwaysAgrees` need `RInv`: the events of a
  pass are processed in the chain's order (`PassInOrder`); a handler between two queries
  has read the row it is about to change (`HandlerPlace`); and while no failure was
  swallowed (`Converging`), every submission that was dealt with has a row, and a market's
  row and the row its disputes find are what its last event made them, *unless an event
  still ahead, perhaps once more after a restart, puts them right*. Where nothing is
  ahead, the two invariants are what is left. `IndexerTypes` needs `Lookback < MaxLedger`
  as well, because the chain starts with `Lookback + 1` ledgers, which the bound has to
  allow.
* `IndexerServicesProofs`. `AttestationsAcceptedOnce`: a request that is past its checks
  has a body that passed them (`ValidatedBefore`), and nothing is answered before there is
  a bundle on record. `ReorgWindowIsCurrent`: a recorded hash has its events in the table
  unless it raced with a fork (`RecordedHasRows`), and in a pass without forks and
  failures the hashes below the fork point, and after the rollback all of them, are the
  chain's (`CalmPass`). `HandlersBooksAgree`, for any number
  of logs of any length: a bet counts in the totals when, and only when, its row is new
  (`NewBets`), and the balance, with every copy of it that a handler has read and not yet
  written, leaves room for all that is due (`DuesAreBacked`).
* `OperationsProofs`. `MonitorsSentIsOpen`, for a finite roster: an alert that was sent is
  of a dispute that was opened, and when the check in progress did not see that dispute,
  it is decided and stays so (`CouncilInv`). `MonitorsAuditIsRight`, for finitely many
  disputes and any audits that overlap: what the escrow holds are the bonds of the active
  disputes less the one that leaked, and an undisturbed audit expects just those bonds
  (`EscrowInv`); for a worker without a balance, that no step trips the breaker
  (`UnwiredVerdict`). `RotateStoredSecretsWork`,
  `RotateServicesKeepWorking`, `RotateOrphansStay`, for any pods and any number of
  commands and crashes. `RotateInv` says which steps each command can be at
  (`CommandSteps`), that signers are older than a secret just drawn (`SignersAreOld`),
  that the URL, keys and wallet in the store work (`StoreIsSound`), which URL a `db`
  command leaves behind, whether it succeeds or restores (`DbRun`), that what a pod has
  read still works (`PodsAreServed`), when pods are in step with the store (`PodsInStep`),
  and that a key is finalized only after the clients have the new one (`FinalizeIsSafe`),
  the last three for commands that started clean, which includes that the clients take the
  new key before `--overlap` is over. The attempt found an overlap of two
  cases of `AfterRollout` in the model, which TLC had decided by their order; they are now
  exclusive.
* `ReadsProofs`. `ViewShowsThisMarket` (a request in flight is of the market on the page, or
  cancelled, and once a poll was answered the page shows this market's), `CachesStaleBound`
  (the time an entry has been out of date and the time it has left fit into its bound,
  `EntriesExpire`) and `CachesBetPurges` (an entry that a bet has superseded waits for a purge
  that is still to come; entries filled late are not among them). `PagesWalkIsComplete`, for
  any page length and any rows: `PagesInv` says that what was read by cursor is not beyond it,
  and what was not read is (`CursorDivides`, but for rows that share a millisecond with the
  end of a page, or come after a query that failed), and that a row not yet read by page
  number has a rank of a page to come (`PagesToCome`). Its lemmas say what a slice of a sorted
  sequence holds and what a row's rank is (`RankIsAbove`).
* `BetFlowProofs`: `BetFlowTypes`, `UserIsToldTheTruth`, `FirstSettlementStands`. The
  invariant adds that nothing was said about a bet before it was sent, and that a
  confirmed bet is settled; two lemmas say what `confirmBet` and `rollbackBet` do, and are
  used by every action that calls them.

`TypeCorrect`, `ExplorerTypes`, `OracleTypes`, `IndexerTypes`, `BetFlowTypes`,
`ClaimIsAtomic` (`BonusIsAtomic`), `CouncilStays` (`CouncilIsNeverDissolved`),
`StuckStaysStuck` (`StuckForEver`) and `RecordsAreTrue` (`RecordedIsOnChain`), and the
type theorems of the pool, the attestations, forks, handlers, monitors (for finitely many
disputes), rotation, dispute page, caches and lists are proved and no part of a run; an
`INVARIANT` or `PROPERTY` line in the module's `.cfg` checks them.

Only model-checked: the liveness properties (`LedgersAreIndexed`,
`ExpiredIsSettledOrStuck`, `PendingIsResolved`, `ViewCatchesUp`, `LiveIsLive`,
`DeadLettersEnd`, `RequestsEnd`, `OutageIsShown`, `DownIsAlerted`, `InactivityIsPaged`),
because fairness and `ENABLED` are out of the prover's reach, and the type
invariants of the modules that have only such properties (`DeadLetters`, `DataProvider`,
`LiveStream`, `StatusPage`, `SyntheticProbes`). The runs that expect a violation are
counterexamples and need no proof.

## 6. Not modelled, and the plan

Not modelled: decoding and formatting of XDR and ABI data, authentication, health and
metrics routes, single-row reads, the pages that render one answer, shell scripts and
dashboards: conversions and I/O without state. `drift-detector.js` compares two readings
and keeps none. The indexer's on-chain submission of events (`index.js:171-235`) uses
names that do not exist and cannot be read as one program. The older
`contracts/ipredict-token` is called by nothing.

What is left, in this order:

1. What the liveness properties rest on, as invariants and theorems: what a dead letter, a
   request, a probe or a stream may be waiting for, so that a step of it is never lost.
2. A refinement for the indexer: "a prefix of the chain has been applied, and perhaps some of
   the next events"; `RInv` has the facts it needs.
3. Refinements for the rotation ("one of two credentials is in force") and for the bet flow
   ("a bet is settled once").
