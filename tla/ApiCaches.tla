------------------------------ MODULE ApiCaches ------------------------------
(***************************************************************************)
(* The caches in front of the indexer's database, in the API and in the     *)
(* decoder: lookup, a query when the value is missing, and a fill after it. *)
(* Other requests, updates of the row, evictions and BetPlaced events       *)
(* happen between those three steps.                                        *)
(*                                                                          *)
(* A copy of a row is current (stale = -1) or has been superseded for a     *)
(* number of ticks; a tick is a fraction of the shortest time to live.      *)
(***************************************************************************)
EXTENDS Integers, FiniteSets

CONSTANTS
  Readers,    \* concurrent requests that may miss
  Bets,       \* BetPlaced events in flight
  TTL,        \* time to live of an entry
  NegTTL,     \* time to live of a "not registered" entry
  MaxDelay    \* bound on the time a request or an event is under way

ASSUME CachesAssumption ==
  /\ TTL \in Nat \ {0} /\ NegTTL \in 1 .. TTL
  /\ MaxDelay \in Nat

------------------------------------------------------------------------------
(* The caches.  fromStart: an entry lives from the start of the request that *)
(* filled it, not from the fill.  negative: a missing row is cached, for a   *)
(* shorter time.  evicted: entries go before their time, by an event or for  *)
(* want of room.                                                            *)

Keys == {"market", "odds"}

distinctFunctionsCache == [fromStart |-> TRUE, negative |-> FALSE, evicted |-> FALSE, keys |-> {"market"}]
statsCache == [fromStart |-> TRUE, negative |-> FALSE, evicted |-> FALSE, keys |-> {"market"}]
statsRouterCache == [fromStart |-> TRUE, negative |-> FALSE, evicted |-> FALSE, keys |-> {"market"}]
getAbi == [fromStart |-> TRUE, negative |-> TRUE, evicted |-> FALSE, keys |-> {"market"}]
AbiTtlCache == [fromStart |-> FALSE, negative |-> TRUE, evicted |-> FALSE, keys |-> {"market"}]
contractMetaCache == [fromStart |-> FALSE, negative |-> TRUE, evicted |-> TRUE, keys |-> {"market"}]
AbiCache == [fromStart |-> FALSE, negative |-> FALSE, evicted |-> TRUE, keys |-> {"market"}]
AbiLruCache == [fromStart |-> FALSE, negative |-> FALSE, evicted |-> TRUE, keys |-> {"market"}]
metadataCache == [fromStart |-> FALSE, negative |-> FALSE, evicted |-> FALSE, keys |-> {"market"}]
marketCache == [fromStart |-> FALSE, negative |-> FALSE, evicted |-> TRUE, keys |-> Keys]

Caches ==
  {distinctFunctionsCache, statsCache, statsRouterCache, getAbi, AbiTtlCache, contractMetaCache,
   AbiCache, AbiLruCache, metadataCache, marketCache}

Cap == TTL + MaxDelay + 1
Stale == -1 .. Cap
Absent == [present |-> FALSE, reg |-> FALSE, stale |-> -1, left |-> 0, why |-> "none"]
Entry == [present : BOOLEAN, reg : BOOLEAN, stale : Stale, left : 0 .. TTL,
          why : {"none", "late", "silent", "bet"}]
Idle == [pc |-> "idle", key |-> "market", reg |-> FALSE, stale |-> -1, age |-> 0]
Request == [pc : {"idle", "query", "fill"}, key : Keys, reg : BOOLEAN, stale : Stale, age : 0 .. MaxDelay]
NoBet == [pc |-> "none", payload |-> {}, stale |-> -1, age |-> 0]
Bet == [pc : {"none", "purge", "market", "odds", "repurge", "remarket", "reodds"},
        payload : SUBSET Keys, stale : Stale, age : 0 .. MaxDelay]

VARIABLES
  cache,       \* which of the caches this behaviour is about
  registered,  \* the row exists
  entries,     \* the cache's content
  readers,     \* requests under way
  bets         \* BetPlaced events under way, with the totals they carry

cacheVars == <<cache, registered, entries, readers, bets>>

CachesTypeOK ==
  /\ cache \in Caches
  /\ registered \in BOOLEAN
  /\ entries \in [Keys -> Entry]
  /\ readers \in [Readers -> Request]
  /\ bets \in [Bets -> Bet]

CachesInit ==
  /\ cache \in Caches
  /\ registered = FALSE
  /\ entries = [k \in Keys |-> Absent]
  /\ readers = [r \in Readers |-> Idle]
  /\ bets = [b \in Bets |-> NoBet]

------------------------------------------------------------------------------
(* The database row changes.                                                *)

Older(s) == IF s = -1 THEN 0 ELSE s

Superseded(why) ==
  /\ entries' = [k \in Keys |->
       IF entries[k].present /\ entries[k].stale = -1
       THEN [entries[k] EXCEPT !.stale = 0, !.why = why] ELSE entries[k]]
  /\ readers' = [r \in Readers |->
       IF readers[r].pc = "fill" THEN [readers[r] EXCEPT !.stale = Older(@)] ELSE readers[r]]

\* A change that tells no cache: also the oracle handlers' invalidateMarketCache does
\* nothing yet.
Update ==
  /\ registered' = TRUE
  /\ Superseded("silent")
  /\ bets' = [b \in Bets |-> IF bets[b].pc = "none" THEN NoBet
                             ELSE [bets[b] EXCEPT !.stale = Older(@)]]
  /\ UNCHANGED cache

\* A bet changes the totals, and its event is posted with some of the new values.
PlaceBet(b, payload) ==
  /\ cache = marketCache /\ bets[b].pc = "none"
  /\ registered' = TRUE
  /\ Superseded("bet")
  /\ bets' = [c \in Bets |->
       IF c = b THEN [pc |-> "purge", payload |-> payload, stale |-> -1, age |-> 0]
       ELSE IF bets[c].pc = "none" THEN NoBet ELSE [bets[c] EXCEPT !.stale = Older(@)]]
  /\ UNCHANGED cache

------------------------------------------------------------------------------
(* A request.                                                               *)

Lookup(r, k) ==
  /\ readers[r].pc = "idle" /\ k \in cache.keys /\ ~entries[k].present
  /\ readers' = [readers EXCEPT ![r] = [Idle EXCEPT !.pc = "query", !.key = k]]
  /\ UNCHANGED <<cache, registered, entries, bets>>

Query(r) ==
  /\ readers[r].pc = "query"
  /\ readers' = [readers EXCEPT ![r].pc = "fill", ![r].reg = registered, ![r].stale = -1]
  /\ UNCHANGED <<cache, registered, entries, bets>>

\* A query that fails goes to the caller, and nothing is cached.  The decoder takes it for an
\* answer, "not registered", and caches that: a copy that is out of date from the start, if
\* the row exists.
LookupFails(r) ==
  /\ readers[r].pc = "query"
  /\ readers' = [readers EXCEPT ![r] =
       IF cache = contractMetaCache
         THEN [@ EXCEPT !.pc = "fill", !.reg = FALSE, !.stale = IF registered THEN 0 ELSE -1]
         ELSE Idle]
  /\ UNCHANGED <<cache, registered, entries, bets>>

Written(copy, left) ==
  [present |-> left > 0, reg |-> copy.reg, stale |-> copy.stale, left |-> left,
   why |-> IF copy.stale >= 0 THEN "late" ELSE "none"]

\* Mutant: the time to live is counted from the fill by all caches.
LifeFromFill(copy) ==
  IF copy.reg \/ ~cache.negative THEN TTL ELSE NegTTL

\* How long an entry that is filled now has to live.
Life(copy) ==
  LET ttl == IF copy.reg \/ ~cache.negative THEN TTL ELSE NegTTL
      age == IF cache.fromStart THEN copy.age ELSE 0
  IN IF age < ttl THEN ttl - age ELSE 0

\* A missing row is only cached by the caches that remember what is not registered,
\* and by those whose query always has an answer.
Fill(r) ==
  LET copy == readers[r]
      kept == copy.reg \/ cache.negative \/ cache.fromStart
      life == Life(copy)
  IN /\ copy.pc = "fill"
     /\ entries' = IF ~kept THEN entries
                   ELSE [entries EXCEPT ![copy.key] =
                           IF life = 0 THEN Absent ELSE Written(copy, life)]
     /\ readers' = [readers EXCEPT ![r] = Idle]
     /\ UNCHANGED <<cache, registered, bets>>

\* evictContractMeta on the explorer's update event, or the cache is full.
Evict(k) ==
  /\ cache.evicted /\ entries[k].present
  /\ entries' = [entries EXCEPT ![k] = Absent]
  /\ UNCHANGED <<cache, registered, readers, bets>>

------------------------------------------------------------------------------
(* handleBetPlacedEvent: delete both keys, then write what the payload has.  *)
(* The API handles the posted event and publishes it to all instances, which *)
(* handle it once more.                                                     *)

NextStep ==
  [purge |-> "market", market |-> "odds", odds |-> "repurge",
   repurge |-> "remarket", remarket |-> "reodds", reodds |-> "none"]

Advance(b) ==
  LET next == NextStep[bets[b].pc]
  IN bets' = [bets EXCEPT ![b] = IF next = "none" THEN NoBet ELSE [@ EXCEPT !.pc = next]]

\* Mutant: only the market's own key is deleted.
invalidateMarketKey(b) ==
  /\ bets[b].pc \in {"purge", "repurge"}
  /\ entries' = [entries EXCEPT !["market"] = Absent]
  /\ Advance(b)
  /\ UNCHANGED <<cache, registered, readers>>

invalidateMarketCache(b) ==
  /\ bets[b].pc \in {"purge", "repurge"}
  /\ entries' = [k \in Keys |-> Absent]
  /\ Advance(b)
  /\ UNCHANGED <<cache, registered, readers>>

prewarmCache(b, k) ==
  /\ bets[b].pc = k \/ bets[b].pc = (IF k = "market" THEN "remarket" ELSE "reodds")
  /\ entries' = IF k \in bets[b].payload
                THEN [entries EXCEPT ![k] =
                        Written([reg |-> TRUE, stale |-> bets[b].stale], TTL)]
                ELSE entries
  /\ Advance(b)
  /\ UNCHANGED <<cache, registered, readers>>

------------------------------------------------------------------------------
(* Time.                                                                    *)

Later(s) == IF s = -1 THEN -1 ELSE IF s < Cap THEN s + 1 ELSE s

Tick ==
  /\ \A r \in Readers : readers[r].age < MaxDelay \/ readers[r].pc = "idle"
  /\ \A b \in Bets : bets[b].age < MaxDelay \/ bets[b].pc = "none"
  /\ entries' = [k \in Keys |->
       IF entries[k].left <= 1 THEN Absent
       ELSE [entries[k] EXCEPT !.left = @ - 1, !.stale = Later(@)]]
  /\ readers' = [r \in Readers |-> IF readers[r].pc = "idle" THEN Idle
       ELSE [readers[r] EXCEPT !.age = @ + 1, !.stale = Later(@)]]
  /\ bets' = [b \in Bets |-> IF bets[b].pc = "none" THEN NoBet
       ELSE [bets[b] EXCEPT !.age = @ + 1, !.stale = Later(@)]]
  /\ UNCHANGED <<cache, registered>>

CachesNext ==
  \/ Update \/ Tick
  \/ \E r \in Readers : Query(r) \/ LookupFails(r) \/ Fill(r) \/ \E k \in Keys : Lookup(r, k)
  \/ \E k \in Keys : Evict(k)
  \/ \E b \in Bets : \/ \E payload \in SUBSET Keys : PlaceBet(b, payload)
                     \/ invalidateMarketCache(b)
                     \/ \E k \in Keys : prewarmCache(b, k)

CachesSpec == CachesInit /\ [][CachesNext]_cacheVars

------------------------------------------------------------------------------
(* Properties.                                                              *)

\* No cache serves a value longer than its time to live after it was superseded, plus,
\* where the entry lives from its fill, the time the filling request or event took:
\* however fills, evictions, updates and events overlap.  A value that was never true, the
\* decoder's "not registered" for a query that failed, counts from that query, so each such
\* entry is gone after the short time to live; the next query may fail again.
StaleBound ==
  \A k \in Keys :
    LET e == entries[k]
        ttl == IF e.reg \/ ~cache.negative THEN TTL ELSE NegTTL
    IN e.present => e.stale < ttl + (IF cache.fromStart THEN 0 ELSE MaxDelay)

\* When the events of all bets have been handled, nothing is cached that was current
\* before one of them: an entry that is out of date was so when it was written, by a
\* request or event that was overtaken, or missed a change that has no event.
BetPurges ==
  (\A b \in Bets : bets[b].pc = "none") => \A k \in Keys : entries[k].why # "bet"
==============================================================================
