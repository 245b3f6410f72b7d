----------------------------- MODULE ReadsProofs -----------------------------
(***************************************************************************)
(* What a reader is shown, for any number of requests, delays and times to   *)
(* live: the page of a dispute, whose requests overlap and are answered in   *)
(* any order, the caches in front of the indexer's database, and its lists,   *)
(* read page by page while rows are inserted.                                *)
(***************************************************************************)
EXTENDS DisputeView, ApiCaches, EventPages, FiniteSetTheorems, NaturalsInduction, WellFoundedInduction, TLAPS

------------------------------------------------------------------------------
(* The page of a dispute.  A request is either of the market the user is at   *)
(* or has been cancelled by the cleanup of its effect.                       *)

PollsHaveMarkets == \A p \in Polls : poll[p].pc # "idle" => poll[p].market \in Markets

PollsAreCurrent ==
  \A p \in Polls : poll[p].pc # "idle" /\ ~poll[p].cancelled =>
    market # NoMarket /\ poll[p].market = market

ViewInv == ViewTypeOK /\ PollsHaveMarkets /\ PollsAreCurrent /\ ShownIsThisMarket

LEMMA ViewTypes ==
  ASSUME ViewInv
  PROVE  /\ poll \in [Polls -> Poll] /\ truth \in [Markets -> 0 .. MaxVersion]
         /\ market \in Markets \cup {NoMarket} /\ error \in BOOLEAN /\ answered \in BOOLEAN
         /\ \A m \in Markets : m # NoMarket
         /\ 0 \in 0 .. MaxVersion
BY ViewAssumption, NoMarketAssumption DEF ViewInv, ViewTypeOK

LEMMA ViewInitial == ViewInit => ViewInv
<1> SUFFICES ASSUME ViewInit PROVE ViewInv
  OBVIOUS
<1>1. 0 \in 0 .. MaxVersion
  BY ViewAssumption
<1>2. IdlePoll \in Poll /\ IdlePoll.pc = "idle"
  BY <1>1 DEF IdlePoll, Poll
<1>3. NoDispute \in [market : Markets \cup {NoMarket}, version : 0 .. MaxVersion]
  BY <1>1 DEF NoDispute
<1>4. ViewTypeOK
  BY <1>1, <1>2, <1>3 DEF ViewInit, ViewTypeOK
<1>5. PollsHaveMarkets /\ PollsAreCurrent /\ ShownIsThisMarket
  BY <1>2 DEF ViewInit, PollsHaveMarkets, PollsAreCurrent, ShownIsThisMarket
<1> QED BY <1>4, <1>5 DEF ViewInv

\* The requests after the cleanup of the effect: none that counts is left.
LEMMA CancelledFacts ==
  ASSUME ViewInv
  PROVE  /\ Cancelled \in [Polls -> Poll]
         /\ \A p \in Polls : Cancelled[p].pc # "idle" =>
              Cancelled[p].cancelled /\ Cancelled[p].market \in Markets
<1>1. poll \in [Polls -> Poll] /\ 0 \in 0 .. MaxVersion
  BY ViewTypes
<1>2. IdlePoll \in Poll /\ IdlePoll.pc = "idle"
  BY <1>1 DEF IdlePoll, Poll
<1>3. ASSUME NEW p \in Polls
      PROVE  Cancelled[p] \in Poll
             /\ (Cancelled[p].pc # "idle" => Cancelled[p].cancelled /\ Cancelled[p].market \in Markets)
  <2>1. CASE poll[p].pc = "idle"
    BY <1>2, <2>1 DEF Cancelled
  <2>2. CASE poll[p].pc # "idle"
    <3> DEFINE r == [poll[p] EXCEPT !.cancelled = TRUE]
    <3>1. r \in Poll /\ r.cancelled /\ r.market = poll[p].market
      BY <1>1 DEF Poll
    <3>2. Cancelled[p] = r
      BY <2>2 DEF Cancelled
    <3>3. poll[p].market \in Markets
      BY <2>2 DEF ViewInv, PollsHaveMarkets
    <3> QED BY <3>1, <3>2, <3>3
  <2> QED BY <2>1, <2>2
<1> QED BY <1>3 DEF Cancelled

LEMMA NewPollFacts ==
  ASSUME ViewInv, NEW m \in Markets
  PROVE  /\ NewPoll(m) \in Poll /\ NewPoll(m).pc = "backend"
         /\ NewPoll(m).market = m /\ ~NewPoll(m).cancelled
BY ViewTypes DEF NewPoll, IdlePoll, Poll

\* A request goes on; it stays a request of its market.
LEMMA GoesOn ==
  ASSUME ViewInv, NEW p \in Polls, poll[p].pc # "idle", NEW r \in Poll,
         r.market = poll[p].market, r.cancelled = poll[p].cancelled,
         poll' = [poll EXCEPT ![p] = r], onChainMode' \in BOOLEAN,
         UNCHANGED <<backend, chainUp, truth, market, dispute, error, answered>>
  PROVE  ViewInv'
<1>1. poll \in [Polls -> Poll]
  BY ViewTypes
<1>2. poll' \in [Polls -> Poll] /\ \A q \in Polls : poll'[q] = IF q = p THEN r ELSE poll[q]
  BY <1>1
<1>3. ViewTypeOK'
  BY <1>2 DEF ViewInv, ViewTypeOK
<1>4. PollsHaveMarkets' /\ PollsAreCurrent' /\ ShownIsThisMarket'
  BY <1>2 DEF ViewInv, PollsHaveMarkets, PollsAreCurrent, ShownIsThisMarket
<1> QED BY <1>3, <1>4 DEF ViewInv

\* A request ends, with a result or with an error.
LEMMA Ends ==
  ASSUME ViewInv, NEW p \in Polls, poll[p].pc # "idle", Finish(p), Show(p) \/ ShowError(p),
         onChainMode' \in BOOLEAN, UNCHANGED <<backend, chainUp, truth, market>>
  PROVE  ViewInv'
<1>1. poll \in [Polls -> Poll] /\ 0 \in 0 .. MaxVersion
  BY ViewTypes
<1>2. IdlePoll \in Poll /\ IdlePoll.pc = "idle"
  BY <1>1 DEF IdlePoll, Poll
<1>3. poll' \in [Polls -> Poll] /\ \A q \in Polls : poll'[q] = IF q = p THEN IdlePoll ELSE poll[q]
  BY <1>1, <1>2 DEF Finish
<1>4. /\ poll[p].market \in Markets \cup {NoMarket} /\ poll[p].version \in 0 .. MaxVersion
      /\ ~poll[p].cancelled => market # NoMarket /\ poll[p].market = market
  BY <1>1 DEF Poll, ViewInv, PollsAreCurrent
<1>5. \/ UNCHANGED <<dispute, error, answered>>
      \/ /\ dispute' = [market |-> market, version |-> poll[p].version]
         /\ error' = FALSE /\ answered' = TRUE
      \/ error' = TRUE /\ answered' = TRUE /\ UNCHANGED dispute
  <2>1. CASE poll[p].cancelled
    BY <2>1 DEF Show, ShowError
  <2>2. CASE ~poll[p].cancelled
    BY <1>4, <2>2 DEF Show, ShowError
  <2> QED BY <2>1, <2>2
<1>6. ViewTypeOK'
  <2>1. dispute' \in [market : Markets \cup {NoMarket}, version : 0 .. MaxVersion]
    BY <1>4, <1>5, ViewTypes DEF ViewInv, ViewTypeOK
  <2>2. error' \in BOOLEAN /\ answered' \in BOOLEAN
    BY <1>5, ViewTypes
  <2> QED BY <1>3, <2>1, <2>2 DEF ViewInv, ViewTypeOK
<1>7. PollsHaveMarkets' /\ PollsAreCurrent'
  BY <1>2, <1>3 DEF ViewInv, PollsHaveMarkets, PollsAreCurrent
<1>8. ShownIsThisMarket'
  <2>1. market' = market
    OBVIOUS
  <2>2. CASE UNCHANGED <<dispute, error, answered>>
    BY <2>1, <2>2 DEF ViewInv, ShownIsThisMarket
  <2>3. CASE dispute' = [market |-> market, version |-> poll[p].version]
    BY <2>1, <2>3 DEF ShownIsThisMarket
  <2>4. CASE error' = TRUE
    BY <2>4 DEF ShownIsThisMarket
  <2> QED BY <1>5, <2>2, <2>3, <2>4
<1> QED BY <1>6, <1>7, <1>8 DEF ViewInv

LEMMA RequestGoesOn ==
  ASSUME ViewInv, NEW p \in Polls, RequestStep(p)
  PROVE  ViewInv'
<1>1. /\ poll \in [Polls -> Poll] /\ poll[p] \in Poll /\ onChainMode \in BOOLEAN
      /\ poll[p].pc # "idle" => truth[poll[p].market] \in 0 .. MaxVersion
  BY ViewTypes DEF ViewInv, ViewTypeOK, PollsHaveMarkets
<1>2. CASE Headers(p) \/ ChainAnswers(p)
  <2>1. PICK x \in {"body", "result"} :
          /\ poll' = [poll EXCEPT ![p].pc = x, ![p].version = truth[poll[p].market]]
          /\ poll[p].pc # "idle" /\ onChainMode' \in BOOLEAN
          /\ UNCHANGED <<backend, chainUp, truth, market, dispute, error, answered>>
    BY <1>1, <1>2 DEF Headers, ChainAnswers
  <2> DEFINE r == [poll[p] EXCEPT !.pc = x, !.version = truth[poll[p].market]]
  <2>2. r \in Poll /\ r.market = poll[p].market /\ r.cancelled = poll[p].cancelled
    BY <1>1, <2>1 DEF Poll
  <2>3. poll' = [poll EXCEPT ![p] = r]
    BY <1>1, <2>1
  <2> HIDE DEF r
  <2> QED BY <2>1, <2>2, <2>3, GoesOn
<1>3. CASE BackendFails(p)
  <2> DEFINE r == [poll[p] EXCEPT !.pc = "chain"]
  <2>1. r \in Poll /\ r.market = poll[p].market /\ r.cancelled = poll[p].cancelled
    BY <1>1 DEF Poll
  <2>2. /\ poll' = [poll EXCEPT ![p] = r] /\ poll[p].pc # "idle"
        /\ UNCHANGED <<backend, chainUp, truth, market, dispute, error, answered, onChainMode>>
    BY <1>1, <1>3 DEF BackendFails
  <2> HIDE DEF r
  <2> QED BY <1>1, <2>1, <2>2, GoesOn
<1>4. CASE BodyArrives(p) \/ BackendRefuses(p) \/ FallbackEnds(p) \/ ChainFails(p)
  <2>1. /\ poll[p].pc # "idle" /\ Finish(p) /\ (Show(p) \/ ShowError(p)) /\ onChainMode' \in BOOLEAN
        /\ UNCHANGED <<backend, chainUp, truth, market>>
    BY <1>1, <1>4 DEF BodyArrives, BackendRefuses, FallbackEnds, ChainFails
  <2> QED BY <2>1, Ends
<1> QED BY <1>2, <1>3, <1>4 DEF RequestStep

LEMMA ViewStep == ViewInv /\ [ViewNext]_viewVars => ViewInv'
<1> SUFFICES ASSUME ViewInv, [ViewNext]_viewVars PROVE ViewInv'
  OBVIOUS
<1>1. CASE UNCHANGED viewVars
  BY <1>1 DEF viewVars, ViewInv, ViewTypeOK, PollsHaveMarkets, PollsAreCurrent, ShownIsThisMarket
<1>2. ASSUME NEW b \in {"up", "down", "refuses"}, BackendChanges(b)
      PROVE  ViewInv'
  BY <1>2 DEF BackendChanges, ViewInv, ViewTypeOK, PollsHaveMarkets, PollsAreCurrent, ShownIsThisMarket
<1>3. CASE ChainChanges
  BY <1>3 DEF ChainChanges, ViewInv, ViewTypeOK, PollsHaveMarkets, PollsAreCurrent, ShownIsThisMarket
<1>4. ASSUME NEW m \in Markets, DisputeChanges(m)
      PROVE  ViewInv'
  <2>1. truth[m] \in 0 .. MaxVersion /\ truth[m] < MaxVersion
    BY <1>4, ViewTypes DEF DisputeChanges
  <2>2. truth' \in [Markets -> 0 .. MaxVersion]
    <3>1. truth[m] + 1 \in 0 .. MaxVersion
      BY <2>1, ViewAssumption
    <3> QED BY <1>4, <3>1, ViewTypes DEF DisputeChanges
  <2> QED BY <1>4, <2>2
          DEF DisputeChanges, ViewInv, ViewTypeOK, PollsHaveMarkets, PollsAreCurrent, ShownIsThisMarket
<1>5. ASSUME NEW m \in Markets, NEW p \in Polls, Visit(m, p)
      PROVE  ViewInv'
  <2>1. /\ market' = m /\ answered' = FALSE /\ m # NoMarket
        /\ poll' = [Cancelled EXCEPT ![p] = NewPoll(m)]
        /\ UNCHANGED <<backend, chainUp, truth, dispute, error, onChainMode>>
    BY <1>5, ViewTypes DEF Visit
  <2>2. /\ poll' \in [Polls -> Poll]
        /\ \A q \in Polls : poll'[q] = IF q = p THEN NewPoll(m) ELSE Cancelled[q]
    BY <2>1, CancelledFacts, NewPollFacts
  <2>3. ViewTypeOK'
    BY <2>1, <2>2 DEF ViewInv, ViewTypeOK
  <2>4. PollsHaveMarkets' /\ PollsAreCurrent'
    BY <2>1, <2>2, CancelledFacts, NewPollFacts DEF PollsHaveMarkets, PollsAreCurrent
  <2>5. ShownIsThisMarket'
    BY <2>1 DEF ShownIsThisMarket
  <2> QED BY <2>3, <2>4, <2>5 DEF ViewInv
<1>6. CASE Leave
  <2>1. /\ market' = NoMarket /\ answered' = FALSE /\ poll' = Cancelled
        /\ dispute' = NoDispute /\ error' = FALSE
        /\ UNCHANGED <<backend, chainUp, truth, onChainMode>>
    BY <1>6 DEF Leave
  <2>2. NoDispute \in [market : Markets \cup {NoMarket}, version : 0 .. MaxVersion]
    BY ViewTypes DEF NoDispute
  <2>3. ViewTypeOK'
    BY <2>1, <2>2, CancelledFacts DEF ViewInv, ViewTypeOK
  <2>4. PollsHaveMarkets' /\ PollsAreCurrent' /\ ShownIsThisMarket'
    BY <2>1, CancelledFacts DEF PollsHaveMarkets, PollsAreCurrent, ShownIsThisMarket
  <2> QED BY <2>3, <2>4 DEF ViewInv
<1>7. ASSUME NEW p \in Polls, PollTimer(p)
      PROVE  ViewInv'
  <2>1. /\ market \in Markets /\ market # NoMarket /\ poll \in [Polls -> Poll]
        /\ poll' = [poll EXCEPT ![p] = NewPoll(market)]
        /\ UNCHANGED <<backend, chainUp, truth, market, dispute, error, answered, onChainMode>>
    BY <1>7, ViewTypes DEF PollTimer
  <2>2. /\ poll' \in [Polls -> Poll]
        /\ \A q \in Polls : poll'[q] = IF q = p THEN NewPoll(market) ELSE poll[q]
    BY <2>1, NewPollFacts
  <2>3. ViewTypeOK'
    BY <2>1, <2>2 DEF ViewInv, ViewTypeOK
  <2>4. PollsHaveMarkets' /\ PollsAreCurrent' /\ ShownIsThisMarket'
    BY <2>1, <2>2, NewPollFacts
       DEF ViewInv, PollsHaveMarkets, PollsAreCurrent, ShownIsThisMarket
  <2> QED BY <2>3, <2>4 DEF ViewInv
<1> QED BY <1>1, <1>2, <1>3, <1>4, <1>5, <1>6, <1>7, RequestGoesOn DEF ViewNext

\* DisputePage.tsx: once a request for the market the user is at has been answered, an answer to
\* a request for a market they have left, however late it is and from whichever source, is not
\* shown under this one's name.  Until that first answer the page goes on showing the dispute of
\* the market before.
THEOREM ViewShowsThisMarket == ViewSpec => []ShownIsThisMarket
<1>1. ViewInv => ShownIsThisMarket
  BY DEF ViewInv
<1> QED BY <1>1, ViewInitial, ViewStep, PTL DEF ViewSpec

\* The page, its requests and the sources have their types.
THEOREM ViewTypeCorrect == ViewSpec => []ViewTypeOK
<1>1. ViewInv => ViewTypeOK
  BY DEF ViewInv
<1> QED BY <1>1, ViewInitial, ViewStep, PTL DEF ViewSpec

------------------------------------------------------------------------------
(* The caches.                                                              *)

\* How long an entry that has just been filled may live, and how long it may be out of date.
LifeOf(reg) == IF reg \/ ~cache.negative THEN TTL ELSE NegTTL
Bound(reg) == LifeOf(reg) + (IF cache.fromStart THEN 0 ELSE MaxDelay)

\* A copy under way has been superseded for no longer than it is under way.
CopiesAge ==
  /\ \A r \in Readers : readers[r].stale <= readers[r].age
  /\ \A b \in Bets : bets[b].stale <= bets[b].age

OnlyMarketHasBets == \A b \in Bets : bets[b].pc # "none" => cache = marketCache

\* The time an entry has been out of date and the time it has left fit together.
EntriesExpire ==
  \A k \in Keys : entries[k].present =>
    /\ entries[k].left >= 1 /\ entries[k].left <= LifeOf(entries[k].reg)
    /\ entries[k].stale + entries[k].left <= Bound(entries[k].reg)

\* An entry that a bet has superseded waits for the first purge of that bet's event.
PurgeToCome ==
  \A k \in Keys : entries[k].why = "bet" => \E b \in Bets : bets[b].pc = "purge"

CachesInv ==
  /\ CachesTypeOK /\ CopiesAge /\ OnlyMarketHasBets /\ EntriesExpire /\ PurgeToCome

LEMMA CacheFacts ==
  /\ TTL \in Nat /\ TTL >= 1 /\ NegTTL \in Nat /\ NegTTL >= 1 /\ NegTTL <= TTL /\ MaxDelay \in Nat
  /\ Cap \in Nat /\ Cap = TTL + MaxDelay + 1
  /\ \A c \in Caches : c.fromStart \in BOOLEAN /\ c.negative \in BOOLEAN
  /\ marketCache.fromStart = FALSE /\ marketCache.negative = FALSE
<1>1. /\ TTL \in Nat /\ TTL >= 1 /\ NegTTL \in Nat /\ NegTTL >= 1 /\ NegTTL <= TTL /\ MaxDelay \in Nat
  BY CachesAssumption
<1>2. Cap \in Nat /\ Cap = TTL + MaxDelay + 1
  BY <1>1 DEF Cap
<1>3. \A c \in Caches : c.fromStart \in BOOLEAN /\ c.negative \in BOOLEAN
  <2> DEFINE Kind == [fromStart : BOOLEAN, negative : BOOLEAN, evicted : BOOLEAN, keys : SUBSET Keys]
  <2>1. {"market"} \subseteq Keys
    BY DEF Keys
  <2>2. distinctFunctionsCache \in Kind /\ statsCache \in Kind /\ statsRouterCache \in Kind
    BY <2>1 DEF distinctFunctionsCache, statsCache, statsRouterCache
  <2>3. getAbi \in Kind /\ AbiTtlCache \in Kind /\ contractMetaCache \in Kind
    BY <2>1 DEF getAbi, AbiTtlCache, contractMetaCache
  <2>4. AbiCache \in Kind /\ AbiLruCache \in Kind /\ metadataCache \in Kind /\ marketCache \in Kind
    BY <2>1 DEF AbiCache, AbiLruCache, metadataCache, marketCache
  <2>5. Caches \subseteq Kind
    BY <2>2, <2>3, <2>4 DEF Caches
  <2> QED BY <2>5
<1> QED BY <1>1, <1>2, <1>3 DEF marketCache

LEMMA CacheTypes ==
  ASSUME CachesInv
  PROVE  /\ cache \in Caches /\ cache.fromStart \in BOOLEAN /\ cache.negative \in BOOLEAN
         /\ registered \in BOOLEAN /\ entries \in [Keys -> Entry]
         /\ readers \in [Readers -> Request] /\ bets \in [Bets -> Bet]
BY CacheFacts DEF CachesInv, CachesTypeOK

\* The values out of which entries and copies are made.
LEMMA BlankFacts ==
  /\ Absent \in Entry /\ Absent.present = FALSE /\ Absent.why = "none"
  /\ Idle \in Request /\ Idle.stale = -1 /\ Idle.age = 0 /\ Idle.pc = "idle"
  /\ NoBet \in Bet /\ NoBet.pc = "none" /\ NoBet.stale = -1 /\ NoBet.age = 0
  /\ Idle.stale <= Idle.age /\ NoBet.stale <= NoBet.age
<1>1. -1 \in Stale /\ 0 \in 0 .. TTL /\ 0 \in 0 .. MaxDelay
  BY CacheFacts DEF Stale
<1>2. Absent \in Entry /\ Absent.present = FALSE /\ Absent.why = "none"
  BY <1>1 DEF Absent, Entry
<1>3. Idle \in Request /\ Idle.stale = -1 /\ Idle.age = 0 /\ Idle.pc = "idle"
  BY <1>1 DEF Idle, Request, Keys
<1>4. NoBet \in Bet /\ NoBet.pc = "none" /\ NoBet.stale = -1 /\ NoBet.age = 0
  BY <1>1 DEF NoBet, Bet
<1>5. Idle.stale <= Idle.age /\ NoBet.stale <= NoBet.age
  BY <1>3, <1>4
<1> QED BY <1>2, <1>3, <1>4, <1>5

\* Times of a copy: an integer, and no more than Cap after a change or a tick.
LEMMA StaleFacts ==
  ASSUME NEW x \in Stale
  PROVE  /\ x \in Int /\ Older(x) \in Stale /\ Later(x) \in Stale
         /\ x <= Later(x) /\ Later(x) <= x + 1 /\ x <= Older(x) /\ Older(x) >= 0 /\ (x >= 0 => Older(x) = x)
         /\ (x = -1 => Older(x) = 0)
BY CacheFacts DEF Stale, Older, Later

LEMMA LifeFacts ==
  ASSUME CachesInv, NEW reg
  PROVE  /\ LifeOf(reg) \in Nat /\ LifeOf(reg) >= 1 /\ LifeOf(reg) <= TTL
         /\ Bound(reg) \in Nat /\ LifeOf(reg) <= Bound(reg) /\ Bound(reg) < Cap
BY CacheFacts, CacheTypes DEF LifeOf, Bound

LEMMA CachesInitial == CachesInit => CachesInv
<1> SUFFICES ASSUME CachesInit PROVE CachesInv
  OBVIOUS
<1>1. CachesTypeOK
  BY BlankFacts DEF CachesInit, CachesTypeOK
<1>2. CopiesAge /\ OnlyMarketHasBets /\ EntriesExpire /\ PurgeToCome
  BY BlankFacts DEF CachesInit, CopiesAge, OnlyMarketHasBets, EntriesExpire, PurgeToCome
<1> QED BY <1>1, <1>2 DEF CachesInv

\* An entry fits the bounds.
Fits(e) ==
  e.present => /\ e.left >= 1 /\ e.left <= LifeOf(e.reg)
               /\ e.stale + e.left <= Bound(e.reg)

LEMMA EntryFits ==
  ASSUME CachesInv, NEW k \in Keys
  PROVE  entries[k] \in Entry /\ Fits(entries[k])
BY CacheTypes DEF CachesInv, EntriesExpire, Fits

\* A change of the row marks what is current now: none of the bounds is touched.
LEMMA SupersededFacts ==
  ASSUME CachesInv, NEW why \in {"silent", "bet"}, Superseded(why), UNCHANGED cache
  PROVE  /\ entries' \in [Keys -> Entry] /\ \A k \in Keys : Fits(entries'[k])
         /\ \A k \in Keys : entries'[k].why \in {entries[k].why, why}
         /\ readers' \in [Readers -> Request]
         /\ \A r \in Readers : readers'[r].stale <= readers'[r].age
<1>1. ASSUME NEW k \in Keys
      PROVE  /\ entries'[k] \in Entry /\ Fits(entries'[k]) /\ entries'[k].why \in {entries[k].why, why}
  <2>1. entries[k] \in Entry /\ Fits(entries[k])
    BY EntryFits
  <2>2. CASE entries[k].present /\ entries[k].stale = -1
    <3> DEFINE e == [entries[k] EXCEPT !.stale = 0, !.why = why]
    <3>1. 0 \in Stale
      BY CacheFacts DEF Stale
    <3>2. /\ e \in Entry /\ e.why = why /\ e.stale = 0 /\ e.left = entries[k].left
          /\ e.reg = entries[k].reg /\ e.present = entries[k].present
      BY <2>1, <3>1 DEF Entry
    <3>3. entries'[k] = e
      BY <2>2 DEF Superseded
    <3> HIDE DEF e
    <3>4. entries[k].left \in Int /\ entries[k].left <= LifeOf(entries[k].reg)
      BY <2>1, <2>2, CacheFacts DEF Entry, Fits
    <3>5. Fits(e)
      BY <2>1, <2>2, <3>2, <3>4, LifeFacts DEF Fits
    <3> QED BY <3>2, <3>3, <3>5
  <2>3. CASE ~(entries[k].present /\ entries[k].stale = -1)
    BY <2>1, <2>3 DEF Superseded
  <2> QED BY <2>2, <2>3
<1>2. ASSUME NEW r \in Readers
      PROVE  readers'[r] \in Request /\ readers'[r].stale <= readers'[r].age
  <2>1. readers[r] \in Request /\ readers[r].stale <= readers[r].age
    BY CacheTypes DEF CachesInv, CopiesAge
  <2>2. CASE readers[r].pc = "fill"
    <3> DEFINE c == [readers[r] EXCEPT !.stale = Older(@)]
    <3>1. readers[r].stale \in Stale /\ readers[r].age \in 0 .. MaxDelay
      BY <2>1 DEF Request
    <3>2. c \in Request /\ c.stale = Older(readers[r].stale) /\ c.age = readers[r].age
      BY <2>1, <3>1, StaleFacts DEF Request
    <3>3. readers'[r] = c
      BY <2>2 DEF Superseded
    <3> HIDE DEF c
    <3>4. Older(readers[r].stale) <= readers[r].age
      BY <2>1, <3>1, CacheFacts DEF Older, Stale
    <3> QED BY <3>2, <3>3, <3>4
  <2>3. CASE readers[r].pc # "fill"
    BY <2>1, <2>3 DEF Superseded
  <2> QED BY <2>2, <2>3
<1> QED BY <1>1, <1>2 DEF Superseded

\* A bet's event whose totals are changed by another transaction.
LEMMA BetSuperseded ==
  ASSUME CachesInv, NEW b \in Bets,
         NEW c, c = IF bets[b].pc = "none" THEN NoBet ELSE [bets[b] EXCEPT !.stale = Older(@)]
  PROVE  c \in Bet /\ c.pc = bets[b].pc /\ c.stale <= c.age
<1>1. bets[b] \in Bet /\ bets[b].stale <= bets[b].age
  BY CacheTypes DEF CachesInv, CopiesAge
<1>2. CASE bets[b].pc = "none"
  BY <1>2, BlankFacts
<1>3. CASE bets[b].pc # "none"
  <2>1. bets[b].stale \in Stale /\ bets[b].age \in 0 .. MaxDelay
    BY <1>1 DEF Bet
  <2>2. c \in Bet /\ c.pc = bets[b].pc /\ c.stale = Older(bets[b].stale) /\ c.age = bets[b].age
    BY <1>1, <1>3, <2>1, StaleFacts DEF Bet
  <2>3. Older(bets[b].stale) <= bets[b].age
    BY <1>1, <2>1, CacheFacts DEF Older, Stale
  <2> QED BY <2>2, <2>3
<1> QED BY <1>2, <1>3

\* The conjuncts of the invariant after a step, from what holds of each entry and copy.
LEMMA Together ==
  ASSUME cache' = cache, registered' \in BOOLEAN, cache \in Caches,
         entries' \in [Keys -> Entry], \A k \in Keys : Fits(entries'[k]),
         readers' \in [Readers -> Request], \A r \in Readers : readers'[r].stale <= readers'[r].age,
         bets' \in [Bets -> Bet], \A b \in Bets : bets'[b].stale <= bets'[b].age,
         \A b \in Bets : bets'[b].pc # "none" => cache = marketCache,
         PurgeToCome'
  PROVE  CachesInv'
<1>1. CachesTypeOK' /\ CopiesAge' /\ OnlyMarketHasBets'
  BY DEF CachesTypeOK, CopiesAge, OnlyMarketHasBets
<1>2. EntriesExpire'
  BY DEF EntriesExpire, Fits, LifeOf, Bound
<1> QED BY <1>1, <1>2 DEF CachesInv

\* What the lemma above needs of what a step leaves alone.
LEMMA Alone ==
  ASSUME CachesInv
  PROVE  /\ cache \in Caches /\ registered \in BOOLEAN
         /\ entries \in [Keys -> Entry] /\ \A k \in Keys : Fits(entries[k])
         /\ readers \in [Readers -> Request] /\ \A r \in Readers : readers[r].stale <= readers[r].age
         /\ bets \in [Bets -> Bet] /\ \A b \in Bets : bets[b].stale <= bets[b].age
         /\ \A b \in Bets : bets[b].pc # "none" => cache = marketCache
BY CacheTypes, EntryFits DEF CachesInv, CopiesAge, OnlyMarketHasBets

LEMMA UpdateStep ==
  ASSUME CachesInv, Update
  PROVE  CachesInv'
<1>1. /\ registered' = TRUE /\ Superseded("silent") /\ cache' = cache
      /\ bets' = [b \in Bets |-> IF bets[b].pc = "none" THEN NoBet
                                 ELSE [bets[b] EXCEPT !.stale = Older(@)]]
  BY DEF Update
<1>2. /\ bets' \in [Bets -> Bet]
      /\ \A b \in Bets : bets'[b].pc = bets[b].pc /\ bets'[b].stale <= bets'[b].age
  BY <1>1, BetSuperseded
<1>3. PurgeToCome'
  BY <1>1, <1>2, SupersededFacts DEF CachesInv, PurgeToCome
<1> QED BY <1>1, <1>2, <1>3, SupersededFacts, Alone, Together

LEMMA PlaceBetStep ==
  ASSUME CachesInv, NEW b \in Bets, NEW payload \in SUBSET Keys, PlaceBet(b, payload)
  PROVE  CachesInv'
<1> DEFINE new == [pc |-> "purge", payload |-> payload, stale |-> -1, age |-> 0]
<1>1. /\ cache = marketCache /\ registered' = TRUE /\ Superseded("bet") /\ cache' = cache
      /\ bets' = [c \in Bets |-> IF c = b THEN new
            ELSE IF bets[c].pc = "none" THEN NoBet ELSE [bets[c] EXCEPT !.stale = Older(@)]]
  BY DEF PlaceBet
<1>2. new \in Bet /\ new.pc = "purge" /\ new.stale <= new.age
  BY CacheFacts DEF Bet, Stale
<1> HIDE DEF new
<1>3. /\ bets' \in [Bets -> Bet] /\ bets'[b].pc = "purge"
      /\ \A c \in Bets : bets'[c].stale <= bets'[c].age
  BY <1>1, <1>2, BetSuperseded
<1>4. PurgeToCome'
  BY <1>3 DEF PurgeToCome
<1> QED BY <1>1, <1>3, <1>4, SupersededFacts, Alone, Together

LEMMA LookupOrQueryStep ==
  ASSUME CachesInv, NEW r \in Readers, NEW k \in Keys,
         Lookup(r, k) \/ Query(r) \/ LookupFails(r)
  PROVE  CachesInv'
<1>1. readers \in [Readers -> Request] /\ registered \in BOOLEAN /\ -1 \in Stale
  BY CacheTypes, CacheFacts DEF Stale
<1>2. PICK c \in Request : readers' = [readers EXCEPT ![r] = c] /\ c.stale <= c.age
  <2>1. CASE Lookup(r, k)
    <3> DEFINE c == [Idle EXCEPT !.pc = "query", !.key = k]
    <3>1. c.stale = -1 /\ c.age = 0
      BY DEF Idle
    <3>2. c \in Request
      BY BlankFacts DEF Request
    <3>3. readers' = [readers EXCEPT ![r] = c]
      BY <2>1 DEF Lookup
    <3> HIDE DEF c
    <3>4. c.stale <= c.age
      BY <3>1
    <3> QED BY <3>2, <3>3, <3>4
  <2>2. CASE Query(r)
    <3> DEFINE c == [readers[r] EXCEPT !.pc = "fill", !.reg = registered, !.stale = -1]
    <3>1. readers[r] \in Request /\ readers[r].age \in 0 .. MaxDelay
      BY <1>1 DEF Request
    <3>2. c \in Request /\ c.stale = -1 /\ c.age = readers[r].age
      BY <1>1, <3>1 DEF Request
    <3>3. readers' = [readers EXCEPT ![r] = c]
      BY <1>1, <2>2 DEF Query
    <3> HIDE DEF c
    <3>4. c.stale <= c.age
      BY <3>1, <3>2, CacheFacts
    <3> QED BY <3>2, <3>3, <3>4
  <2>3. CASE LookupFails(r)
    <3> DEFINE c == IF cache = contractMetaCache
                    THEN [readers[r] EXCEPT !.pc = "fill", !.reg = FALSE,
                                            !.stale = IF registered THEN 0 ELSE -1]
                    ELSE Idle
    <3>1. readers' = [readers EXCEPT ![r] = c]
      BY <2>3 DEF LookupFails
    <3>2. readers[r] \in Request /\ readers[r].age \in 0 .. MaxDelay /\ 0 \in Stale
      BY <1>1, CacheFacts DEF Request, Stale
    <3>3. c \in Request /\ c.stale <= c.age
      <4>1. CASE cache = contractMetaCache
        <5>1. /\ c.stale = (IF registered THEN 0 ELSE -1) /\ c.age = readers[r].age
              /\ c \in Request
          BY <1>1, <3>2, <4>1 DEF Request
        <5> QED BY <5>1, <3>2, CacheFacts
      <4>2. CASE cache # contractMetaCache
        BY <4>2, BlankFacts DEF Idle
      <4> QED BY <4>1, <4>2
    <3> HIDE DEF c
    <3> QED BY <3>1, <3>3
  <2> QED BY <2>1, <2>2, <2>3
<1>3. UNCHANGED <<cache, registered, entries, bets>>
  BY DEF Lookup, Query, LookupFails
<1>4. /\ readers' \in [Readers -> Request]
      /\ \A q \in Readers : readers'[q].stale <= readers'[q].age
  BY <1>1, <1>2, Alone
<1>5. PurgeToCome'
  BY <1>3 DEF CachesInv, PurgeToCome
<1> QED BY <1>3, <1>4, <1>5, Alone, Together

\* An entry that is filled now.
LEMMA WrittenFits ==
  ASSUME CachesInv, NEW copy, copy.reg \in BOOLEAN, copy.stale \in Stale, NEW left \in Nat,
         left <= LifeOf(copy.reg), left # 0 => copy.stale + left <= Bound(copy.reg)
  PROVE  Written(copy, left) \in Entry /\ Fits(Written(copy, left)) /\ Written(copy, left).why # "bet"
<1>1. left \in 0 .. TTL
  BY CacheFacts, LifeFacts
<1>2. Written(copy, left).present => left >= 1
  <2>1. left > 0 => left >= 1
    BY <1>1
  <2> QED BY <2>1 DEF Written
<1>3. /\ Written(copy, left).reg = copy.reg /\ Written(copy, left).stale = copy.stale
      /\ Written(copy, left).left = left
  BY DEF Written
<1>4. Written(copy, left).why \in {"none", "late"}
  BY DEF Written
<1>5. Written(copy, left) \in Entry
  BY <1>1 DEF Written, Entry
<1>6. Fits(Written(copy, left))
  BY <1>1, <1>2, <1>3 DEF Fits
<1> QED BY <1>4, <1>5, <1>6

LEMMA FillStep ==
  ASSUME CachesInv, NEW r \in Readers, Fill(r)
  PROVE  CachesInv'
<1> DEFINE copy == readers[r]
           life == Life(copy)
<1>1. /\ readers' = [readers EXCEPT ![r] = Idle] /\ UNCHANGED <<cache, registered, bets>>
      /\ \/ entries' = entries
         \/ entries' = [entries EXCEPT ![copy.key] = IF life = 0 THEN Absent ELSE Written(copy, life)]
  BY DEF Fill
<1>2. /\ copy \in Request /\ copy.reg \in BOOLEAN /\ copy.key \in Keys /\ copy.stale \in Stale
      /\ copy.age \in Nat /\ copy.age <= MaxDelay /\ copy.stale <= copy.age /\ copy.stale \in Int
  BY CacheTypes, CacheFacts, Alone DEF Request, Stale
<1>3. /\ life \in Nat /\ life <= LifeOf(copy.reg)
      /\ life # 0 => copy.stale + life <= Bound(copy.reg)
  <2>1. CASE cache.fromStart
    BY <1>2, <2>1, LifeFacts, CacheFacts DEF Life, LifeOf, Bound
  <2>2. CASE ~cache.fromStart
    BY <1>2, <2>2, LifeFacts, CacheFacts DEF Life, LifeOf, Bound
  <2> QED BY <2>1, <2>2
<1> DEFINE e == IF life = 0 THEN Absent ELSE Written(copy, life)
<1>4. e \in Entry /\ Fits(e) /\ e.why # "bet"
  <2>1. Written(copy, life) \in Entry /\ Fits(Written(copy, life)) /\ Written(copy, life).why # "bet"
    BY <1>2, <1>3, WrittenFits
  <2>2. Absent \in Entry /\ Fits(Absent) /\ Absent.why # "bet"
    BY BlankFacts DEF Fits
  <2> QED BY <2>1, <2>2
<1>5. entries' = entries \/ entries' = [entries EXCEPT ![copy.key] = e]
  BY <1>1
<1> HIDE DEF e, life, copy
<1>6. /\ entries' \in [Keys -> Entry] /\ \A k \in Keys : Fits(entries'[k])
      /\ \A k \in Keys : entries'[k].why = "bet" => entries[k].why = "bet"
  BY <1>2, <1>4, <1>5, Alone
<1>7. /\ readers' \in [Readers -> Request]
      /\ \A q \in Readers : readers'[q].stale <= readers'[q].age
  BY <1>1, Alone, BlankFacts
<1>8. PurgeToCome'
  BY <1>1, <1>6 DEF CachesInv, PurgeToCome
<1> QED BY <1>1, <1>6, <1>7, <1>8, Alone, Together

LEMMA EvictStep ==
  ASSUME CachesInv, NEW k \in Keys, Evict(k)
  PROVE  CachesInv'
<1>1. entries' = [entries EXCEPT ![k] = Absent] /\ UNCHANGED <<cache, registered, readers, bets>>
  BY DEF Evict
<1>2. Absent \in Entry /\ Fits(Absent) /\ Absent.why # "bet"
  BY BlankFacts DEF Fits
<1>3. /\ entries' \in [Keys -> Entry] /\ \A j \in Keys : Fits(entries'[j])
      /\ \A j \in Keys : entries'[j].why = "bet" => entries[j].why = "bet"
  BY <1>1, <1>2, Alone
<1>4. PurgeToCome'
  BY <1>1, <1>3 DEF CachesInv, PurgeToCome
<1> QED BY <1>1, <1>3, <1>4, Alone, Together

\* The event goes to its next step, or is done.
LEMMA AdvanceFacts ==
  ASSUME CachesInv, NEW b \in Bets, bets[b].pc # "none", Advance(b)
  PROVE  /\ bets' \in [Bets -> Bet] /\ \A c \in Bets : bets'[c].stale <= bets'[c].age
         /\ \A c \in Bets : bets'[c].pc # "none" => cache = marketCache
         /\ \A c \in Bets : c # b => bets'[c] = bets[c]
<1>1. bets \in [Bets -> Bet] /\ bets[b] \in Bet /\ cache = marketCache
  BY Alone
<1>2. PICK e \in Bet : bets' = [bets EXCEPT ![b] = e] /\ e.stale <= e.age
  <2>1. CASE NextStep[bets[b].pc] = "none"
    <3>1. bets' = [bets EXCEPT ![b] = NoBet]
      BY <1>1, <2>1 DEF Advance
    <3> QED BY <3>1, BlankFacts
  <2>2. CASE NextStep[bets[b].pc] # "none"
    <3> DEFINE e == [bets[b] EXCEPT !.pc = NextStep[bets[b].pc]]
    <3>1. NextStep[bets[b].pc] \in {"market", "odds", "repurge", "remarket", "reodds", "none"}
      BY <1>1 DEF NextStep, Bet
    <3>2. e \in Bet /\ e.stale = bets[b].stale /\ e.age = bets[b].age
      BY <1>1, <3>1 DEF Bet
    <3>3. bets' = [bets EXCEPT ![b] = e]
      BY <1>1, <2>2 DEF Advance
    <3> HIDE DEF e
    <3>4. e.stale <= e.age
      BY <3>2, Alone
    <3> QED BY <3>2, <3>3, <3>4
  <2> QED BY <2>1, <2>2
<1> QED BY <1>1, <1>2, Alone

LEMMA PurgeStep ==
  ASSUME CachesInv, NEW b \in Bets, invalidateMarketCache(b)
  PROVE  CachesInv'
<1>1. /\ bets[b].pc # "none" /\ Advance(b) /\ entries' = [k \in Keys |-> Absent]
      /\ UNCHANGED <<cache, registered, readers>>
  BY DEF invalidateMarketCache
<1>2. Absent \in Entry /\ Fits(Absent) /\ Absent.why # "bet"
  BY BlankFacts DEF Fits
<1>3. entries' \in [Keys -> Entry] /\ \A k \in Keys : Fits(entries'[k]) /\ entries'[k].why # "bet"
  BY <1>1, <1>2
<1>4. PurgeToCome'
  BY <1>3 DEF PurgeToCome
<1> QED BY <1>1, <1>3, <1>4, AdvanceFacts, Alone, Together

LEMMA PrewarmStep ==
  ASSUME CachesInv, NEW b \in Bets, NEW k \in Keys, prewarmCache(b, k)
  PROVE  CachesInv'
<1> DEFINE copy == [reg |-> TRUE, stale |-> bets[b].stale]
           e == Written(copy, TTL)
<1>1. /\ bets[b].pc \notin {"none", "purge"} /\ Advance(b) /\ UNCHANGED <<cache, registered, readers>>
      /\ entries' = entries \/ entries' = [entries EXCEPT ![k] = e]
  BY DEF prewarmCache, Keys
<1>2. /\ bets[b].stale \in Stale /\ bets[b].stale \in Int /\ bets[b].stale <= MaxDelay
      /\ cache = marketCache
  <2>1. bets[b] \in Bet /\ bets[b].stale <= bets[b].age /\ cache = marketCache
    BY <1>1, Alone
  <2>2. bets[b].stale \in Stale /\ bets[b].age \in 0 .. MaxDelay
    BY <2>1 DEF Bet
  <2> QED BY <2>1, <2>2, CacheFacts DEF Stale
<1>3. copy.reg = TRUE /\ copy.stale = bets[b].stale
  OBVIOUS
<1> HIDE DEF copy
<1>4. LifeOf(copy.reg) = TTL /\ Bound(copy.reg) = TTL + MaxDelay
  BY <1>2, <1>3, CacheFacts DEF LifeOf, Bound
<1>5. copy.stale + TTL <= Bound(copy.reg) /\ TTL <= LifeOf(copy.reg)
  BY <1>2, <1>3, <1>4, CacheFacts
<1>6. e \in Entry /\ Fits(e) /\ e.why # "bet"
  <2>1. copy.reg \in BOOLEAN /\ copy.stale \in Stale /\ TTL \in Nat
    BY <1>2, <1>3, CacheFacts
  <2> QED BY <1>5, <2>1, WrittenFits
<1> HIDE DEF e
<1>7. /\ entries' \in [Keys -> Entry] /\ \A j \in Keys : Fits(entries'[j])
      /\ \A j \in Keys : entries'[j].why = "bet" => entries[j].why = "bet"
  BY <1>1, <1>6, Alone
<1>8. \A c \in Bets : bets[c].pc = "purge" => bets'[c].pc = "purge"
  BY <1>1, AdvanceFacts
<1>9. PurgeToCome'
  BY <1>7, <1>8 DEF CachesInv, PurgeToCome
<1> QED BY <1>1, <1>7, <1>9, AdvanceFacts, Alone, Together

LEMMA TickStep ==
  ASSUME CachesInv, Tick
  PROVE  CachesInv'
<1>1. /\ \A r \in Readers : readers[r].age < MaxDelay \/ readers[r].pc = "idle"
      /\ \A b \in Bets : bets[b].age < MaxDelay \/ bets[b].pc = "none"
      /\ entries' = [k \in Keys |->
           IF entries[k].left <= 1 THEN Absent
           ELSE [entries[k] EXCEPT !.left = @ - 1, !.stale = Later(@)]]
      /\ readers' = [r \in Readers |-> IF readers[r].pc = "idle" THEN Idle
           ELSE [readers[r] EXCEPT !.age = @ + 1, !.stale = Later(@)]]
      /\ bets' = [b \in Bets |-> IF bets[b].pc = "none" THEN NoBet
           ELSE [bets[b] EXCEPT !.age = @ + 1, !.stale = Later(@)]]
      /\ UNCHANGED <<cache, registered>>
  BY DEF Tick
<1>2. ASSUME NEW k \in Keys
      PROVE  /\ entries'[k] \in Entry /\ Fits(entries'[k])
             /\ entries'[k].why = "bet" => entries[k].why = "bet"
  <2>1. entries[k] \in Entry /\ Fits(entries[k])
    BY EntryFits
  <2>2. CASE entries[k].left <= 1
    BY <1>1, <2>2, BlankFacts DEF Fits
  <2>3. CASE ~(entries[k].left <= 1)
    <3> DEFINE e == [entries[k] EXCEPT !.left = @ - 1, !.stale = Later(@)]
    <3>1. entries[k].left \in 0 .. TTL /\ entries[k].stale \in Stale
      BY <2>1 DEF Entry
    <3>2. entries[k].left - 1 \in 0 .. TTL /\ entries[k].left - 1 >= 1 /\ Later(entries[k].stale) \in Stale
      BY <2>3, <3>1, CacheFacts, StaleFacts
    <3>3. /\ e \in Entry /\ e.left = entries[k].left - 1 /\ e.stale = Later(entries[k].stale)
          /\ e.reg = entries[k].reg /\ e.why = entries[k].why /\ (e.present <=> entries[k].present)
      BY <2>1, <3>2 DEF Entry
    <3>4. entries'[k] = e
      BY <1>1, <2>3
    <3> HIDE DEF e
    <3>5. entries[k].stale \in Int /\ e.stale \in Int /\ e.stale <= entries[k].stale + 1
      BY <3>1, <3>3, StaleFacts
    <3>6. Fits(e)
      BY <2>1, <3>1, <3>2, <3>3, <3>5, LifeFacts DEF Fits
    <3> QED BY <3>3, <3>4, <3>6
  <2> QED BY <2>2, <2>3
<1>3. ASSUME NEW r \in Readers
      PROVE  readers'[r] \in Request /\ readers'[r].stale <= readers'[r].age
  <2>1. readers[r] \in Request /\ readers[r].stale <= readers[r].age
    BY Alone
  <2>2. CASE readers[r].pc = "idle"
    BY <1>1, <2>2, BlankFacts
  <2>3. CASE readers[r].pc # "idle"
    <3> DEFINE c == [readers[r] EXCEPT !.age = @ + 1, !.stale = Later(@)]
    <3>1. readers[r].age \in 0 .. MaxDelay /\ readers[r].stale \in Stale /\ readers[r].age < MaxDelay
      BY <1>1, <2>1, <2>3 DEF Request
    <3>2. /\ readers[r].age + 1 \in 0 .. MaxDelay /\ Later(readers[r].stale) \in Stale
          /\ Later(readers[r].stale) <= readers[r].age + 1
      BY <2>1, <3>1, CacheFacts, StaleFacts
    <3>3. c \in Request /\ c.age = readers[r].age + 1 /\ c.stale = Later(readers[r].stale)
      BY <2>1, <3>2 DEF Request
    <3>4. readers'[r] = c
      BY <1>1, <2>3
    <3> HIDE DEF c
    <3> QED BY <3>2, <3>3, <3>4
  <2> QED BY <2>2, <2>3
<1>4. ASSUME NEW b \in Bets
      PROVE  bets'[b] \in Bet /\ bets'[b].stale <= bets'[b].age /\ bets'[b].pc = bets[b].pc
  <2>1. bets[b] \in Bet /\ bets[b].stale <= bets[b].age
    BY Alone
  <2>2. CASE bets[b].pc = "none"
    BY <1>1, <2>2, BlankFacts
  <2>3. CASE bets[b].pc # "none"
    <3> DEFINE c == [bets[b] EXCEPT !.age = @ + 1, !.stale = Later(@)]
    <3>1. bets[b].age \in 0 .. MaxDelay /\ bets[b].stale \in Stale /\ bets[b].age < MaxDelay
      BY <1>1, <2>1, <2>3 DEF Bet
    <3>2. /\ bets[b].age + 1 \in 0 .. MaxDelay /\ Later(bets[b].stale) \in Stale
          /\ Later(bets[b].stale) <= bets[b].age + 1
      BY <2>1, <3>1, CacheFacts, StaleFacts
    <3>3. c \in Bet /\ c.age = bets[b].age + 1 /\ c.stale = Later(bets[b].stale) /\ c.pc = bets[b].pc
      BY <2>1, <3>2 DEF Bet
    <3>4. bets'[b] = c
      BY <1>1, <2>3
    <3> HIDE DEF c
    <3> QED BY <3>2, <3>3, <3>4
  <2> QED BY <2>2, <2>3
<1>5. entries' \in [Keys -> Entry] /\ readers' \in [Readers -> Request] /\ bets' \in [Bets -> Bet]
  BY <1>1, <1>2, <1>3, <1>4
<1>6. PurgeToCome'
  BY <1>2, <1>4 DEF CachesInv, PurgeToCome
<1> QED BY <1>1, <1>2, <1>3, <1>4, <1>5, <1>6, Alone, Together

LEMMA CachesStep == CachesInv /\ [CachesNext]_cacheVars => CachesInv'
<1> SUFFICES ASSUME CachesInv, [CachesNext]_cacheVars PROVE CachesInv'
  OBVIOUS
<1>1. CASE UNCHANGED cacheVars
  <2>1. PurgeToCome'
    BY <1>1 DEF cacheVars, CachesInv, PurgeToCome
  <2> QED BY <1>1, <2>1, Alone, Together DEF cacheVars
<1>2. CASE Update \/ Tick \/ \E k \in Keys : Evict(k)
  BY <1>2, UpdateStep, TickStep, EvictStep
<1>3. ASSUME NEW r \in Readers, Query(r) \/ LookupFails(r) \/ Fill(r) \/ \E k \in Keys : Lookup(r, k)
      PROVE  CachesInv'
  <2>1. "market" \in Keys
    BY DEF Keys
  <2> QED BY <1>3, <2>1, LookupOrQueryStep, FillStep
<1>4. ASSUME NEW b \in Bets, \/ \E payload \in SUBSET Keys : PlaceBet(b, payload)
                             \/ invalidateMarketCache(b)
                             \/ \E k \in Keys : prewarmCache(b, k)
      PROVE  CachesInv'
  BY <1>4, PlaceBetStep, PurgeStep, PrewarmStep
<1> QED BY <1>1, <1>2, <1>3, <1>4 DEF CachesNext

\* Each of the ten caches: for any times to live, delays and requests, an entry is served for
\* less than its time to live after it was superseded, or after the failed query that the decoder
\* took for "not registered", plus, where the cache counts from the fill, the time its request
\* was under way.
THEOREM CachesStaleBound == CachesSpec => []StaleBound
<1>1. CachesInv => StaleBound
  <2> SUFFICES ASSUME CachesInv, NEW k \in Keys, entries[k].present
               PROVE  entries[k].stale < Bound(entries[k].reg)
    BY DEF StaleBound, Bound, LifeOf
  <2>1. entries[k] \in Entry /\ Fits(entries[k])
    BY EntryFits
  <2>2. entries[k].stale \in Int /\ entries[k].left \in Int
    BY <2>1, StaleFacts, CacheFacts DEF Entry
  <2> QED BY <2>1, <2>2, LifeFacts DEF Fits
<1> QED BY <1>1, CachesInitial, CachesStep, PTL DEF CachesSpec

\* api.js and marketCache: once the events of all bets have been handled, no entry is left that
\* was current when it was written and that one of these bets has superseded.  A request that
\* read its row before a bet and fills the cache after the purge still leaves the old value, for
\* as long as StaleBound says.
THEOREM CachesBetPurges == CachesSpec => []BetPurges
<1>1. CachesInv => BetPurges
  BY DEF CachesInv, PurgeToCome, BetPurges
<1> QED BY <1>1, CachesInitial, CachesStep, PTL DEF CachesSpec

\* Entries, requests and events under way have their types, the times within their bounds.
THEOREM CachesTypeCorrect == CachesSpec => []CachesTypeOK
<1>1. CachesInv => CachesTypeOK
  BY DEF CachesInv
<1> QED BY <1>1, CachesInitial, CachesStep, PTL DEF CachesSpec

------------------------------------------------------------------------------
(* EventPages.  An item of a list is a row with its place; a page is a slice     *)
(* of the items, and a cursor divides them.                                     *)

\* The order of insertion, and what a row is called.
RowsAreNamed ==
  /\ \A i \in DOMAIN rows : listing \notin {"markets", "bets"} => rows[i].id = i
  /\ \A i, j \in DOMAIN rows : i # j => rows[i].id # rows[j].id
  /\ \A i, j \in DOMAIN rows : i < j => rows[i].at <= rows[j].at

\* Nobody has heard of a row before it is there.
HeardOf ==
  listing # "leaderboard" =>
    \A id \in reader.start \cup reader.got : \E i \in DOMAIN rows : rows[i].id = id

WayOfReading ==
  /\ reader.pc = "cursor" => reader.way = "cursor"
  /\ reader.pc \in {"count", "select", "turn"} => reader.way = "page"
  /\ reader.pc = "idle" => reader.way = "cursor" /\ reader.start = {} /\ reader.got = {}
  /\ reader.pc # "idle" =>
       listing \in (IF reader.way = "cursor" THEN CursorListings ELSE PageListings)

Stamp(i) == <<rows[i].at, rows[i].id>>

\* A walk by cursor: what was read is not after the cursor, and what was not read is,
\* unless it shares a millisecond with the end of a page or a failing query ended the walk.
CursorDivides ==
  (reader.way = "cursor" /\ listing # "leaderboard" /\ (listing = "events" => InOrder)) =>
    /\ reader.again = {}
    /\ reader.pc = "cursor" =>
         IF reader.cursor = NoCursor
           THEN reader.got = {}
           ELSE \A i \in DOMAIN rows : rows[i].id \in reader.got => ~Less(Stamp(i), reader.cursor)
    /\ ~reader.swallowed => \A i \in DOMAIN rows : rows[i].id \in reader.start \ reader.got =>
         \/ Ms(rows[i].at) \in reader.ends
         \/ reader.pc = "cursor" /\ (reader.cursor = NoCursor \/ Less(Stamp(i), reader.cursor))

\* Row j comes before row i in the list, however each query orders equal keys.
Higher(j, i) ==
  CASE listing = "events" -> rows[i].key < rows[j].key \/ (rows[i].key = rows[j].key /\ i < j)
    [] listing = "contracts" -> rows[j].key < rows[i].key
    [] OTHER -> rows[i].key < rows[j].key

Above(i) == {j \in DOMAIN rows : Higher(j, i)}

Untied(i) ==
  listing = "events" \/ \A j \in DOMAIN rows : j # i => rows[j].key # rows[i].key

\* A walk by page number: what was not read is still below the pages that were, and "Next"
\* is enabled.
PagesToCome ==
  (reader.way = "page" /\ ~reader.raced /\ ~reader.swallowed) =>
    /\ reader.pc = "select" => reader.total = Len(rows)
    /\ \A i \in DOMAIN rows : i \in reader.start \ reader.got /\ Untied(i) =>
         /\ reader.pc # "done"
         /\ reader.pc \in {"count", "select"} => Cardinality(Above(i)) >= (reader.page - 1) * Limit
         /\ reader.pc = "turn" => /\ Cardinality(Above(i)) >= reader.page * Limit
                                  /\ reader.total > reader.page * Limit

PagesInv ==
  /\ PagesTypeOK /\ reader.page >= 1
  /\ RowsAreNamed /\ HeardOf /\ WayOfReading /\ CursorDivides /\ PagesToCome

------------------------------------------------------------------------------
\* A set of naturals has a least element.
LEMMA LeastNatural ==
  ASSUME NEW S \in SUBSET Nat, S # {}
  PROVE  \E m \in S : \A k \in S : m <= k
<1>1. PICK m \in S : \A k \in S : <<k, m>> \notin OpToRel(<, Nat)
  BY NatLessThanWellFounded, WFMin
<1>2. ASSUME NEW k \in S PROVE m <= k
  <2>1. ~(k < m)
    BY <1>1 DEF OpToRel
  <2> QED BY <2>1
<1> QED BY <1>2

\* A query's result: finite, and no two items at one place.
Listed(S) ==
  /\ IsFiniteSet(S)
  /\ \A a \in S : a.ord \in Int \X Int /\ a.time \in Nat /\ a.id \in Id
  /\ \A a, b \in S : a.ord = b.ord => a = b

Before(S, a) == {b \in S : Less(a.ord, b.ord)}

LEMMA LessOrders ==
  ASSUME NEW a \in Int \X Int, NEW b \in Int \X Int, NEW c \in Int \X Int
  PROVE  /\ ~Less(a, a)
         /\ Less(a, b) \/ Less(b, a) \/ a = b
         /\ Less(a, b) => ~Less(b, a)
         /\ Less(a, b) /\ Less(b, c) => Less(a, c)
         /\ Less(a, b) /\ ~Less(c, b) => Less(a, c)
BY DEF Less

LEMMA ListedSubset ==
  ASSUME NEW S, Listed(S), NEW T \in SUBSET S
  PROVE  Listed(T)
BY FS_Subset DEF Listed

LEMMA BeforeFinite ==
  ASSUME NEW S, Listed(S), NEW a \in S
  PROVE  /\ IsFiniteSet(Before(S, a)) /\ Cardinality(Before(S, a)) \in Nat
         /\ Cardinality(S) \in Nat /\ Cardinality(Before(S, a)) < Cardinality(S)
<1>1. IsFiniteSet(S) /\ IsFiniteSet(S \ {a}) /\ Cardinality(S \ {a}) = Cardinality(S) - 1
  BY FS_RemoveElement DEF Listed
<1>2. Before(S, a) \in SUBSET (S \ {a})
  BY LessOrders DEF Before, Listed
<1>3. IsFiniteSet(Before(S, a)) /\ Cardinality(Before(S, a)) <= Cardinality(S \ {a})
  BY <1>1, <1>2, FS_Subset
<1> QED BY <1>1, <1>3, FS_CardinalityType

\* An item further down has more before it.
LEMMA BeforeGrows ==
  ASSUME NEW S, Listed(S), NEW a \in S, NEW b \in S, Less(a.ord, b.ord)
  PROVE  Cardinality(Before(S, b)) < Cardinality(Before(S, a))
<1>1. b \notin Before(S, b)
  BY LessOrders DEF Before, Listed
<1>2. Before(S, b) \cup {b} \in SUBSET Before(S, a)
  <2>1. \A c \in S : Less(b.ord, c.ord) => Less(a.ord, c.ord)
    BY LessOrders DEF Listed
  <2> QED BY <2>1 DEF Before
<1>3. /\ IsFiniteSet(Before(S, a)) /\ Cardinality(Before(S, a)) \in Nat
      /\ IsFiniteSet(Before(S, b)) /\ Cardinality(Before(S, b)) \in Nat
  BY BeforeFinite
<1>4. Cardinality(Before(S, b) \cup {b}) = Cardinality(Before(S, b)) + 1
  BY <1>1, <1>3, FS_AddElement
<1>5. Cardinality(Before(S, b) \cup {b}) <= Cardinality(Before(S, a))
  BY <1>2, <1>3, FS_Subset
<1> QED BY <1>3, <1>4, <1>5

\* The first page of a list that is not empty has an item.
LEMMA FirstPageHasItem ==
  ASSUME NEW S, Listed(S), S # {}, NEW n \in Nat, n > 0
  PROVE  Slice(S, 0, n) # {}
<1> DEFINE K == {Cardinality(Before(S, a)) : a \in S}
<1>1. K \in SUBSET Nat /\ K # {}
  BY BeforeFinite
<1>2. PICK m \in K : \A k \in K : m <= k
  BY <1>1, LeastNatural
<1>3. PICK a \in S : Cardinality(Before(S, a)) = m
  BY <1>2
<1>4. Before(S, a) = {}
  <2> SUFFICES ASSUME NEW b \in Before(S, a) PROVE FALSE
    OBVIOUS
  <2>1. b \in S /\ Less(a.ord, b.ord)
    BY DEF Before
  <2>2. Cardinality(Before(S, b)) < m
    BY <2>1, <1>3, BeforeGrows
  <2>3. Cardinality(Before(S, b)) \in K
    BY <2>1
  <2> QED BY <2>2, <2>3, <1>1, <1>2
<1>5. Cardinality({b \in S : Less(a.ord, b.ord)}) = 0
  BY <1>4, FS_EmptySet DEF Before
<1>6. a \in Slice(S, 0, n)
  BY <1>5 DEF Slice
<1> QED BY <1>6

LEMMA SliceIs ==
  ASSUME NEW S, Listed(S), NEW a \in S, NEW k \in Nat, NEW n \in Nat
  PROVE  /\ Slice(S, k, n) \subseteq S
         /\ a \in Slice(S, k, n) <=>
              Cardinality(Before(S, a)) >= k /\ Cardinality(Before(S, a)) < k + n
BY DEF Slice, Before

\* The last item of the first page, and what does not get on that page.
LEMMA FirstPage ==
  ASSUME NEW S, Listed(S), S # {}, NEW n \in Nat, n > 0
  PROVE  LET page == Slice(S, 0, n)
         IN /\ Last(page) \in page /\ page \subseteq S
            /\ \A a \in page : a = Last(page) \/ Less(Last(page).ord, a.ord)
            /\ \A a \in S \ page : Less(a.ord, Last(page).ord)
<1> DEFINE page == Slice(S, 0, n)
           K == {n - Cardinality(Before(S, a)) : a \in page}
<1>1. page \subseteq S /\ page # {}
  BY FirstPageHasItem DEF Slice
<1>2. \A a \in page : Cardinality(Before(S, a)) \in Nat /\ Cardinality(Before(S, a)) < n
  BY <1>1, BeforeFinite, SliceIs
<1>3. \A a \in S \ page : Cardinality(Before(S, a)) \in Nat /\ Cardinality(Before(S, a)) >= n
  BY BeforeFinite, SliceIs
<1> HIDE DEF page
<1>4. K \in SUBSET Nat /\ K # {}
  BY <1>1, <1>2
<1>5. PICK m \in K : \A k \in K : m <= k
  BY <1>4, LeastNatural
<1>6. PICK last \in page : n - Cardinality(Before(S, last)) = m
  BY <1>5
<1>7. \A a \in page : Cardinality(Before(S, a)) <= Cardinality(Before(S, last))
  <2> TAKE a \in page
  <2>1. m <= n - Cardinality(Before(S, a))
    BY <1>5
  <2> QED BY <2>1, <1>6, <1>2
<1>8. \A a \in S : a.ord \in Int \X Int
  BY DEF Listed
<1>9. \A a \in page : a = last \/ Less(last.ord, a.ord)
  <2> SUFFICES ASSUME NEW a \in page, a # last, ~Less(last.ord, a.ord) PROVE FALSE
    OBVIOUS
  <2>1. Less(a.ord, last.ord)
    BY <1>1, <1>8, LessOrders DEF Listed
  <2>2. Cardinality(Before(S, last)) < Cardinality(Before(S, a))
    BY <2>1, <1>1, BeforeGrows
  <2> QED BY <2>2, <1>7, <1>2
<1>10. Last(page) \in page /\ \A a \in page : a = Last(page) \/ Less(Last(page).ord, a.ord)
  <2>1. \E a \in page : \A b \in page : b = a \/ Less(a.ord, b.ord)
    BY <1>9
  <2> QED BY <2>1 DEF Last
<1>11. \A a \in S \ page : Less(a.ord, Last(page).ord)
  <2> SUFFICES ASSUME NEW a \in S \ page, ~Less(a.ord, Last(page).ord) PROVE FALSE
    OBVIOUS
  <2>1. a # Last(page) /\ Last(page) \in S
    BY <1>10, <1>1
  <2>2. Less(Last(page).ord, a.ord)
    BY <2>1, <1>8, LessOrders DEF Listed
  <2>3. Cardinality(Before(S, a)) < Cardinality(Before(S, Last(page)))
    BY <2>1, <2>2, BeforeGrows
  <2> QED BY <2>3, <1>10, <1>2, <1>3
<1> QED BY <1>1, <1>10, <1>11 DEF page

\* A list that fits on a page is the page.
LEMMA OnePage ==
  ASSUME NEW S, Listed(S), NEW n \in Nat, Cardinality(S) <= n
  PROVE  Slice(S, 0, n) = S
<1>1. \A a \in S : Cardinality(Before(S, a)) \in Nat /\ Cardinality(Before(S, a)) < n
  BY BeforeFinite
<1>2. \A a \in S : a \in Slice(S, 0, n)
  BY <1>1, SliceIs
<1> QED BY <1>2 DEF Slice

------------------------------------------------------------------------------
LEMMA MsFacts ==
  ASSUME NEW t \in Nat
  PROVE  /\ Ms(t) \in Nat /\ Ms(t) <= t
         /\ \A s \in Nat : Ms(t) <= s /\ s <= t => Ms(s) = Ms(t)
<1> DEFINE q == t \div MsLen
<1>0. MsLen \in Nat /\ MsLen > 0
  BY PagesAssumption
<1>1. q \in Nat /\ q * MsLen <= t /\ t < q * MsLen + MsLen /\ Ms(t) = q * MsLen
  BY <1>0, SMTT(30) DEF Ms
<1>2. q * MsLen \in Nat
  BY <1>0, <1>1, SMTT(30)
<1> HIDE DEF q
<1>3. ASSUME NEW s \in Nat, q * MsLen <= s, s <= t
      PROVE  Ms(s) = Ms(t)
  <2> DEFINE z == s \div MsLen
  <2>1. z \in Nat /\ z * MsLen <= s /\ s < z * MsLen + MsLen /\ Ms(s) = z * MsLen
    BY <1>0, SMTT(30) DEF Ms
  <2> HIDE DEF z
  <2>2. CASE z < q
    <3>1. z + 1 <= q
      BY <2>2, <2>1, <1>1
    <3>2. (z + 1) * MsLen <= q * MsLen
      BY <3>1, <2>1, <1>0, <1>1, SMTT(30)
    <3>3. (z + 1) * MsLen = z * MsLen + MsLen
      BY <2>1, <1>0, SMTT(30)
    <3>4. z * MsLen \in Nat
      BY <2>1, <1>0, SMTT(30)
    <3> QED BY <3>2, <3>3, <3>4, <2>1, <1>0, <1>2, <1>3
  <2>3. CASE q < z
    <3>1. q + 1 <= z
      BY <2>3, <2>1, <1>1
    <3>2. (q + 1) * MsLen <= z * MsLen
      BY <3>1, <2>1, <1>0, <1>1, SMTT(30)
    <3>3. (q + 1) * MsLen = q * MsLen + MsLen
      BY <1>1, <1>0, SMTT(30)
    <3>4. z * MsLen \in Nat
      BY <2>1, <1>0, SMTT(30)
    <3> QED BY <3>2, <3>3, <3>4, <2>1, <1>0, <1>1, <1>2, <1>3
  <2> QED BY <2>1, <2>2, <2>3, <1>1
<1> QED BY <1>1, <1>2, <1>3

------------------------------------------------------------------------------
\* The items, one for each row.

Sign(flip, i) == IF flip THEN -i ELSE i

Place(i, flip) ==
  CASE listing = "events" -> <<rows[i].key, i>>
    [] listing = "wallet" -> <<rows[i].key, Sign(flip, i)>>
    [] listing = "contracts" -> <<-rows[i].key, Sign(flip, i)>>
    [] OTHER -> Stamp(i)

Item(i, flip) == [ord |-> Place(i, flip), time |-> rows[i].at, id |-> rows[i].id]

LEMMA ItemFields ==
  \A i : /\ Item(i, FALSE).ord = Place(i, FALSE) /\ Item(i, FALSE).id = rows[i].id
         /\ Item(i, FALSE).time = rows[i].at
BY DEF Item

LEMMA RowFacts ==
  ASSUME PagesTypeOK
  PROVE  /\ DOMAIN rows = 1 .. Len(rows) /\ Len(rows) \in Nat
         /\ \A i \in DOMAIN rows :
              /\ i \in Nat /\ i >= 1
              /\ rows[i].key \in Nat /\ rows[i].at \in Nat /\ rows[i].id \in Nat
              /\ rows[i].id \in 1 .. MaxRows /\ rows[i].key \in 1 .. MaxKey
<1>1. DOMAIN rows = 1 .. Len(rows) /\ Len(rows) \in Nat
  BY DEF PagesTypeOK
<1>2. \A i \in DOMAIN rows : rows[i] \in Row
  BY DEF PagesTypeOK
<1>3. MaxRows \in Nat /\ MaxKey \in Nat /\ MaxTime \in Nat
  BY PagesAssumption
<1> QED BY <1>1, <1>2, <1>3 DEF Row

LEMMA ItemsAre ==
  ASSUME PagesTypeOK, RowsAreNamed, listing # "leaderboard", NEW flip \in BOOLEAN
  PROVE  Items(flip) = {Item(i, flip) : i \in DOMAIN rows}
<1>1. listing \in Listings
  BY DEF PagesTypeOK
<1>2. CASE listing = "events"
  BY <1>2 DEF Items, Item, Place, getEvents, RowsAreNamed
<1>3. CASE listing = "markets"
  BY <1>3 DEF Items, Item, Place, getMarkets, Stamp
<1>4. CASE listing = "bets"
  BY <1>4 DEF Items, Item, Place, getBets, Stamp
<1>5. CASE listing = "wallet"
  BY <1>5 DEF Items, Item, Place, getWalletEvents, Sign, RowsAreNamed
<1>6. CASE listing = "contracts"
  BY <1>6 DEF Items, Item, Place, getContracts, Sign, RowsAreNamed
<1> QED BY <1>1, <1>2, <1>3, <1>4, <1>5, <1>6 DEF Listings

\* No two rows are at one place of the list.
LEMMA PlacesDiffer ==
  ASSUME PagesTypeOK, RowsAreNamed, NEW flip \in BOOLEAN,
         NEW i \in DOMAIN rows, NEW j \in DOMAIN rows
  PROVE  /\ Place(i, flip) \in Int \X Int
         /\ Place(i, flip) = Place(j, flip) => i = j
         /\ rows[i].id = rows[j].id => i = j
<1>1. /\ i \in Nat /\ j \in Nat
      /\ rows[i].key \in Nat /\ rows[i].at \in Nat /\ rows[i].id \in Nat
      /\ rows[j].key \in Nat /\ rows[j].at \in Nat /\ rows[j].id \in Nat
  BY RowFacts
<1>2. Sign(flip, i) \in Int /\ Sign(flip, j) \in Int /\ (Sign(flip, i) = Sign(flip, j) => i = j)
  BY <1>1 DEF Sign
<1>3. rows[i].id = rows[j].id => i = j
  BY DEF RowsAreNamed
<1>4. Place(i, flip) \in Int \X Int
  BY <1>1, <1>2 DEF Place, Stamp
<1>5. Place(i, flip) = Place(j, flip) => i = j
  BY <1>1, <1>2, <1>3 DEF Place, Stamp
<1> QED BY <1>3, <1>4, <1>5

LEMMA ItemsFacts ==
  ASSUME PagesTypeOK, RowsAreNamed, listing # "leaderboard", NEW flip \in BOOLEAN
  PROVE  /\ Listed(Items(flip)) /\ Cardinality(Items(flip)) = Len(rows)
         /\ Ids(Items(flip)) = {rows[i].id : i \in DOMAIN rows}
<1> DEFINE f == [i \in DOMAIN rows |-> Item(i, flip)]
<1>1. Items(flip) = {Item(i, flip) : i \in DOMAIN rows}
  BY ItemsAre
<1>2. \A i, j \in DOMAIN rows : Item(i, flip) = Item(j, flip) => i = j
  <2> SUFFICES ASSUME NEW i \in DOMAIN rows, NEW j \in DOMAIN rows,
                      Item(i, flip) = Item(j, flip)
               PROVE  i = j
    OBVIOUS
  <2>1. rows[i].id = rows[j].id
    BY DEF Item
  <2> QED BY <2>1, PlacesDiffer
<1>3. f \in Bijection(DOMAIN rows, Items(flip))
  BY <1>1, <1>2 DEF Bijection, Injection, Surjection, IsInjective
<1>4. DOMAIN rows = 1 .. Len(rows) /\ Len(rows) \in Nat
  BY RowFacts
<1>5. IsFiniteSet(DOMAIN rows) /\ Cardinality(DOMAIN rows) = Len(rows)
  BY <1>4, FS_Interval
<1>6. IsFiniteSet(Items(flip)) /\ Cardinality(Items(flip)) = Len(rows)
  BY <1>3, <1>5, FS_Bijection DEF ExistsBijection
<1>7. \A a \in Items(flip) : a.ord \in Int \X Int /\ a.time \in Nat /\ a.id \in Id
  <2> SUFFICES ASSUME NEW i \in DOMAIN rows
               PROVE  Place(i, flip) \in Int \X Int /\ rows[i].at \in Nat /\ rows[i].id \in Id
    BY <1>1 DEF Item
  <2>1. MaxRows \in Nat /\ MaxKey \in Nat
    BY PagesAssumption
  <2>2. rows[i].at \in Nat /\ rows[i].id \in 1 .. MaxRows
    BY RowFacts
  <2>3. rows[i].id \in Id
    BY <2>1, <2>2 DEF Id
  <2> QED BY <2>2, <2>3, PlacesDiffer
<1>8. \A a, b \in Items(flip) : a.ord = b.ord => a = b
  <2> SUFFICES ASSUME NEW i \in DOMAIN rows, NEW j \in DOMAIN rows,
                      Place(i, flip) = Place(j, flip)
               PROVE  i = j
    BY <1>1 DEF Item
  <2> QED BY PlacesDiffer
<1>9. Ids(Items(flip)) = {rows[i].id : i \in DOMAIN rows}
  <2>1. \A i \in DOMAIN rows : Item(i, flip).id = rows[i].id
    BY DEF Item
  <2> QED BY <1>1, <2>1 DEF Ids
<1> QED BY <1>6, <1>7, <1>8, <1>9 DEF Listed

LEMMA LeaderboardListed ==
  ASSUME PagesTypeOK, listing = "leaderboard", NEW flip \in BOOLEAN
  PROVE  Listed(Items(flip))
<1> DEFINE Of(c) == {i \in DOMAIN rows : rows[i].key = c}
           Ranking(c) == [ord |-> <<Cardinality(Of(c)), c>>, time |-> Cardinality(Of(c)), id |-> c]
           f == [i \in DOMAIN rows |-> Ranking(rows[i].key)]
<1>1. Items(flip) = {Ranking(c) : c \in {rows[i].key : i \in DOMAIN rows}}
  BY DEF Items, getLeaderboard
<1>2. DOMAIN rows = 1 .. Len(rows) /\ Len(rows) \in Nat
  BY RowFacts
<1>3. IsFiniteSet(DOMAIN rows)
  BY <1>2, FS_Interval
<1>4. \A c : Cardinality(Of(c)) \in Nat
  BY <1>3, FS_Subset, FS_CardinalityType
<1>5. IsFiniteSet(Items(flip))
  <2> HIDE DEF Ranking
  <2>1. f \in Surjection(DOMAIN rows, Items(flip))
    BY <1>1 DEF Surjection
  <2> QED BY <2>1, <1>3, FS_Surjection
<1> HIDE DEF Of
<1>6. \A a \in Items(flip) : a.ord \in Int \X Int /\ a.time \in Nat /\ a.id \in Id
  <2> SUFFICES ASSUME NEW i \in DOMAIN rows, NEW c, c = rows[i].key
               PROVE  Ranking(c).ord \in Int \X Int /\ Ranking(c).time \in Nat /\ Ranking(c).id \in Id
    BY <1>1
  <2>1. MaxRows \in Nat /\ MaxKey \in Nat
    BY PagesAssumption
  <2>2. c \in 1 .. MaxKey
    BY RowFacts
  <2>3. c \in Id /\ c \in Int
    BY <2>1, <2>2 DEF Id
  <2> QED BY <2>3, <1>4
<1>7. \A a, b \in Items(flip) : a.ord = b.ord => a = b
  <2> SUFFICES ASSUME NEW c, NEW d, Ranking(c).ord = Ranking(d).ord
               PROVE  Ranking(c) = Ranking(d)
    BY <1>1
  <2>1. c = d
    OBVIOUS
  <2> QED BY <2>1
<1> QED BY <1>5, <1>6, <1>7 DEF Listed

LEMMA ItemsListed ==
  ASSUME PagesTypeOK, RowsAreNamed, NEW flip \in BOOLEAN
  PROVE  Listed(Items(flip))
BY ItemsFacts, LeaderboardListed

LEMMA StampFacts ==
  ASSUME PagesTypeOK
  PROVE  \A i \in DOMAIN rows :
           Stamp(i) \in Int \X Int /\ Stamp(i)[1] = rows[i].at /\ Stamp(i)[2] = rows[i].id
BY RowFacts DEF Stamp

\* Where a cursor works, the cursor's order is the list's.
LEMMA OrdersAgree ==
  ASSUME PagesTypeOK, RowsAreNamed, listing \in CursorListings \ {"leaderboard"},
         listing = "events" => InOrder,
         NEW i \in DOMAIN rows, NEW j \in DOMAIN rows, Less(Place(i, FALSE), Place(j, FALSE))
  PROVE  Less(Stamp(i), Stamp(j))
<1>1. CASE listing = "events"
  <2>1. /\ i \in Nat /\ j \in Nat
        /\ rows[i].key \in Nat /\ rows[i].at \in Nat
        /\ rows[j].key \in Nat /\ rows[j].at \in Nat
    BY RowFacts
  <2>2. rows[i].id = i /\ rows[j].id = j
    BY <1>1 DEF RowsAreNamed
  <2>3. Place(i, FALSE) = <<rows[i].key, i>> /\ Place(j, FALSE) = <<rows[j].key, j>>
    BY <1>1 DEF Place
  <2>4. rows[i].key < rows[j].key \/ (rows[i].key = rows[j].key /\ i < j)
    <3>1. Less(<<rows[i].key, i>>, <<rows[j].key, j>>)
      BY <2>3
    <3> QED BY <3>1 DEF Less
  <2>5. j < i => rows[j].key <= rows[i].key
    BY <1>1 DEF InOrder
  <2>6. i < j
    <3>1. CASE i = j
      BY <3>1, <2>4, <2>1
    <3> QED BY <3>1, <2>4, <2>5, <2>1
  <2>7. rows[i].at <= rows[j].at
    BY <2>6 DEF RowsAreNamed
  <2>8. \A s, t : s[1] <= t[1] /\ s[1] \in Nat /\ t[1] \in Nat /\ s[2] < t[2] => Less(s, t)
    BY DEF Less
  <2> QED BY <2>1, <2>2, <2>6, <2>7, <2>8, StampFacts
<1>2. CASE listing \in {"markets", "bets"}
  <2>1. Place(i, FALSE) = Stamp(i) /\ Place(j, FALSE) = Stamp(j)
    BY <1>2 DEF Place
  <2> QED BY <2>1
<1> QED BY <1>1, <1>2 DEF CursorListings

LEMMA PagesInitial == PagesInit => PagesInv
<1> SUFFICES ASSUME PagesInit PROVE PagesInv
  OBVIOUS
<1>1. /\ listing \in Listings /\ rows = <<>> /\ DOMAIN rows = {}
      /\ reader = [pc |-> "idle", way |-> "cursor", cursor |-> <<-1, -1>>, page |-> 1, total |-> 0,
                   start |-> {}, got |-> {}, again |-> {}, ends |-> {}, raced |-> FALSE,
                    swallowed |-> FALSE]
  BY DEF PagesInit, NewReader, NoCursor
<1>2. reader \in Reader
  BY <1>1 DEF Reader
<1>3. rows \in Seq(Row)
  BY <1>1
<1> QED BY <1>1, <1>2, <1>3
        DEF PagesInv, PagesTypeOK, RowsAreNamed, HeardOf, WayOfReading, CursorDivides, PagesToCome

------------------------------------------------------------------------------
LEMMA ReaderTypes ==
  ASSUME PagesTypeOK
  PROVE  /\ reader.pc \in {"idle", "cursor", "count", "select", "turn", "done"}
         /\ reader.way \in {"cursor", "page"} /\ reader.cursor \in Int \X Int
         /\ reader.page \in Nat /\ reader.total \in Nat
         /\ reader.start \in SUBSET Id /\ reader.got \in SUBSET Id /\ reader.again \in SUBSET Id
         /\ reader.ends \in SUBSET Nat /\ reader.raced \in BOOLEAN
         /\ rows \in Seq(Row) /\ listing \in Listings
BY DEF PagesTypeOK, Reader

LEMMA PresentFacts ==
  ASSUME PagesInv
  PROVE  /\ Present \in SUBSET Id
         /\ listing # "leaderboard" => Present = {rows[i].id : i \in DOMAIN rows}
<1>1. Listed(Items(FALSE))
  BY ItemsListed DEF PagesInv
<1>2. Present \in SUBSET Id
  BY <1>1 DEF Present, Ids, Listed
<1> QED BY <1>2, ItemsFacts DEF PagesInv, Present

LEMMA AboveFacts ==
  ASSUME PagesTypeOK
  PROVE  \A i \in DOMAIN rows : IsFiniteSet(Above(i)) /\ Cardinality(Above(i)) \in Nat
<1>1. IsFiniteSet(DOMAIN rows)
  BY RowFacts, FS_Interval
<1>2. \A i \in DOMAIN rows : Above(i) \in SUBSET DOMAIN rows
  BY DEF Above
<1> QED BY <1>1, <1>2, FS_Subset, FS_CardinalityType

\* The place of a row that is not tied is the same for each order of equal keys.
LEMMA RankIsAbove ==
  ASSUME PagesTypeOK, RowsAreNamed, listing \in PageListings, NEW flip \in BOOLEAN,
         NEW i \in DOMAIN rows, Untied(i)
  PROVE  /\ Cardinality(Before(Items(flip), Item(i, flip))) = Cardinality(Above(i))
         /\ Cardinality(Above(i)) < Len(rows)
<1> DEFINE B == Before(Items(flip), Item(i, flip))
           f == [j \in Above(i) |-> Item(j, flip)]
<1>1. Items(flip) = {Item(j, flip) : j \in DOMAIN rows}
  BY ItemsAre DEF PageListings
<1>2. \A j \in DOMAIN rows : Less(Place(i, flip), Place(j, flip)) <=> Higher(j, i)
  <2> SUFFICES ASSUME NEW j \in DOMAIN rows
               PROVE  Less(Place(i, flip), Place(j, flip)) <=> Higher(j, i)
    OBVIOUS
  <2>1. /\ i \in Nat /\ j \in Nat /\ rows[i].key \in Nat /\ rows[j].key \in Nat
    BY RowFacts
  <2>2. CASE listing = "events"
    <3>1. Place(i, flip) = <<rows[i].key, i>> /\ Place(j, flip) = <<rows[j].key, j>>
      BY <2>2 DEF Place
    <3>2. Less(<<rows[i].key, i>>, <<rows[j].key, j>>) <=>
            rows[i].key < rows[j].key \/ (rows[i].key = rows[j].key /\ i < j)
      BY DEF Less
    <3> QED BY <2>2, <3>1, <3>2 DEF Higher
  <2>3. CASE listing # "events"
    <3>1. j # i => rows[j].key # rows[i].key
      BY <2>3 DEF Untied
    <3>2. Sign(flip, i) \in Int /\ Sign(flip, j) \in Int
      BY <2>1 DEF Sign
    <3>3. CASE listing = "wallet"
      <4>1. Place(i, flip) = <<rows[i].key, Sign(flip, i)>> /\ Place(j, flip) = <<rows[j].key, Sign(flip, j)>>
        BY <3>3 DEF Place
      <4>2. Less(<<rows[i].key, Sign(flip, i)>>, <<rows[j].key, Sign(flip, j)>>) <=>
              rows[i].key < rows[j].key \/ (rows[i].key = rows[j].key /\ Sign(flip, i) < Sign(flip, j))
        BY DEF Less
      <4> QED BY <2>1, <3>1, <3>2, <3>3, <4>1, <4>2 DEF Higher
    <3>4. CASE listing = "contracts"
      <4>1. Place(i, flip) = <<-rows[i].key, Sign(flip, i)>> /\ Place(j, flip) = <<-rows[j].key, Sign(flip, j)>>
        BY <3>4 DEF Place
      <4>2. Less(<<-rows[i].key, Sign(flip, i)>>, <<-rows[j].key, Sign(flip, j)>>) <=>
              -rows[i].key < -rows[j].key \/ (-rows[i].key = -rows[j].key /\ Sign(flip, i) < Sign(flip, j))
        BY DEF Less
      <4> QED BY <2>1, <3>1, <3>2, <3>4, <4>1, <4>2 DEF Higher
    <3> QED BY <2>3, <3>3, <3>4 DEF PageListings
  <2> QED BY <2>2, <2>3
<1>3. B = {Item(j, flip) : j \in Above(i)}
  BY <1>1, <1>2 DEF Before, Above, Item
<1>4. \A j, k \in DOMAIN rows : Item(j, flip) = Item(k, flip) => j = k
  <2> SUFFICES ASSUME NEW j \in DOMAIN rows, NEW k \in DOMAIN rows,
                      Item(j, flip) = Item(k, flip)
               PROVE  j = k
    OBVIOUS
  <2>1. rows[j].id = rows[k].id
    BY DEF Item
  <2> QED BY <2>1, PlacesDiffer
<1> HIDE DEF B
<1>5. f \in Bijection(Above(i), B)
  BY <1>3, <1>4 DEF Bijection, Injection, Surjection, IsInjective, Above
<1>6. Cardinality(B) = Cardinality(Above(i))
  BY <1>5, AboveFacts, FS_Bijection DEF ExistsBijection
<1>7. Cardinality(B) < Len(rows)
  BY <1>1, ItemsFacts, BeforeFinite DEF B, PageListings
<1> QED BY <1>6, <1>7 DEF B

\* A step of the reader: the rows stay.
LEMMA ReaderSteps ==
  ASSUME PagesInv, UNCHANGED <<listing, rows>>, reader' \in Reader
  PROVE  /\ PagesTypeOK' /\ RowsAreNamed'
         /\ InOrder' <=> InOrder
         /\ \A i \in DOMAIN rows : Stamp(i)' = Stamp(i) /\ Above(i)' = Above(i) /\ (Untied(i)' <=> Untied(i))
<1>1. PagesTypeOK'
  BY DEF PagesInv, PagesTypeOK
<1>2. RowsAreNamed'
  BY DEF PagesInv, RowsAreNamed
<1>3. InOrder' <=> InOrder
  BY DEF InOrder
<1>4. \A i \in DOMAIN rows : Stamp(i)' = Stamp(i) /\ Above(i)' = Above(i) /\ (Untied(i)' <=> Untied(i))
  BY DEF Stamp, Above, Higher, Untied
<1> QED BY <1>1, <1>2, <1>3, <1>4

LEMMA StartCursorStep == PagesInv /\ StartCursor => PagesInv'
<1> SUFFICES ASSUME PagesInv, StartCursor PROVE PagesInv'
  OBVIOUS
<1>1. /\ reader' = [pc |-> "cursor", way |-> "cursor", cursor |-> NoCursor, page |-> 1, total |-> 0,
                    start |-> Present, got |-> {}, again |-> {}, ends |-> {}, raced |-> FALSE,
                    swallowed |-> FALSE]
      /\ UNCHANGED <<listing, rows>> /\ listing \in CursorListings
  BY DEF StartCursor, NewReader
<1>2. Present \in SUBSET Id /\ (listing # "leaderboard" => Present = {rows[i].id : i \in DOMAIN rows})
  BY PresentFacts
<1>3. reader' \in Reader
  BY <1>1, <1>2 DEF Reader, NoCursor
<1>4. PagesTypeOK' /\ RowsAreNamed'
  BY <1>1, <1>3, ReaderSteps
<1>5. HeardOf'
  BY <1>1, <1>2 DEF HeardOf
<1>6. WayOfReading' /\ PagesToCome' /\ reader'.page >= 1
  BY <1>1 DEF WayOfReading, PagesToCome
<1>7. CursorDivides'
  BY <1>1 DEF CursorDivides
<1> QED BY <1>4, <1>5, <1>6, <1>7 DEF PagesInv

LEMMA StartPagesStep == PagesInv /\ StartPages => PagesInv'
<1> SUFFICES ASSUME PagesInv, StartPages PROVE PagesInv'
  OBVIOUS
<1>1. /\ reader' = [pc |-> "count", way |-> "page", cursor |-> NoCursor, page |-> 1, total |-> 0,
                    start |-> Present, got |-> {}, again |-> {}, ends |-> {}, raced |-> FALSE,
                    swallowed |-> FALSE]
      /\ UNCHANGED <<listing, rows>> /\ listing \in PageListings
  BY DEF StartPages, NewReader
<1>2. Present \in SUBSET Id /\ (listing # "leaderboard" => Present = {rows[i].id : i \in DOMAIN rows})
  BY PresentFacts
<1>3. reader' \in Reader
  BY <1>1, <1>2 DEF Reader, NoCursor
<1>4. PagesTypeOK' /\ RowsAreNamed'
  BY <1>1, <1>3, ReaderSteps
<1>5. HeardOf'
  BY <1>1, <1>2 DEF HeardOf
<1>6. WayOfReading' /\ CursorDivides' /\ reader'.page >= 1
  BY <1>1 DEF WayOfReading, CursorDivides
<1>7. PagesToCome'
  <2>1. \A i \in DOMAIN rows : Cardinality(Above(i)) \in Nat /\ Above(i)' = Above(i)
    BY <1>1, <1>3, AboveFacts, ReaderSteps DEF PagesInv
  <2>2. (1 - 1) * Limit = 0
    BY PagesAssumption
  <2> QED BY <1>1, <2>1, <2>2 DEF PagesToCome
<1> QED BY <1>4, <1>5, <1>6, <1>7 DEF PagesInv

LEMMA CountStep == PagesInv /\ Count => PagesInv'
<1> SUFFICES ASSUME PagesInv, Count PROVE PagesInv'
  OBVIOUS
<1>1. /\ reader' = [reader EXCEPT !.pc = "select", !.total = Cardinality(Items(FALSE))]
      /\ UNCHANGED <<listing, rows>> /\ reader.pc = "count"
  BY DEF Count
<1>2. reader.way = "page" /\ listing \in PageListings
  BY <1>1 DEF PagesInv, WayOfReading
<1>3. Cardinality(Items(FALSE)) = Len(rows) /\ Len(rows) \in Nat
  BY <1>2, ItemsFacts, RowFacts DEF PagesInv, PageListings
<1>4. reader' \in Reader
  BY <1>1, <1>3 DEF PagesInv, PagesTypeOK, Reader
<1>5. /\ reader'.way = reader.way /\ reader'.pc = "select" /\ reader'.total = Len(rows)
      /\ reader'.page = reader.page /\ reader'.start = reader.start /\ reader'.got = reader.got
      /\ reader'.raced = reader.raced /\ reader'.swallowed = reader.swallowed
  BY <1>1, <1>3 DEF PagesInv, PagesTypeOK, Reader
<1>6. PagesTypeOK' /\ RowsAreNamed'
  BY <1>1, <1>4, ReaderSteps
<1>7. HeardOf' /\ WayOfReading' /\ CursorDivides' /\ reader'.page >= 1
  BY <1>1, <1>2, <1>5 DEF PagesInv, HeardOf, WayOfReading, CursorDivides
<1>8. PagesToCome'
  <2>1. \A i \in DOMAIN rows : Above(i)' = Above(i) /\ (Untied(i)' <=> Untied(i))
    BY <1>1, <1>4, ReaderSteps
  <2> QED BY <1>1, <1>2, <1>5, <2>1 DEF PagesInv, PagesToCome
<1> QED BY <1>6, <1>7, <1>8 DEF PagesInv

LEMMA TurnStep == PagesInv /\ Turn => PagesInv'
<1> SUFFICES ASSUME PagesInv, Turn PROVE PagesInv'
  OBVIOUS
<1> DEFINE over == reader.page * Limit >= reader.total
<1>1. /\ reader' = IF over THEN [reader EXCEPT !.pc = "done"]
                   ELSE [reader EXCEPT !.pc = "count", !.page = @ + 1]
      /\ UNCHANGED <<listing, rows>> /\ reader.pc = "turn"
  BY DEF Turn
<1>2. reader.way = "page" /\ listing \in PageListings
  BY <1>1 DEF PagesInv, WayOfReading
<1>3. reader.page + 1 \in Nat /\ reader \in Reader
  BY DEF PagesInv, PagesTypeOK, Reader
<1>4. reader' \in Reader
  <2> HIDE DEF over
  <2>1. CASE over
    BY <1>1, <1>3, <2>1 DEF Reader
  <2>2. CASE ~over
    BY <1>1, <1>3, <2>2 DEF Reader
  <2> QED BY <2>1, <2>2
<1>5. /\ reader'.way = reader.way /\ reader'.start = reader.start /\ reader'.got = reader.got
      /\ reader'.raced = reader.raced /\ reader'.swallowed = reader.swallowed
      /\ over => reader'.pc = "done" /\ reader'.page = reader.page
      /\ ~over => reader'.pc = "count" /\ reader'.page = reader.page + 1
      /\ reader'.pc \in {"done", "count"}
  BY <1>1 DEF PagesInv, PagesTypeOK, Reader
<1>6. PagesTypeOK' /\ RowsAreNamed'
  BY <1>1, <1>4, ReaderSteps
<1>7. HeardOf' /\ WayOfReading' /\ CursorDivides' /\ reader'.page >= 1
  <2>1. reader.page \in Nat /\ reader.page >= 1
    BY ReaderTypes DEF PagesInv
  <2>2. reader'.page >= 1
    BY <2>1, <1>5
  <2> QED BY <1>1, <1>2, <1>5, <2>2 DEF PagesInv, HeardOf, WayOfReading, CursorDivides
<1>8. PagesToCome'
  <2>1. \A i \in DOMAIN rows : Above(i)' = Above(i) /\ (Untied(i)' <=> Untied(i))
    BY <1>1, <1>4, ReaderSteps
  <2>2. ASSUME ~reader.raced, ~reader.swallowed, NEW i \in DOMAIN rows, i \in reader.start \ reader.got, Untied(i)
        PROVE  reader'.pc = "count" /\ Cardinality(Above(i)) >= (reader'.page - 1) * Limit
    <3>1. Cardinality(Above(i)) >= reader.page * Limit /\ reader.total > reader.page * Limit
      BY <1>1, <1>2, <2>2 DEF PagesInv, PagesToCome
    <3>2. reader.page \in Nat /\ reader.total \in Nat /\ reader.page * Limit \in Nat
      BY ReaderTypes, PagesAssumption DEF PagesInv
    <3>3. ~over
      BY <3>1, <3>2
    <3>4. reader'.page - 1 = reader.page
      BY <3>2, <3>3, <1>5
    <3> QED BY <3>1, <3>3, <3>4, <1>5
  <2> QED BY <1>1, <1>2, <1>5, <2>1, <2>2 DEF PagesToCome
<1> QED BY <1>6, <1>7, <1>8 DEF PagesInv

LEMMA FetchPageStep == PagesInv /\ FetchPage => PagesInv'
<1> SUFFICES ASSUME PagesInv, FetchPage PROVE PagesInv'
  OBVIOUS
<1>1. PICK flip \in BOOLEAN :
        reader' = [Seen(Slice(Items(flip), (reader.page - 1) * Limit, Limit)) EXCEPT !.pc = "turn"]
  BY DEF FetchPage
<1> DEFINE from == (reader.page - 1) * Limit
           page == Slice(Items(flip), from, Limit)
<1>2. reader.pc = "select" /\ UNCHANGED <<listing, rows>>
  BY DEF FetchPage
<1>3. reader.way = "page" /\ listing \in PageListings /\ listing # "leaderboard"
  BY <1>2 DEF PagesInv, WayOfReading, PageListings
<1>4. reader.page \in Nat /\ reader.page >= 1 /\ Limit \in Nat /\ from \in Nat
      /\ from + Limit = reader.page * Limit
  <2>1. reader.page \in Nat /\ reader.page >= 1 /\ Limit \in Nat
    BY ReaderTypes, PagesAssumption DEF PagesInv
  <2>2. PICK q \in Nat : q = reader.page - 1
    BY <2>1
  <2>3. q * Limit \in Nat /\ (q + 1) * Limit = q * Limit + Limit
    BY <2>1, <2>2
  <2>4. reader.page = q + 1
    BY <2>1, <2>2
  <2> QED BY <2>1, <2>2, <2>3, <2>4
<1>5. Listed(Items(flip)) /\ Ids(Items(flip)) = {rows[i].id : i \in DOMAIN rows}
  BY <1>3, ItemsFacts DEF PagesInv
<1> HIDE DEF from
<1>6. page \subseteq Items(flip)
  BY DEF Slice
<1>7. Ids(page) \subseteq Ids(Items(flip)) /\ Ids(page) \in SUBSET Id
  BY <1>5, <1>6 DEF Ids, Listed
<1>8. reader' = [reader EXCEPT !.got = @ \cup Ids(page), !.again = @ \cup (reader.got \cap Ids(page)),
                               !.pc = "turn"]
  BY <1>1 DEF Seen, from
<1> HIDE DEF page
<1>9. reader' \in Reader
  BY <1>7, <1>8 DEF PagesInv, PagesTypeOK, Reader
<1>10. /\ reader'.way = reader.way /\ reader'.pc = "turn" /\ reader'.total = reader.total
       /\ reader'.page = reader.page /\ reader'.start = reader.start
       /\ reader'.got = reader.got \cup Ids(page) /\ reader'.raced = reader.raced
       /\ reader'.swallowed = reader.swallowed
  BY <1>8 DEF PagesInv, PagesTypeOK, Reader
<1>11. PagesTypeOK' /\ RowsAreNamed'
  BY <1>2, <1>9, ReaderSteps
<1>12. HeardOf'
  <2>1. \A id \in Ids(page) : \E i \in DOMAIN rows : rows[i].id = id
    BY <1>5, <1>7
  <2> QED BY <1>2, <1>3, <1>10, <2>1 DEF PagesInv, HeardOf
<1>13. WayOfReading' /\ CursorDivides' /\ reader'.page >= 1
  BY <1>2, <1>3, <1>4, <1>10 DEF PagesInv, WayOfReading, CursorDivides
<1>14. PagesToCome'
  <2>1. \A i \in DOMAIN rows : Above(i)' = Above(i) /\ (Untied(i)' <=> Untied(i))
    BY <1>2, <1>9, ReaderSteps
  <2>2. ASSUME ~reader.raced, ~reader.swallowed, NEW i \in DOMAIN rows, i \in reader.start \ reader'.got, Untied(i)
        PROVE  Cardinality(Above(i)) >= reader.page * Limit /\ reader.total > reader.page * Limit
    <3>1. Cardinality(Above(i)) >= from /\ reader.total = Len(rows)
      BY <1>2, <1>3, <1>10, <2>2 DEF PagesInv, PagesToCome, from
    <3>2. Item(i, flip) \in Items(flip) /\ Item(i, flip).id = i
      BY <1>3, ItemsAre DEF PagesInv, Item, RowsAreNamed, PageListings
    <3>3. Item(i, flip) \notin page
      BY <3>2, <1>10, <2>2 DEF Ids
    <3>4. /\ Cardinality(Before(Items(flip), Item(i, flip))) = Cardinality(Above(i))
          /\ Cardinality(Above(i)) < Len(rows)
      BY <1>3, <2>2, RankIsAbove DEF PagesInv
    <3>5. ~(Cardinality(Above(i)) < from + Limit)
      BY <3>1, <3>2, <3>3, <3>4, <1>4, <1>5, SliceIs DEF page
    <3>6. Cardinality(Above(i)) \in Nat /\ Len(rows) \in Nat
      BY AboveFacts, RowFacts DEF PagesInv
    <3> QED BY <3>1, <3>4, <3>5, <3>6, <1>4
  <2> QED BY <1>2, <1>3, <1>10, <2>1, <2>2 DEF PagesToCome
<1> QED BY <1>11, <1>12, <1>13, <1>14 DEF PagesInv

\* What the next page after a cursor is read from.
LEMMA AfterCursorFacts ==
  ASSUME PagesInv
  PROVE  /\ Listed(AfterCursor(Items(FALSE))) /\ AfterCursor(Items(FALSE)) \subseteq Items(FALSE)
         /\ listing # "leaderboard" =>
              \A i \in DOMAIN rows :
                Item(i, FALSE) \in AfterCursor(Items(FALSE)) <=>
                  (reader.cursor = NoCursor \/ Less(Stamp(i), reader.cursor))
<1>1. AfterCursor(Items(FALSE)) \in SUBSET Items(FALSE)
  BY DEF AfterCursor
<1>2. Listed(AfterCursor(Items(FALSE)))
  BY <1>1, ItemsListed, ListedSubset DEF PagesInv
<1>3. ASSUME listing # "leaderboard", NEW i \in DOMAIN rows
      PROVE  Item(i, FALSE) \in AfterCursor(Items(FALSE)) <=>
               (reader.cursor = NoCursor \/ Less(Stamp(i), reader.cursor))
  <2>1. Item(i, FALSE) \in Items(FALSE)
    BY <1>3, ItemsAre DEF PagesInv
  <2>2. <<Item(i, FALSE).time, Item(i, FALSE).id>> = Stamp(i)
    BY DEF Item, Stamp
  <2> QED BY <2>1, <2>2 DEF AfterCursor
<1> QED BY <1>1, <1>2, <1>3

Rest == AfterCursor(Items(FALSE))
Fetched == Slice(Rest, 0, Limit)

\* The step, in terms of the page: what changes in the reader.
LEMMA FetchAfterIs ==
  ASSUME PagesInv, FetchAfter
  PROVE  /\ reader' \in Reader /\ UNCHANGED <<listing, rows>>
         /\ reader'.way = reader.way /\ reader'.start = reader.start /\ reader'.page = reader.page
         /\ reader'.swallowed = reader.swallowed
         /\ reader'.got = reader.got \cup Ids(Fetched)
         /\ reader'.again = reader.again \cup (reader.got \cap Ids(Fetched))
         /\ \/ /\ Rest = Fetched /\ reader'.pc = "done" /\ reader'.ends = reader.ends
            \/ /\ Rest # {} /\ Last(Fetched) \in Fetched /\ reader'.pc = "cursor"
               /\ reader'.cursor = encodeCursor(Last(Fetched))
               /\ reader'.ends = reader.ends \cup {Ms(Last(Fetched).time)}
<1> DEFINE more == Cardinality(Rest) > Limit
           last == Last(Fetched)
<1>1. /\ reader' = [Seen(Fetched) EXCEPT
                      !.pc = IF more THEN "cursor" ELSE "done",
                      !.cursor = IF more THEN encodeCursor(last) ELSE NoCursor,
                      !.ends = IF more THEN @ \cup {Ms(last.time)} ELSE @]
      /\ UNCHANGED <<listing, rows>>
  BY DEF FetchAfter, Rest, Fetched
<1>2. Limit \in Nat /\ Limit > 0
  BY PagesAssumption
<1>3. Listed(Rest) /\ Fetched \subseteq Rest /\ Cardinality(Rest) \in Nat
  BY AfterCursorFacts, FS_CardinalityType DEF Slice, Listed, Rest, Fetched
<1>4. Ids(Fetched) \in SUBSET Id
  BY <1>3 DEF Ids, Listed
<1>5. ~more => Rest = Fetched
  <2> SUFFICES ASSUME ~more PROVE Slice(Rest, 0, Limit) = Rest
    BY DEF Fetched
  <2>0. Cardinality(Rest) \in Nat /\ Limit \in Nat /\ ~(Cardinality(Rest) > Limit)
    BY <1>2, <1>3
  <2>1. Cardinality(Rest) <= Limit
    BY <2>0
  <2> QED BY <2>1, <1>2, <1>3, OnePage DEF Fetched
<1>6. more => Rest # {} /\ last \in Fetched
  <2>1. more => Rest # {}
    <3>1. Rest = {} => Cardinality(Rest) = 0
      BY FS_EmptySet
    <3> QED BY <3>1, <1>2
  <2> QED BY <2>1, <1>2, <1>3, FirstPage DEF Fetched
<1>7. more => Ms(last.time) \in Nat /\ encodeCursor(last) \in Int \X Int
  <2> SUFFICES ASSUME more PROVE Ms(last.time) \in Nat /\ encodeCursor(last) \in Int \X Int
    OBVIOUS
  <2>1. last.time \in Nat /\ last.id \in Id
    BY <1>3, <1>6 DEF Listed
  <2>2. last.id \in Int
    <3>1. MaxRows \in Nat /\ MaxKey \in Nat
      BY PagesAssumption
    <3>2. Id \subseteq Int
      BY <3>1 DEF Id
    <3> QED BY <2>1, <3>2
  <2>3. Ms(last.time) \in Nat
    BY <2>1, MsFacts
  <2>4. encodeCursor(last) = <<IF listing = "leaderboard" THEN 0 ELSE Ms(last.time), last.id>>
    BY DEF encodeCursor
  <2> QED BY <2>2, <2>3, <2>4
<1> HIDE DEF last
<1>8. reader \in Reader
  BY DEF PagesInv, PagesTypeOK
<1> DEFINE r == Seen(Fetched)
<1>9. /\ r \in Reader /\ r.way = reader.way /\ r.start = reader.start /\ r.page = reader.page
      /\ r.got = reader.got \cup Ids(Fetched) /\ r.again = reader.again \cup (reader.got \cap Ids(Fetched))
      /\ r.ends = reader.ends /\ r.swallowed = reader.swallowed
  BY <1>4, <1>8 DEF Seen, Reader
<1> HIDE DEF r, more
<1>10. CASE more
  <2>1. reader' = [r EXCEPT !.pc = "cursor", !.cursor = encodeCursor(last), !.ends = @ \cup {Ms(last.time)}]
    BY <1>1, <1>10 DEF r
  <2>2. reader' \in Reader
    BY <2>1, <1>7, <1>9, <1>10 DEF Reader
  <2>3. /\ reader'.way = r.way /\ reader'.start = r.start /\ reader'.page = r.page
        /\ reader'.got = r.got /\ reader'.again = r.again /\ reader'.pc = "cursor"
        /\ reader'.swallowed = r.swallowed
        /\ reader'.cursor = encodeCursor(last) /\ reader'.ends = r.ends \cup {Ms(last.time)}
    BY <2>1, <1>9 DEF Reader
  <2> QED BY <2>2, <2>3, <1>1, <1>6, <1>9, <1>10 DEF last
<1>11. CASE ~more
  <2>1. reader' = [r EXCEPT !.pc = "done", !.cursor = NoCursor, !.ends = @]
    BY <1>1, <1>11 DEF r
  <2>2. reader' \in Reader
    <3>1. NoCursor \in Int \X Int
      BY DEF NoCursor
    <3>2. reader' = [r EXCEPT !.pc = "done", !.cursor = NoCursor]
      BY <2>1, <1>9 DEF Reader
    <3> QED BY <3>1, <3>2, <1>9 DEF Reader
  <2>3. /\ reader'.way = r.way /\ reader'.start = r.start /\ reader'.page = r.page
        /\ reader'.got = r.got /\ reader'.again = r.again /\ reader'.pc = "done"
        /\ reader'.ends = r.ends /\ reader'.swallowed = r.swallowed
    BY <2>1, <1>9 DEF Reader
  <2> QED BY <2>2, <2>3, <1>1, <1>5, <1>9, <1>11
<1> QED BY <1>10, <1>11

\* The cursor is at most the last item of the page, and in its millisecond.
LEMMA CursorFacts ==
  ASSUME PagesInv, listing # "leaderboard", NEW i \in DOMAIN rows
  PROVE  LET c == encodeCursor(Item(i, FALSE))
         IN /\ c \in Int \X Int /\ c # NoCursor
            /\ ~Less(Stamp(i), c)
            /\ \A j \in DOMAIN rows : Less(Stamp(j), Stamp(i)) =>
                 Less(Stamp(j), c) \/ Ms(rows[j].at) = Ms(rows[i].at)
<1> DEFINE m == Ms(rows[i].at)
<1>1. encodeCursor(Item(i, FALSE)) = <<m, rows[i].id>>
  BY DEF encodeCursor, Item
<1>2. \A j \in DOMAIN rows : rows[j].at \in Nat /\ rows[j].id \in Nat
  BY RowFacts DEF PagesInv
<1>3. m \in Nat /\ m <= rows[i].at /\ \A s \in Nat : m <= s /\ s <= rows[i].at => Ms(s) = m
  BY <1>2, MsFacts
<1> HIDE DEF m
<1>4. <<m, rows[i].id>> # NoCursor
  BY <1>3 DEF NoCursor
<1>5. ~Less(Stamp(i), <<m, rows[i].id>>)
  BY <1>2, <1>3 DEF Less, Stamp
<1>6. ASSUME NEW j \in DOMAIN rows, Less(Stamp(j), Stamp(i)), ~Less(Stamp(j), <<m, rows[i].id>>)
      PROVE  Ms(rows[j].at) = m
  <2>1. rows[j].at < rows[i].at \/ (rows[j].at = rows[i].at /\ rows[j].id < rows[i].id)
    BY <1>6 DEF Less, Stamp
  <2>2. ~(rows[j].at < m)
    BY <1>6 DEF Less, Stamp
  <2> QED BY <2>1, <2>2, <1>2, <1>3
<1>7. <<m, rows[i].id>> \in Int \X Int
  BY <1>2, <1>3
<1> HIDE DEF m
<1>8. Ms(rows[i].at) = m
  BY DEF m
<1> QED BY <1>1, <1>4, <1>5, <1>6, <1>7, <1>8

LEMMA FetchAfterStep == PagesInv /\ FetchAfter => PagesInv'
<1> SUFFICES ASSUME PagesInv, FetchAfter PROVE PagesInv'
  OBVIOUS
<1>1. reader.pc = "cursor" /\ reader.way = "cursor" /\ listing \in CursorListings
  BY DEF FetchAfter, PagesInv, WayOfReading
<1>2. Listed(Rest) /\ Rest \subseteq Items(FALSE) /\ Fetched \subseteq Rest /\ Limit \in Nat /\ Limit > 0
  <2>1. Listed(Rest) /\ Rest \subseteq Items(FALSE)
    BY AfterCursorFacts DEF Rest
  <2>2. Fetched \subseteq Rest
    BY DEF Slice, Fetched
  <2>3. Limit \in Nat /\ Limit > 0
    BY PagesAssumption
  <2> QED BY <2>1, <2>2, <2>3
<1>3. /\ reader' \in Reader /\ UNCHANGED <<listing, rows>>
      /\ reader'.way = reader.way /\ reader'.start = reader.start /\ reader'.page = reader.page
      /\ reader'.swallowed = reader.swallowed
      /\ reader'.got = reader.got \cup Ids(Fetched)
      /\ reader'.again = reader.again \cup (reader.got \cap Ids(Fetched))
      /\ \/ /\ Rest = Fetched /\ reader'.pc = "done" /\ reader'.ends = reader.ends
         \/ /\ Rest # {} /\ Last(Fetched) \in Fetched /\ reader'.pc = "cursor"
            /\ reader'.cursor = encodeCursor(Last(Fetched))
            /\ reader'.ends = reader.ends \cup {Ms(Last(Fetched).time)}
  BY FetchAfterIs
<1>4. Rest # {} => /\ \A a \in Fetched : a = Last(Fetched) \/ Less(Last(Fetched).ord, a.ord)
                /\ \A a \in Rest \ Fetched : Less(a.ord, Last(Fetched).ord)
  BY <1>2, FirstPage DEF Fetched
<1>5. listing # "leaderboard" =>
        /\ \A i \in DOMAIN rows :
             /\ Item(i, FALSE) \in Rest <=>
                  (reader.cursor = NoCursor \/ Less(Stamp(i), reader.cursor))
             /\ Item(i, FALSE) \in Items(FALSE)
        /\ \A a \in Rest : \E i \in DOMAIN rows : a = Item(i, FALSE)
  BY <1>2, AfterCursorFacts, ItemsAre DEF PagesInv, Rest
<1>6. PagesTypeOK' /\ RowsAreNamed'
  BY <1>3, ReaderSteps
<1>7. HeardOf'
  <2>1. listing # "leaderboard" => \A id \in Ids(Fetched) : \E i \in DOMAIN rows : rows[i].id = id
    <3> SUFFICES ASSUME listing # "leaderboard", NEW a \in Fetched
                 PROVE  \E i \in DOMAIN rows : rows[i].id = a.id
      BY DEF Ids
    <3> QED BY <1>2, <1>5, ItemFields
  <2> QED BY <1>3, <2>1 DEF PagesInv, HeardOf
<1>8. WayOfReading' /\ PagesToCome' /\ reader'.page >= 1
  BY <1>1, <1>3 DEF PagesInv, WayOfReading, PagesToCome
<1>9. CursorDivides'
  <2> SUFFICES ASSUME listing # "leaderboard", listing = "events" => InOrder
               PROVE  CursorDivides'
    BY <1>3, ReaderSteps DEF CursorDivides
  <2>1. /\ reader.again = {}
        /\ IF reader.cursor = NoCursor
             THEN reader.got = {}
             ELSE \A i \in DOMAIN rows : rows[i].id \in reader.got => ~Less(Stamp(i), reader.cursor)
        /\ ~reader.swallowed => \A i \in DOMAIN rows : rows[i].id \in reader.start \ reader.got =>
             \/ Ms(rows[i].at) \in reader.ends
             \/ reader.cursor = NoCursor \/ Less(Stamp(i), reader.cursor)
    BY <1>1 DEF PagesInv, CursorDivides
  <2>2. \A i \in DOMAIN rows : rows[i].id \in Ids(Fetched) <=> Item(i, FALSE) \in Fetched
    <3> TAKE i \in DOMAIN rows
    <3>1. Item(i, FALSE) \in Fetched => rows[i].id \in Ids(Fetched)
      BY DEF Ids, Item
    <3>2. ASSUME rows[i].id \in Ids(Fetched) PROVE Item(i, FALSE) \in Fetched
      <4>1. PICK a \in Fetched : a.id = rows[i].id
        BY <3>2 DEF Ids
      <4>2. PICK j \in DOMAIN rows : a = Item(j, FALSE)
        BY <4>1, <1>2, <1>5
      <4>3. rows[j].id = rows[i].id
        BY <4>1, <4>2 DEF Item
      <4>4. j = i
        BY <4>3, PlacesDiffer DEF PagesInv
      <4> QED BY <4>1, <4>2, <4>4
    <3> QED BY <3>1, <3>2
  <2>3. reader'.again = {}
    <3> SUFFICES ASSUME NEW id \in reader.got, id \in Ids(Fetched) PROVE FALSE
      BY <2>1, <1>3
    <3>1. PICK i \in DOMAIN rows : rows[i].id = id
      BY DEF PagesInv, HeardOf
    <3>2. Item(i, FALSE) \in Rest
      BY <3>1, <2>2, <1>2
    <3> QED BY <3>1, <3>2, <1>5, <2>1
  <2>4. CASE Rest = Fetched /\ reader'.pc = "done" /\ reader'.ends = reader.ends
    <3>1. ASSUME ~reader.swallowed, NEW i \in DOMAIN rows, rows[i].id \in reader'.start \ reader'.got
          PROVE  Ms(rows[i].at) \in reader.ends
      BY <3>1, <2>1, <2>2, <2>4, <1>3, <1>5
    <3> QED BY <3>1, <2>3, <2>4, <1>3, ReaderSteps DEF CursorDivides
  <2>5. CASE /\ Rest # {} /\ Last(Fetched) \in Fetched /\ reader'.pc = "cursor"
             /\ reader'.cursor = encodeCursor(Last(Fetched))
             /\ reader'.ends = reader.ends \cup {Ms(Last(Fetched).time)}
    <3>1. PICK l \in DOMAIN rows : Last(Fetched) = Item(l, FALSE)
      BY <2>5, <1>2, <1>5
    <3> DEFINE c == encodeCursor(Item(l, FALSE))
    <3>2. /\ c \in Int \X Int /\ c # NoCursor
          /\ ~Less(Stamp(l), c)
          /\ \A j \in DOMAIN rows : Less(Stamp(j), Stamp(l)) =>
               Less(Stamp(j), c) \/ Ms(rows[j].at) = Ms(rows[l].at)
      BY CursorFacts
    <3>3. reader'.cursor = c /\ reader'.ends = reader.ends \cup {Ms(rows[l].at)}
      BY <2>5, <3>1 DEF Item
    <3> HIDE DEF c
    <3>4. \A i \in DOMAIN rows : Stamp(i) \in Int \X Int
      BY StampFacts DEF PagesInv
    <3>5. reader.cursor \in Int \X Int
      BY ReaderTypes DEF PagesInv
    <3>6. ASSUME NEW i \in DOMAIN rows, rows[i].id \in reader'.got
          PROVE  ~Less(Stamp(i), c)
      <4>1. CASE Item(i, FALSE) \in Fetched
        <5>1. Item(i, FALSE) = Item(l, FALSE) \/ Less(Place(l, FALSE), Place(i, FALSE))
          BY <4>1, <3>1, <2>5, <1>4, ItemFields
        <5>2. CASE Item(i, FALSE) = Item(l, FALSE)
          <6>1. rows[i].id = rows[l].id
            BY <5>2 DEF Item
          <6>2. i = l
            BY <6>1, PlacesDiffer DEF PagesInv
          <6> QED BY <6>2, <3>2
        <5>3. CASE Less(Place(l, FALSE), Place(i, FALSE))
          <6>1. Less(Stamp(l), Stamp(i))
            BY <5>3, <1>1, OrdersAgree DEF PagesInv
          <6> QED BY <6>1, <3>2, <3>4, LessOrders
        <5> QED BY <5>1, <5>2, <5>3
      <4>2. CASE Item(i, FALSE) \notin Fetched
        <5>1. rows[i].id \in reader.got
          BY <4>2, <3>6, <2>2, <1>3
        <5>2. reader.cursor # NoCursor /\ ~Less(Stamp(i), reader.cursor)
          BY <5>1, <2>1
        <5>3. Less(Stamp(l), reader.cursor)
          BY <5>2, <3>1, <2>5, <1>2, <1>5
        <5>4. Less(Stamp(l), Stamp(i))
          BY <5>2, <5>3, <3>4, <3>5, LessOrders
        <5> QED BY <5>4, <3>2, <3>4, LessOrders
      <4> QED BY <4>1, <4>2
    <3>7. ASSUME ~reader.swallowed, NEW i \in DOMAIN rows, rows[i].id \in reader'.start \ reader'.got
          PROVE  Ms(rows[i].at) \in reader'.ends \/ Less(Stamp(i), c)
      <4>1. rows[i].id \in reader.start \ reader.got /\ Item(i, FALSE) \notin Fetched
        BY <3>7, <2>2, <1>3
      <4>2. CASE Ms(rows[i].at) \in reader.ends
        BY <4>2, <3>3
      <4>3. CASE reader.cursor = NoCursor \/ Less(Stamp(i), reader.cursor)
        <5>1. Item(i, FALSE) \in Rest \ Fetched
          BY <4>1, <4>3, <1>5
        <5>2. Less(Place(i, FALSE), Place(l, FALSE))
          BY <5>1, <3>1, <2>5, <1>4, ItemFields
        <5>3. Less(Stamp(i), Stamp(l))
          BY <5>2, <1>1, OrdersAgree DEF PagesInv
        <5> QED BY <5>3, <3>2, <3>3
      <4> QED BY <4>1, <4>2, <4>3, <3>7, <2>1
    <3>8. \A i \in DOMAIN rows : Stamp(i)' = Stamp(i) /\ rows'[i] = rows[i]
      BY <1>3, ReaderSteps
    <3> QED BY <3>2, <3>3, <3>6, <3>7, <3>8, <2>3, <2>5, <1>3 DEF CursorDivides
  <2> QED BY <1>3, <2>4, <2>5
<1> QED BY <1>6, <1>7, <1>8, <1>9 DEF PagesInv

LEMMA InsertStep ==
  ASSUME NEW k \in 1 .. MaxKey, NEW t \in 0 .. MaxTime, NEW id \in 1 .. MaxRows
  PROVE  PagesInv /\ Insert(k, t, id) => PagesInv'
<1> SUFFICES ASSUME PagesInv, Insert(k, t, id) PROVE PagesInv'
  OBVIOUS
<1> DEFINE n == Len(rows) + 1
           row == [key |-> k, at |-> t, id |-> id]
<1>1. /\ rows' = Append(rows, row) /\ listing' = listing
      /\ reader' = [reader EXCEPT !.raced = @ \/ reader.pc = "select"]
      /\ \A i \in DOMAIN rows : rows[i].at <= t /\ rows[i].id # id
      /\ listing \notin {"markets", "bets"} => id = n
  BY DEF Insert
<1>2. rows \in Seq(Row) /\ row \in Row /\ reader \in Reader
  BY DEF PagesInv, PagesTypeOK, Row
<1>3. /\ DOMAIN rows = 1 .. Len(rows) /\ Len(rows) \in Nat
  BY RowFacts DEF PagesInv
<1>4. /\ rows' \in Seq(Row) /\ Len(rows') = n /\ DOMAIN rows' = 1 .. n
      /\ \A i \in DOMAIN rows : rows'[i] = rows[i]
      /\ rows'[n] = row
  <2> HIDE DEF row
  <2> QED BY <1>1, <1>2, <1>3
<1>5. /\ n \in Nat /\ n \notin DOMAIN rows /\ DOMAIN rows' = DOMAIN rows \cup {n}
      /\ \A i \in DOMAIN rows : i \in Nat /\ i < n
  BY <1>3, <1>4
<1>6. rows'[n].key = k /\ rows'[n].at = t /\ rows'[n].id = id
  BY <1>4
<1>7. /\ reader'.pc = reader.pc /\ reader'.way = reader.way /\ reader'.start = reader.start
      /\ reader'.got = reader.got /\ reader'.again = reader.again /\ reader'.ends = reader.ends
      /\ reader'.cursor = reader.cursor /\ reader'.page = reader.page /\ reader'.total = reader.total
      /\ reader'.raced = (reader.raced \/ reader.pc = "select")
      /\ reader'.swallowed = reader.swallowed
  BY <1>1, <1>2 DEF Reader
<1>8. reader' \in Reader
  <2>1. (reader.raced \/ reader.pc = "select") \in BOOLEAN
    OBVIOUS
  <2> QED BY <1>1, <1>2, <2>1 DEF Reader
<1> HIDE DEF n, row
<1>9. PagesTypeOK' /\ reader'.page >= 1
  BY <1>1, <1>4, <1>7, <1>8 DEF PagesInv, PagesTypeOK
<1>10. RowsAreNamed'
  <2>1. \A i \in DOMAIN rows' : listing \notin {"markets", "bets"} => rows'[i].id = i
    BY <1>1, <1>4, <1>5, <1>6 DEF PagesInv, RowsAreNamed
  <2>2. \A i, j \in DOMAIN rows' : i # j => rows'[i].id # rows'[j].id
    BY <1>1, <1>4, <1>5, <1>6 DEF PagesInv, RowsAreNamed
  <2>3. \A i, j \in DOMAIN rows' : i < j => rows'[i].at <= rows'[j].at
    <3> SUFFICES ASSUME NEW i \in DOMAIN rows', NEW j \in DOMAIN rows', i < j
                 PROVE  rows'[i].at <= rows'[j].at
      OBVIOUS
    <3>1. i \in DOMAIN rows
      BY <1>5
    <3>2. CASE j \in DOMAIN rows
      BY <3>1, <3>2, <1>4 DEF PagesInv, RowsAreNamed
    <3>3. CASE j = n
      BY <3>1, <3>3, <1>1, <1>4, <1>6
    <3> QED BY <3>2, <3>3, <1>5
  <2> QED BY <2>1, <2>2, <2>3, <1>1 DEF RowsAreNamed
<1>11. HeardOf'
  BY <1>1, <1>4, <1>5, <1>7 DEF PagesInv, HeardOf
<1>12. WayOfReading'
  BY <1>1, <1>7 DEF PagesInv, WayOfReading
<1>13. listing # "leaderboard" => id \notin reader.start \cup reader.got
  BY <1>1 DEF PagesInv, HeardOf
<1>14. \A i \in DOMAIN rows : Stamp(i)' = Stamp(i)
  BY <1>4 DEF Stamp
<1>15. InOrder' => InOrder
  BY <1>4, <1>5 DEF InOrder
<1>16. CursorDivides'
  BY <1>1, <1>4, <1>5, <1>6, <1>7, <1>13, <1>14, <1>15 DEF PagesInv, CursorDivides
<1>17. PagesToCome'
  <2> SUFFICES ASSUME reader.way = "page", ~reader.raced, ~reader.swallowed, reader.pc # "select",
                      NEW i \in DOMAIN rows', i \in reader.start \ reader.got, Untied(i)'
               PROVE  /\ reader.pc # "done"
                      /\ reader.pc \in {"count", "select"} =>
                           Cardinality(Above(i)') >= (reader.page - 1) * Limit
                      /\ reader.pc = "turn" => /\ Cardinality(Above(i)') >= reader.page * Limit
                                               /\ reader.total > reader.page * Limit
    BY <1>7 DEF PagesToCome
  <2>1. listing \in PageListings
    BY DEF PagesInv, WayOfReading
  <2>2. i \in DOMAIN rows
    BY <1>1, <1>5, <1>13, <2>1 DEF PageListings
  <2>3. Untied(i)
    BY <1>1, <1>4, <1>5, <2>2 DEF Untied
  <2>4. Above(i) \subseteq Above(i)'
    BY <1>1, <1>4, <1>5, <2>2 DEF Above, Higher
  <2>5. IsFiniteSet(Above(i)') /\ Cardinality(Above(i)') \in Nat
    <3>1. IsFiniteSet(DOMAIN rows')
      BY <1>4, <1>5, FS_Interval
    <3>2. Above(i)' \in SUBSET DOMAIN rows'
      BY DEF Above
    <3> QED BY <3>1, <3>2, FS_Subset, FS_CardinalityType
  <2>6. Cardinality(Above(i)) \in Nat /\ Cardinality(Above(i)) <= Cardinality(Above(i)')
    BY <2>2, <2>4, <2>5, AboveFacts, FS_Subset DEF PagesInv
  <2>7. reader.page * Limit \in Nat /\ (reader.page - 1) * Limit \in Int
    BY ReaderTypes, PagesAssumption DEF PagesInv
  <2>8. /\ reader.pc # "done"
        /\ reader.pc \in {"count", "select"} => Cardinality(Above(i)) >= (reader.page - 1) * Limit
        /\ reader.pc = "turn" => /\ Cardinality(Above(i)) >= reader.page * Limit
                                 /\ reader.total > reader.page * Limit
    BY <2>2, <2>3 DEF PagesInv, PagesToCome
  <2> QED BY <2>5, <2>6, <2>7, <2>8
<1> QED BY <1>9, <1>10, <1>11, <1>12, <1>16, <1>17 DEF PagesInv

\* Another name: only lists by page number have names, and the reader is said to have raced.
LEMMA RenameStep ==
  ASSUME NEW r \in DOMAIN rows, NEW k \in 1 .. MaxKey
  PROVE  PagesInv /\ Rename(r, k) => PagesInv'
<1> SUFFICES ASSUME PagesInv, Rename(r, k) PROVE PagesInv'
  OBVIOUS
<1>1. /\ listing = "contracts" /\ listing' = listing
      /\ rows' = [rows EXCEPT ![r].key = k]
      /\ reader' = [reader EXCEPT !.raced = TRUE]
  BY DEF Rename
<1>2. rows \in Seq(Row) /\ reader \in Reader /\ \A i \in DOMAIN rows : rows[i] \in Row
  BY DEF PagesInv, PagesTypeOK
<1>3. /\ rows' \in Seq(Row) /\ DOMAIN rows' = DOMAIN rows
      /\ \A i \in DOMAIN rows : rows'[i].id = rows[i].id /\ rows'[i].at = rows[i].at
  <2>1. [rows[r] EXCEPT !.key = k] \in Row
    BY <1>2 DEF Row
  <2>2. rows' \in Seq(Row) /\ DOMAIN rows' = DOMAIN rows
    BY <1>1, <1>2, <2>1
  <2>3. \A i \in DOMAIN rows : rows'[i].id = rows[i].id /\ rows'[i].at = rows[i].at
    BY <1>1, <1>2 DEF Row
  <2> QED BY <2>2, <2>3
<1>4. /\ reader'.pc = reader.pc /\ reader'.way = reader.way /\ reader'.start = reader.start
      /\ reader'.got = reader.got /\ reader'.page = reader.page /\ reader'.again = reader.again
      /\ reader'.raced = TRUE /\ reader'.swallowed = reader.swallowed
  BY <1>1, <1>2 DEF Reader
<1>5. reader' \in Reader
  BY <1>1, <1>2 DEF Reader
<1>6. PagesTypeOK' /\ reader'.page >= 1
  BY <1>1, <1>3, <1>4, <1>5 DEF PagesInv, PagesTypeOK
<1>7. RowsAreNamed' /\ HeardOf' /\ WayOfReading' /\ PagesToCome'
  BY <1>1, <1>3, <1>4 DEF PagesInv, RowsAreNamed, HeardOf, WayOfReading, PagesToCome
<1>8. CursorDivides'
  <2>1. reader.way = "cursor" => reader.pc = "idle"
    BY <1>1 DEF PagesInv, WayOfReading, CursorListings
  <2>2. reader.way = "cursor" => reader.start = {} /\ reader.again = {}
    BY <1>1, <2>1 DEF PagesInv, WayOfReading, CursorDivides
  <2> QED BY <1>1, <1>4, <2>1, <2>2 DEF CursorDivides
<1> QED BY <1>6, <1>7, <1>8 DEF PagesInv

\* A failing query ends the walk and says so, or has the page asked for again.
LEMMA QueryFailsStep == PagesInv /\ (CursorQueryFails \/ PageQueryFails) => PagesInv'
<1> SUFFICES ASSUME PagesInv, CursorQueryFails \/ PageQueryFails PROVE PagesInv'
  OBVIOUS
<1>1. /\ UNCHANGED <<listing, rows>> /\ reader \in Reader
      /\ reader.pc \in {"cursor", "count", "select"}
  BY DEF CursorQueryFails, PageQueryFails, PagesInv, PagesTypeOK
<1>2. /\ reader' \in Reader
      /\ reader'.way = reader.way /\ reader'.start = reader.start /\ reader'.got = reader.got
      /\ reader'.again = reader.again /\ reader'.page = reader.page /\ reader'.raced = reader.raced
      /\ \/ reader'.pc = "done" /\ reader'.swallowed = TRUE
         \/ /\ reader.pc \in {"count", "select"} /\ reader'.pc = "count"
            /\ reader'.swallowed = reader.swallowed /\ reader'.ends = reader.ends
  <2>1. CASE CursorQueryFails
    BY <1>1, <2>1 DEF CursorQueryFails, Reader
  <2>2. CASE PageQueryFails
    <3>1. CASE reader' = [reader EXCEPT !.pc = "count"]
      BY <1>1, <2>2, <3>1 DEF PageQueryFails, Reader
    <3>2. CASE reader' = [reader EXCEPT !.pc = "done", !.total = 0, !.swallowed = TRUE]
      BY <1>1, <3>2 DEF Reader
    <3> QED BY <2>2, <3>1, <3>2 DEF PageQueryFails
  <2> QED BY <2>1, <2>2
<1>3. /\ PagesTypeOK' /\ RowsAreNamed' /\ (InOrder' <=> InOrder)
      /\ \A i \in DOMAIN rows :
           Stamp(i)' = Stamp(i) /\ Above(i)' = Above(i) /\ (Untied(i)' <=> Untied(i))
  BY <1>1, <1>2, ReaderSteps
<1>4. HeardOf' /\ WayOfReading' /\ reader'.page >= 1
  BY <1>1, <1>2 DEF PagesInv, HeardOf, WayOfReading
<1>5. CursorDivides'
  <2>1. reader.way = "cursor" => reader'.pc = "done" /\ reader'.swallowed
    BY <1>2 DEF PagesInv, WayOfReading
  <2> QED BY <1>1, <1>2, <1>3, <2>1 DEF PagesInv, CursorDivides
<1>6. PagesToCome'
  BY <1>1, <1>2, <1>3 DEF PagesInv, PagesToCome
<1> QED BY <1>3, <1>4, <1>5, <1>6 DEF PagesInv

LEMMA PagesStep == PagesInv /\ [PagesNext]_pageVars => PagesInv'
<1> SUFFICES ASSUME PagesInv, [PagesNext]_pageVars PROVE PagesInv'
  OBVIOUS
<1>1. CASE UNCHANGED pageVars
  <2>1. listing' = listing /\ rows' = rows /\ reader' = reader
    BY <1>1 DEF pageVars
  <2>2. reader' \in Reader
    BY <2>1 DEF PagesInv, PagesTypeOK
  <2>3. /\ PagesTypeOK' /\ RowsAreNamed' /\ (InOrder' <=> InOrder)
        /\ \A i \in DOMAIN rows :
             Stamp(i)' = Stamp(i) /\ Above(i)' = Above(i) /\ (Untied(i)' <=> Untied(i))
    BY <2>1, <2>2, ReaderSteps
  <2>4. HeardOf' /\ WayOfReading' /\ reader'.page >= 1
    BY <2>1 DEF PagesInv, HeardOf, WayOfReading
  <2>5. CursorDivides'
    BY <2>1, <2>3 DEF PagesInv, CursorDivides
  <2>6. PagesToCome'
    BY <2>1, <2>3 DEF PagesInv, PagesToCome
  <2> QED BY <2>3, <2>4, <2>5, <2>6 DEF PagesInv
<1>2. CASE PagesNext
  BY <1>2, InsertStep, RenameStep, StartCursorStep, FetchAfterStep, StartPagesStep, CountStep,
     FetchPageStep, TurnStep, QueryFailsStep DEF PagesNext
<1> QED BY <1>1, <1>2

\* A finished walk by cursor has what was not read in a millisecond where a page ended, and a
\* finished walk by page number only misses rows that are tied.
LEMMA DoneIsComplete == PagesInv => WalkIsComplete
<1> SUFFICES ASSUME PagesInv, reader.pc = "done" PROVE WalkIsComplete
  BY DEF WalkIsComplete, OnlySameInstantMissed, NextMissesNothing
<1>1. OnlySameInstantMissed
  <2> SUFFICES ASSUME reader.way = "cursor", listing # "leaderboard", listing = "events" => InOrder
               PROVE  /\ reader.again = {}
                      /\ ~reader.swallowed => \A a \in Items(FALSE) :
                           a.id \in reader.start \ reader.got => Ms(a.time) \in reader.ends
    BY DEF OnlySameInstantMissed
  <2>1. /\ reader.again = {}
        /\ ~reader.swallowed => \A i \in DOMAIN rows : rows[i].id \in reader.start \ reader.got =>
             Ms(rows[i].at) \in reader.ends
    BY DEF PagesInv, CursorDivides
  <2>2. ASSUME ~reader.swallowed, NEW a \in Items(FALSE), a.id \in reader.start \ reader.got
        PROVE  Ms(a.time) \in reader.ends
    <3>1. PICK i \in DOMAIN rows : a = Item(i, FALSE)
      BY ItemsAre DEF PagesInv
    <3> QED BY <3>1, <2>1, <2>2, ItemFields
  <2> QED BY <2>1, <2>2
<1>2. NextMissesNothing
  <2> SUFFICES ASSUME reader.way = "page", ~reader.raced, ~reader.swallowed, NEW id \in reader.start \ reader.got
               PROVE  /\ listing \in {"wallet", "contracts"}
                      /\ \E i \in DOMAIN rows : i # id /\ rows[i].key = rows[id].key
    BY DEF NextMissesNothing
  <2>1. listing \in PageListings
    BY DEF PagesInv, WayOfReading
  <2>2. PICK i \in DOMAIN rows : rows[i].id = id
    BY <2>1 DEF PagesInv, HeardOf, PageListings
  <2>3. i = id
    BY <2>1, <2>2 DEF PagesInv, RowsAreNamed, PageListings
  <2>4. ~Untied(i)
    BY <2>3 DEF PagesInv, PagesToCome
  <2> QED BY <2>1, <2>3, <2>4 DEF Untied, PageListings
<1> QED BY <1>1, <1>2 DEF WalkIsComplete

\* db.js: for any rows, page size, times and precision of the cursor, a walk through a list while
\* rows are inserted misses only what shares the cursor's millisecond, or, by page number in a
\* list without a complete order, the sort key, or what was to come when a query failed and the
\* list took the failure for its end.
THEOREM PagesWalkIsComplete == PagesSpec => []WalkIsComplete
<1> QED BY PagesInitial, PagesStep, DoneIsComplete, PTL DEF PagesSpec

\* The rows and what the reader holds have their types.
THEOREM PagesTypeCorrect == PagesSpec => []PagesTypeOK
<1>1. PagesInv => PagesTypeOK
  BY DEF PagesInv
<1> QED BY <1>1, PagesInitial, PagesStep, PTL DEF PagesSpec
==============================================================================
