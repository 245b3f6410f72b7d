--------------------------- MODULE IndexerProofs ---------------------------
(***************************************************************************)
(* An indexer that is given a START_LEDGER skips nothing, for every chain, *)
(* every content of its ledgers and every number of failures and crashes:  *)
(* what the handlers write does not matter for that.  And once it has      *)
(* caught up with the chain, its tables are what the chain calls for.      *)
(***************************************************************************)
EXTENDS Indexer, NaturalsInduction, WellFoundedInduction, TLAPS

Busy == {"upsertEvent", "recordLedger"} \cup HandlerQueries

\* The types of what the loop works on.
LoopTypes ==
    /\ chain \in Seq(LedgerContents)
    /\ eventRows \in [Place -> Nat]
    /\ pc \in {"down", "poll", "getEvents"} \cup Busy
    /\ cursor \in Nat /\ latest \in Nat
    /\ todo \subseteq Place

\* A start from START_LEDGER is always the same start.
Restarts ==
    /\ origin \in {None, START_LEDGER}
    /\ pc # "down" => origin = START_LEDGER

\* The cursor is never beyond the next ledger, unless the start was.
CursorIsNear == pc # "down" => cursor <= Len(chain) + 1 \/ cursor = START_LEDGER

\* Below the cursor everything is stored.
StoredBelow ==
    pc # "down" => \A p \in PlacesFrom(START_LEDGER) : p[1] < cursor => eventRows[p] > 0

\* During a pass, so is everything of the pass that is not waiting.
StoredInPass ==
    pc \in Busy =>
        /\ latest <= Len(chain)
        /\ \A p \in PlacesFrom(cursor) : p[1] <= latest /\ p \notin todo => eventRows[p] > 0

\* A handler runs after its event was stored.
StoredAtHand == pc \in HandlerQueries => (At \in Place => eventRows[At] > 0)

\* The pass ends when nothing waits.
EndsEmpty == pc = "recordLedger" => todo = {}

IInv ==
    /\ LoopTypes
    /\ Restarts
    /\ CursorIsNear
    /\ StoredBelow
    /\ StoredInPass
    /\ StoredAtHand
    /\ EndsEmpty

USE IndexerAssumption

----------------------------------------------------------------------------

\* Nothing is stored and nothing is claimed to be.
LEMMA InitIInv == Init => IInv
<1> SUFFICES ASSUME Init PROVE IInv
  OBVIOUS
<1>1. chain \in Seq(LedgerContents)
  BY DEF Init
<1> QED
  BY <1>1 DEF Init, IInv, LoopTypes, Restarts, CursorIsNear, StoredBelow, StoredInPass,
       StoredAtHand, EndsEmpty, Busy, HandlerQueries

\* One more copy of an event leaves the others as they are.
LEMMA OneMoreRow ==
    ASSUME NEW a, NEW f \in [Place -> Nat], NEW g, g = [f EXCEPT ![a] = @ + 1]
    PROVE  /\ g \in [Place -> Nat]
           /\ \A p \in Place : g[p] >= f[p]
           /\ a \in Place => g[a] > 0
<1>1. ASSUME NEW p \in Place PROVE g[p] \in Nat /\ g[p] >= f[p] /\ (p = a => g[p] > 0)
  <2>1. f[p] \in Nat
    OBVIOUS
  <2>2. CASE p = a
    <3>1. g[p] = f[p] + 1
      BY <2>2
    <3> QED
      BY <2>1, <3>1
  <2>3. CASE p # a
    <3>1. g[p] = f[p]
      BY <2>3
    <3> QED
      BY <2>1, <2>3, <3>1
  <2> QED
    BY <2>2, <2>3
<1>2. g = [p \in Place |-> g[p]]
  OBVIOUS
<1> QED
  BY <1>1, <1>2

\* Leaving the event at hand keeps the invariant once the event is stored,
\* whichever event it is.
LEMMA NextEventKeeps ==
    ASSUME IInv, NextEvent, pc \in {"upsertEvent"} \cup HandlerQueries,
           UNCHANGED <<chain, loop, origin>>,
           eventRows' \in [Place -> Nat],
           \A p \in Place : eventRows'[p] >= eventRows[p],
           At \in Place => eventRows'[At] > 0
    PROVE  IInv'
<1> USE DEF IInv, Busy, HandlerQueries, loop
<1>1. LoopTypes'
  BY DEF LoopTypes, NextEvent
<1>2. Restarts' /\ CursorIsNear' /\ EndsEmpty' /\ StoredAtHand'
  BY DEF Restarts, CursorIsNear, EndsEmpty, NextEvent, StoredAtHand, LoopTypes
<1>3. StoredBelow'
  BY DEF StoredBelow, NextEvent, PlacesFrom, LoopTypes
<1>4. StoredInPass'
  BY DEF StoredInPass, NextEvent, PlacesFrom, LoopTypes
<1> QED
  BY <1>1, <1>2, <1>3, <1>4

\* So does giving up the pass or the process.
LEMMA LeavingKeeps ==
    ASSUME IInv, pc # "down", pc' \in {"poll", "down"}, todo' = {},
           UNCHANGED <<chain, loop, origin>>,
           eventRows' \in [Place -> Nat],
           \A p \in Place : eventRows'[p] >= eventRows[p]
    PROVE  IInv'
BY DEF IInv, LoopTypes, Restarts, CursorIsNear, StoredBelow, StoredInPass, StoredAtHand,
   EndsEmpty, Busy, HandlerQueries, loop, PlacesFrom

\* And so does a query of a handler after which the event is still at hand.
LEMMA QueryKeeps ==
    ASSUME IInv, pc \in HandlerQueries, pc' \in HandlerQueries,
           UNCHANGED <<chain, eventRows, loop, todo, origin>>
    PROVE  IInv'
BY DEF IInv, LoopTypes, Restarts, CursorIsNear, StoredBelow, StoredInPass, StoredAtHand,
   EndsEmpty, Busy, HandlerQueries, loop, PlacesFrom, At

\* A step of the fetch: one that goes on or gives up, or the last page.
LEMMA FetchSteps ==
    ASSUME GetLatestLedger \/ FetchPage \/ LedgerChanged \/ FetchFails, latest \in Nat,
           Len(chain) \in Nat
    PROVE  /\ pc \in {"poll", "getEvents"} /\ latest' \in Nat
           /\ UNCHANGED <<chain, eventRows, submissions, disputes, markets, cursor, history>>
           /\ submission' \in {submission, None}
           /\ \/ pc' \in {"poll", "getEvents"} /\ todo' \in {todo, {}}
              \/ /\ latest' = Len(chain) /\ todo' = PlacesFrom(cursor)
                 /\ pc' \in {"upsertEvent", "recordLedger"}
                 /\ pc' = "recordLedger" <=> todo' = {}
BY DEF GetLatestLedger, FetchPage, LedgerChanged, FetchFails, AbortPass, loop, history

\* Fetching without reaching the last page keeps the invariant.
LEMMA FetchKeeps ==
    ASSUME IInv, pc # "down", pc' \in {"poll", "getEvents"}, todo' \subseteq Place,
           latest' \in Nat, UNCHANGED <<chain, eventRows, cursor, origin>>
    PROVE  IInv'
BY DEF IInv, LoopTypes, Restarts, CursorIsNear, StoredBelow, StoredInPass, StoredAtHand,
   EndsEmpty, Busy, HandlerQueries, PlacesFrom

----------------------------------------------------------------------------

\* Every step of the indexer and of the chain preserves the invariant.
LEMMA NextIInv ==
    ASSUME START_LEDGER # 0
    PROVE  IInv /\ [Next]_vars => IInv'
<1> SUFFICES ASSUME IInv, [Next]_vars PROVE IInv'
  OBVIOUS
<1>1. CASE Start
  <2>1. /\ cursor' = START_LEDGER /\ pc' = "poll" /\ START_LEDGER \in Nat
        /\ origin' = START_LEDGER
        /\ UNCHANGED <<chain, eventRows, latest, todo>>
    BY <1>1 DEF Start, StartCursor, IInv, Restarts
  <2>2. LoopTypes' /\ Restarts' /\ CursorIsNear' /\ EndsEmpty' /\ StoredAtHand' /\ StoredInPass'
    BY <2>1 DEF IInv, LoopTypes, Restarts, CursorIsNear, EndsEmpty, StoredAtHand, StoredInPass,
       Busy, HandlerQueries
  <2>3. StoredBelow'
    BY <2>1 DEF StoredBelow, PlacesFrom, Place
  <2> QED
    BY <2>2, <2>3 DEF IInv
<1>2. CASE GetLatestLedger \/ FetchPage \/ LedgerChanged \/ FetchFails
  <2>1. /\ latest \in Nat /\ Len(chain) \in Nat /\ todo \subseteq Place /\ cursor \in Nat
        /\ chain \in Seq(LedgerContents) /\ eventRows \in [Place -> Nat]
    BY DEF IInv, LoopTypes
  <2>2. CASE pc' \in {"poll", "getEvents"} /\ todo' \in {todo, {}}
    BY <1>2, <2>1, <2>2, FetchSteps, FetchKeeps DEF history
  <2>3. CASE /\ latest' = Len(chain) /\ todo' = PlacesFrom(cursor)
             /\ pc' \in {"upsertEvent", "recordLedger"}
             /\ pc' = "recordLedger" <=> todo' = {}
    <3>1. pc # "down" /\ UNCHANGED <<chain, eventRows, cursor, origin>> /\ todo' \subseteq Place
      BY <1>2, <2>1, <2>3, FetchSteps DEF history, PlacesFrom
    <3>2. LoopTypes' /\ Restarts' /\ CursorIsNear' /\ EndsEmpty' /\ StoredAtHand'
      BY <2>1, <2>3, <3>1 DEF IInv, LoopTypes, Restarts, CursorIsNear, EndsEmpty, StoredAtHand,
         Busy, HandlerQueries
    <3>3. StoredBelow' /\ StoredInPass'
      BY <2>1, <2>3, <3>1 DEF IInv, StoredBelow, StoredInPass, PlacesFrom
    <3> QED
      BY <3>2, <3>3 DEF IInv
  <2> QED
    BY <1>2, <2>1, <2>2, <2>3, FetchSteps
<1>3. CASE StoreEvent
  <2>1. /\ eventRows' \in [Place -> Nat]
        /\ \A p \in Place : eventRows'[p] >= eventRows[p]
        /\ At \in Place => eventRows'[At] > 0
    <3>1. eventRows \in [Place -> Nat] /\ eventRows' = [eventRows EXCEPT ![At] = @ + 1]
      BY <1>3 DEF StoreEvent, IInv, LoopTypes
    <3> QED
      BY <3>1, OneMoreRow
  <2>2. CASE EventAt(At).kind = "other"
    BY <1>3, <2>1, <2>2, NextEventKeeps DEF StoreEvent, history
  <2>3. CASE EventAt(At).kind # "other"
    <3>1. /\ pc' \in HandlerQueries
          /\ UNCHANGED <<chain, todo, cursor, latest, origin>>
          /\ pc = "upsertEvent"
      BY <1>3, <2>3 DEF StoreEvent, FirstQuery, HandlerQueries, loop, history
    <3>2. At' = At
      BY <3>1 DEF At
    <3> QED
      BY <2>1, <3>1, <3>2 DEF IInv, LoopTypes, Restarts, CursorIsNear, StoredBelow,
         StoredInPass, StoredAtHand, EndsEmpty, Busy, HandlerQueries, PlacesFrom
  <2> QED
    BY <2>2, <2>3
<1>4. CASE StoreEventFails
  <2>1. /\ eventRows' \in [Place -> Nat]
        /\ \A p \in Place : eventRows'[p] >= eventRows[p]
    <3>1. /\ eventRows \in [Place -> Nat]
          /\ \/ eventRows' = eventRows
             \/ eventRows' = [eventRows EXCEPT ![At] = @ + 1]
      BY <1>4 DEF StoreEventFails, IInv, LoopTypes
    <3>2. CASE eventRows' = eventRows
      BY <3>1, <3>2
    <3>3. CASE eventRows' = [eventRows EXCEPT ![At] = @ + 1]
      BY <3>1, <3>3, OneMoreRow
    <3> QED
      BY <3>1, <3>2, <3>3
  <2> QED
    BY <1>4, <2>1, LeavingKeeps DEF StoreEventFails, AbortPass, history
<1>5. CASE InsertSubmission
  BY <1>5, QueryKeeps DEF InsertSubmission, HandlerQueries, history
<1>6. CASE FindSubmission
  <2>1. /\ pc \in HandlerQueries /\ UNCHANGED <<chain, eventRows, loop, origin>>
        /\ NextEvent \/ (pc' \in HandlerQueries /\ UNCHANGED todo)
    BY <1>6 DEF FindSubmission, HandlerQueries, history
  <2>2. /\ eventRows' \in [Place -> Nat]
        /\ \A p \in Place : eventRows'[p] >= eventRows[p]
        /\ At \in Place => eventRows'[At] > 0
    BY <2>1 DEF IInv, LoopTypes, StoredAtHand
  <2> QED
    BY <2>1, <2>2, NextEventKeeps, QueryKeeps
<1>7. CASE InsertDispute
  BY <1>7, QueryKeeps DEF InsertDispute, HandlerQueries, history
<1>8. CASE UpdateStatus
  BY <1>8, QueryKeeps DEF UpdateStatus, HandlerQueries, history
<1>9. CASE UpsertMarket \/ HandlerFails
  <2>1. /\ pc \in HandlerQueries /\ UNCHANGED <<chain, eventRows, loop, origin>>
        /\ NextEvent
    BY <1>9 DEF UpsertMarket, HandlerFails, HandlerQueries, history
  <2>2. /\ eventRows' \in [Place -> Nat]
        /\ \A p \in Place : eventRows'[p] >= eventRows[p]
        /\ At \in Place => eventRows'[At] > 0
    BY <2>1 DEF IInv, LoopTypes, StoredAtHand
  <2> QED
    BY <2>1, <2>2, NextEventKeeps
<1>10. CASE FinishPass
  <2>1. LoopTypes' /\ Restarts' /\ CursorIsNear' /\ EndsEmpty' /\ StoredAtHand' /\ StoredInPass'
    BY <1>10 DEF FinishPass, IInv, LoopTypes, Restarts, CursorIsNear, EndsEmpty, StoredAtHand,
       StoredInPass, Busy, HandlerQueries, history
  <2>2. StoredBelow'
    <3>1. /\ cursor' = latest + 1 /\ todo = {} /\ cursor \in Nat /\ latest \in Nat
          /\ UNCHANGED <<chain, eventRows>>
          /\ \A p \in PlacesFrom(START_LEDGER) : p[1] < cursor => eventRows[p] > 0
          /\ \A p \in PlacesFrom(cursor) : p[1] <= latest => eventRows[p] > 0
      BY <1>10 DEF FinishPass, IInv, LoopTypes, StoredBelow, StoredInPass, EndsEmpty, Busy
    <3>2. SUFFICES ASSUME NEW p \in PlacesFrom(START_LEDGER), p[1] <= latest
                   PROVE  eventRows[p] > 0
      BY <3>1 DEF StoredBelow, PlacesFrom, Place
    <3>3. p[1] \in Nat
      BY DEF PlacesFrom, Place
    <3>4. CASE p[1] < cursor
      BY <3>1, <3>4
    <3>5. CASE cursor <= p[1]
      <4>1. p \in PlacesFrom(cursor)
        BY <3>5 DEF PlacesFrom
      <4> QED
        BY <3>1, <3>2, <4>1
    <3> QED
      BY <3>1, <3>3, <3>4, <3>5
  <2> QED
    BY <2>1, <2>2 DEF IInv
<1>11. CASE FinishPassFails
  BY <1>11, LeavingKeeps DEF FinishPassFails, AbortPass, IInv, LoopTypes, history
<1>12. CASE Crash
  BY <1>12, LeavingKeeps DEF Crash, IInv, LoopTypes, history
<1>13. CASE CloseLedger
  <2>1. PICK c \in LedgerContents : chain' = Append(chain, c)
    BY <1>13 DEF CloseLedger
  <2>2. /\ chain' \in Seq(LedgerContents) /\ Len(chain') = Len(chain) + 1
        /\ \A l \in 1 .. Len(chain) : chain'[l] = chain[l]
    BY <2>1 DEF IInv, LoopTypes
  <2>3. \A p \in Place, f \in Nat : p \in PlacesFrom(f)' /\ p[1] <= Len(chain) => p \in PlacesFrom(f)
    BY <2>2 DEF PlacesFrom, Place, IInv, LoopTypes
  <2>4. \A f \in Nat : PlacesFrom(f)' \subseteq {p \in Place : f <= p[1]}
    BY DEF PlacesFrom
  <2>5. UNCHANGED <<eventRows, pc, cursor, latest, todo, origin>>
    BY <1>13 DEF CloseLedger, loop, history
  <2>6. At' = At
    BY <2>5 DEF At
  <2>7. LoopTypes' /\ Restarts' /\ CursorIsNear' /\ EndsEmpty' /\ StoredAtHand'
    BY <2>2, <2>5, <2>6 DEF IInv, LoopTypes, Restarts, CursorIsNear, EndsEmpty, StoredAtHand
  <2>8. StoredBelow'
    BY <2>2, <2>3, <2>4, <2>5 DEF IInv, LoopTypes, CursorIsNear, StoredBelow, Place
  <2>9. StoredInPass'
    BY <2>2, <2>3, <2>4, <2>5 DEF IInv, LoopTypes, StoredInPass, Place
  <2> QED
    BY <2>7, <2>8, <2>9 DEF IInv
<1>14. CASE UNCHANGED vars
  BY <1>14 DEF vars, loop, history, IInv, LoopTypes, Restarts, CursorIsNear, StoredBelow,
     StoredInPass, StoredAtHand, EndsEmpty, PlacesFrom, At
<1> QED
  BY <1>1, <1>2, <1>3, <1>4, <1>5, <1>6, <1>7, <1>8, <1>9, <1>10, <1>11, <1>12, <1>13, <1>14
  DEF Next, Process

\* With a START_LEDGER, the loop of index.js stores every event from there to
\* its cursor, in every run of the process, through every exception the loop
\* catches and every crash.
THEOREM NothingIsEverSkipped ==
    ASSUME START_LEDGER # 0
    PROVE  Spec => []NothingIsSkipped
<1>1. IInv => NothingIsSkipped
  BY DEF IInv, Restarts, StoredBelow, NothingIsSkipped
<1> QED
  BY <1>1, InitIInv, NextIInv, PTL DEF Spec

----------------------------------------------------------------------------
(* The tables.  A repeated event may leave a table behind what it already   *)
(* was, and a dispute may be recorded against a later submission; but then  *)
(* an event that puts it right is still ahead in this pass or the next.     *)

\* The events this run of the process has not dealt with yet, or has to deal with again.
Done(p) == p[1] < cursor \/ (pc \in Busy /\ p[1] <= latest /\ p \notin todo)
Ahead(p) == p \in PlacesFrom(origin) /\ ~Done(p)

Subs(m) == {p \in EventsOf(m) : EventAt(p).kind = "oracle_submission"}

\* i is the row getLatestOracleSubmission finds.
RowsOf(m) == {i \in DOMAIN submissions : submissions[i].market = m}
IsLatest(i, m) ==
    /\ i \in RowsOf(m)
    /\ \A j \in RowsOf(m) : \/ submissions[j].ledger < submissions[i].ledger
                            \/ submissions[j].ledger = submissions[i].ledger /\ j <= i

TableTypes ==
    /\ submissions \in Seq(Submission)
    /\ markets \in [Markets -> MarketRow \cup {None}]
    /\ submission \in DOMAIN submissions \cup {None}

\* The pass goes through its events in order.
PassInOrder ==
    /\ pc \in {"upsertEvent"} \cup HandlerQueries => todo # {}
    /\ pc # "down" => cursor >= START_LEDGER
    /\ pc = "getEvents" => cursor <= Len(chain)
    /\ pc \in Busy => /\ cursor <= latest
                      /\ todo \subseteq {p \in PlacesFrom(cursor) : p[1] <= latest}
                      /\ \A p \in PlacesFrom(cursor), q \in todo :
                            p[1] <= latest /\ p \notin todo => Before(p, q)

Untouched == origin = None => submissions = <<>> /\ \A m \in Markets : markets[m] = None

\* Whatever is in the tables comes from an event of the chain.
RowsComeFromEvents ==
    /\ \A i \in DOMAIN submissions : \E q \in Subs(submissions[i].market) :
          submissions[i].outcome = EventAt(q).outcome /\ submissions[i].ledger = q[1]
    /\ \A m \in Markets : markets[m] # None => Deciding(m) # {}

\* Where the handler of the event at hand is.
HandlerPlace ==
    pc \in HandlerQueries =>
        LET e == EventAt(At)
        IN  /\ e.kind # "other"
            /\ pc = "insertSubmission" => e.kind = "oracle_submission"
            /\ pc \in {"findSubmission", "updateStatus"} =>
                  e.kind \in {"oracle_dispute", "oracle_finalized"}
            /\ pc = "insertDispute" => e.kind = "oracle_dispute"
            /\ pc \in {"insertDispute", "updateStatus"} => submission # None
            /\ pc \in {"insertDispute", "updateStatus", "upsertMarket"} =>
                  IF e.kind = "oracle_submission"
                  THEN /\ submissions # <<>>
                       /\ LET r == submissions[Len(submissions)]
                          IN  /\ r.market = e.market /\ r.outcome = e.outcome
                              /\ r.ledger = At[1] /\ r.status = "pending"
                  ELSE IF submission = None
                       THEN e.kind = "oracle_finalized" /\ RowsOf(e.market) = {}
                       ELSE /\ IsLatest(submission, e.market)
                            /\ pc = "upsertMarket" => submissions[submission].status =
                                  (IF e.kind = "oracle_dispute" THEN "disputed" ELSE "finalized")

\* A submission that was dealt with has a row.
SubmissionsHaveRows == \A m \in Markets : \A p \in Subs(m) : Done(p) => RowsOf(m) # {}

\* Unless there is a submission ahead, the last one's copy is the row that is found.
LatestIsLast(m) ==
    \/ \E p \in Subs(m) : Ahead(p)
    \/ \A p \in Subs(m) : (\A q \in Subs(m) : q # p => Before(q, p)) =>
          \E i \in RowsOf(m) : IsLatest(i, m) /\ submissions[i].outcome = EventAt(p).outcome

RowIsLast(m) == (\E p \in Deciding(m) : Ahead(p)) \/ markets[m] = RowOf(m)

Agrees(i, m) ==
    \/ markets[m].oracle_state = "submitted" /\ submissions[i].status = "pending"
    \/ markets[m].oracle_state = "disputed" /\ submissions[i].status = "disputed"
    \/ markets[m].oracle_state = "finalized" /\ submissions[i].status = "finalized"

RowsAgree(m) ==
    \/ \E p \in Subs(m) : Ahead(p)
    \/ pc = "upsertMarket" /\ EventAt(At).market = m
    \/ \A i \in RowsOf(m) : IsLatest(i, m) => Agrees(i, m)

Converging ==
    pc # "down" /\ ~swallowed =>
        /\ SubmissionsHaveRows
        /\ \A m \in Markets : LatestIsLast(m) /\ RowIsLast(m) /\ RowsAgree(m)

Base == IInv /\ TableTypes /\ PassInOrder /\ swallowed \in BOOLEAN
RInv ==
    /\ Base /\ Untouched /\ RowsComeFromEvents
    /\ HandlerPlace /\ Converging

----------------------------------------------------------------------------
(* The order of the places.                                                *)

\* A set of naturals has a least element.
LEMMA LeastNatural ==
    ASSUME NEW S \in SUBSET Nat, S # {}
    PROVE  \E m \in S : \A k \in S : m <= k
<1>1. PICK m \in S : \A k \in S : <<k, m>> \notin OpToRel(<, Nat)
  BY NatLessThanWellFounded, WFMin
<1>2. ASSUME NEW k \in S PROVE m <= k
  <2>1. ~(k < m)
    BY <1>1 DEF OpToRel
  <2> QED
    BY <2>1
<1> QED
  BY <1>2

\* Two places are in order one way only.
LEMMA InOrder ==
    ASSUME NEW p \in Place, NEW q \in Place
    PROVE  /\ ~Before(p, p)
           /\ p = q \/ Before(p, q) \/ Before(q, p)
           /\ Before(p, q) => p # q /\ ~Before(q, p) /\ p[1] <= q[1]
BY DEF Before, Place

\* A set of places that has any has a first one.
LEMMA FirstExists ==
    ASSUME NEW S \in SUBSET Place, S # {}
    PROVE  /\ First(S) \in S
           /\ \A q \in S : q # First(S) => Before(First(S), q)
<1> DEFINE A == {p[1] : p \in S}
<1>1. A \in SUBSET Nat /\ A # {}
  BY DEF Place
<1>2. PICK a \in A : \A k \in A : a <= k
  BY <1>1, LeastNatural
<1> DEFINE B == {p[2] : p \in {q \in S : q[1] = a}}
<1>3. B \in SUBSET Nat /\ B # {}
  BY <1>2 DEF Place
<1>4. PICK b \in B : \A k \in B : b <= k
  BY <1>3, LeastNatural
<1>5. PICK p \in S : p[1] = a /\ p[2] = b
  BY <1>4
<1>6. ASSUME NEW q \in S, q # p PROVE Before(p, q)
  <2>1. p \in Place /\ q \in Place /\ p[1] <= q[1]
    BY <1>2, <1>5
  <2>2. q[1] = a => p[2] <= q[2]
    BY <1>4, <1>5
  <2> QED
    BY <1>5, <1>6, <2>1, <2>2 DEF Before, Place
<1> QED
  BY <1>5, <1>6 DEF First

\* And a last one.
LEMMA LastExists ==
    ASSUME NEW S \in SUBSET Place, S # {}
    PROVE  /\ Last(S) \in S
           /\ \A q \in S : q # Last(S) => Before(q, Last(S))
<1> DEFINE A == {MaxLedger - p[1] : p \in S}
<1>1. A \in SUBSET Nat /\ A # {}
  BY DEF Place
<1>2. PICK a \in A : \A k \in A : a <= k
  BY <1>1, LeastNatural
<1> DEFINE B == {MaxPerLedger - p[2] : p \in {q \in S : MaxLedger - q[1] = a}}
<1>3. B \in SUBSET Nat /\ B # {}
  BY <1>2 DEF Place
<1>4. PICK b \in B : \A k \in B : b <= k
  BY <1>3, LeastNatural
<1>5. PICK p \in S : MaxLedger - p[1] = a /\ MaxPerLedger - p[2] = b
  BY <1>4
<1>6. ASSUME NEW q \in S, q # p PROVE Before(q, p)
  <2>1. p \in Place /\ q \in Place
    OBVIOUS
  <2>2. MaxLedger - p[1] <= MaxLedger - q[1]
    BY <1>2, <1>5
  <2>3. MaxLedger - q[1] = a => MaxPerLedger - p[2] <= MaxPerLedger - q[2]
    BY <1>4, <1>5
  <2> QED
    BY <1>5, <1>6, <2>1, <2>2, <2>3 DEF Before, Place
<1> QED
  BY <1>5, <1>6 DEF Last

\* And no other.
LEMMA LastIs ==
    ASSUME NEW S \in SUBSET Place, NEW p \in S, \A q \in S : q # p => Before(q, p)
    PROVE  Last(S) = p
<1>1. Last(S) \in S /\ \A q \in S : q # Last(S) => Before(q, Last(S))
  BY LastExists
<1> QED
  BY <1>1, InOrder

----------------------------------------------------------------------------
(* The row that is found.                                                  *)

\* What a row is.
LEMMA RowTypes ==
    ASSUME TableTypes
    PROVE  \A j \in DOMAIN submissions :
             /\ j \in Nat /\ j <= Len(submissions) /\ Len(submissions) \in Nat
             /\ submissions[j] \in Submission
             /\ submissions[j].ledger \in Nat /\ submissions[j].ledger <= MaxLedger
<1>1. \A j \in DOMAIN submissions :
        /\ j \in Nat /\ j <= Len(submissions) /\ Len(submissions) \in Nat
        /\ submissions[j] \in Submission
  BY DEF TableTypes
<1>2. \A r \in Submission : r.ledger \in Nat /\ r.ledger <= MaxLedger
  BY DEF Submission
<1> QED
  BY <1>1, <1>2

\* It is the one row that no other row of the market comes after.
LEMMA LatestIs ==
    ASSUME TableTypes, NEW m, NEW i, IsLatest(i, m)
    PROVE  /\ getLatestOracleSubmission(m) = i
           /\ \A j : IsLatest(j, m) => j = i
<1>1. \A j \in DOMAIN submissions : j \in Nat /\ submissions[j].ledger \in Nat
  BY RowTypes
<1>2. \A j : IsLatest(j, m) => j = i
  BY <1>1 DEF IsLatest, RowsOf
<1> DEFINE OK(j) == \A k \in RowsOf(m) :
                <<submissions[k].ledger, k>> = <<submissions[j].ledger, j>>
                \/ Before(<<submissions[k].ledger, k>>, <<submissions[j].ledger, j>>)
<1>3. OK(i)
  BY <1>1 DEF IsLatest, RowsOf, Before
<1>4. ASSUME NEW j \in RowsOf(m), OK(j) PROVE j = i
  <2>1. <<submissions[i].ledger, i>> = <<submissions[j].ledger, j>>
        \/ Before(<<submissions[i].ledger, i>>, <<submissions[j].ledger, j>>)
    BY <1>4 DEF IsLatest
  <2> QED
    BY <1>1, <2>1 DEF IsLatest, RowsOf, Before
<1>5. i \in RowsOf(m)
  BY DEF IsLatest
<1>6. getLatestOracleSubmission(m) = CHOOSE j \in RowsOf(m) : OK(j)
  BY <1>5 DEF getLatestOracleSubmission, RowsOf
<1> QED
  BY <1>2, <1>3, <1>4, <1>5, <1>6

\* A market with rows has such a row.
LEMMA LatestExists ==
    ASSUME TableTypes, NEW m, RowsOf(m) # {}
    PROVE  \E i : IsLatest(i, m)
<1>1. \A j \in DOMAIN submissions :
        /\ j \in Nat /\ j <= Len(submissions) /\ Len(submissions) \in Nat
        /\ submissions[j].ledger \in Nat /\ submissions[j].ledger <= MaxLedger
  BY RowTypes
<1> DEFINE A == {MaxLedger - submissions[j].ledger : j \in RowsOf(m)}
<1>2. A \in SUBSET Nat /\ A # {}
  BY <1>1 DEF RowsOf
<1>3. PICK a \in A : \A k \in A : a <= k
  BY <1>2, LeastNatural
<1> DEFINE B == {Len(submissions) - j : j \in {k \in RowsOf(m) : MaxLedger - submissions[k].ledger = a}}
<1>4. B \in SUBSET Nat /\ B # {}
  BY <1>1, <1>3 DEF RowsOf
<1>5. PICK b \in B : \A k \in B : b <= k
  BY <1>4, LeastNatural
<1>6. PICK i \in RowsOf(m) : MaxLedger - submissions[i].ledger = a /\ Len(submissions) - i = b
  BY <1>5
<1>7. ASSUME NEW j \in RowsOf(m)
      PROVE  \/ submissions[j].ledger < submissions[i].ledger
             \/ submissions[j].ledger = submissions[i].ledger /\ j <= i
  <2>1. MaxLedger - submissions[i].ledger <= MaxLedger - submissions[j].ledger
    BY <1>3, <1>6
  <2>2. MaxLedger - submissions[j].ledger = a => Len(submissions) - i <= Len(submissions) - j
    BY <1>5, <1>6
  <2>3. j \in DOMAIN submissions /\ i \in DOMAIN submissions
    BY DEF RowsOf
  <2> QED
    BY <1>1, <1>6, <2>1, <2>2, <2>3
<1> QED
  BY <1>6, <1>7 DEF IsLatest

\* And it is what the query finds.
LEMMA FoundIs ==
    ASSUME TableTypes, NEW m
    PROVE  IF RowsOf(m) = {} THEN getLatestOracleSubmission(m) = None
           ELSE /\ IsLatest(getLatestOracleSubmission(m), m)
                /\ getLatestOracleSubmission(m) \in DOMAIN submissions
                /\ getLatestOracleSubmission(m) # None
<1>1. CASE RowsOf(m) = {}
  BY <1>1 DEF getLatestOracleSubmission, RowsOf
<1>2. CASE RowsOf(m) # {}
  <2>1. PICK i : IsLatest(i, m)
    BY <1>2, LatestExists
  <2>2. getLatestOracleSubmission(m) = i
    BY <2>1, LatestIs
  <2>3. i \in DOMAIN submissions /\ i \in Nat
    BY <2>1, RowTypes DEF IsLatest, RowsOf
  <2> QED
    BY <1>2, <2>1, <2>2, <2>3
<1> QED
  BY <1>1, <1>2

----------------------------------------------------------------------------
(* The events.                                                             *)

\* A place of the chain has an event.
LEMMA PlaceFacts ==
    ASSUME LoopTypes, NEW f \in Nat, NEW p \in PlacesFrom(f)
    PROVE  /\ p \in Place /\ f <= p[1] /\ p[1] <= Len(chain)
           /\ p[1] \in Nat /\ EventAt(p) \in Event
<1>1. /\ p \in Place /\ f <= p[1] /\ p[1] <= Len(chain) /\ p[2] <= Len(chain[p[1]])
      /\ p[1] \in Nat /\ p[1] >= 1 /\ p[2] \in Nat /\ p[2] >= 1
  BY DEF PlacesFrom, Place
<1>2. chain[p[1]] \in Seq(Event)
  <2>1. chain \in Seq(LedgerContents)
    BY DEF LoopTypes
  <2>2. p[1] \in 1 .. Len(chain)
    BY <1>1, <2>1
  <2>3. chain[p[1]] \in LedgerContents
    BY <2>1, <2>2
  <2> QED
    BY <2>3
<1>3. chain[p[1]][p[2]] \in Event
  BY <1>1, <1>2
<1> QED
  BY <1>1, <1>3 DEF EventAt

\* The submissions are among the events that decide a market's row.
LEMMA SubsDecide ==
    ASSUME NEW m
    PROVE  /\ Subs(m) \subseteq Deciding(m)
           /\ Deciding(m) \subseteq EventsOf(m)
           /\ Deciding(m) \subseteq PlacesFrom(origin) /\ PlacesFrom(origin) \subseteq Place
           /\ \A p \in Deciding(m) : EventAt(p).market = m
           /\ \A q : EventAt(q).market = m => SubmissionsBefore(q) = {p \in Subs(m) : Before(p, q)}
BY DEF Subs, Deciding, EventsOf, SubmissionsBefore, PlacesFrom

\* Where the event at hand is: everything dealt with is before it, everything
\* else of the pass after it.
LEMMA AtFacts ==
    ASSUME START_LEDGER # 0, Base, pc \in {"upsertEvent"} \cup HandlerQueries
    PROVE  /\ At \in todo /\ At \in PlacesFrom(origin) /\ At \in Place /\ Ahead(At)
           /\ EventAt(At) \in Event
           /\ \A q \in todo : q # At => Before(At, q)
           /\ \A p \in PlacesFrom(origin) : Done(p) <=> Before(p, At)
<1>1. /\ todo \in SUBSET Place /\ todo # {} /\ pc \in Busy /\ pc # "down"
      /\ origin = START_LEDGER /\ cursor >= START_LEDGER /\ START_LEDGER \in Nat /\ cursor \in Nat
      /\ LoopTypes /\ latest \in Nat
      /\ todo \subseteq {p \in PlacesFrom(cursor) : p[1] <= latest}
      /\ \A p \in PlacesFrom(cursor), q \in todo : p[1] <= latest /\ p \notin todo => Before(p, q)
  BY DEF Base, IInv, LoopTypes, PassInOrder, Restarts, Busy, HandlerQueries
<1>2. At \in todo /\ \A q \in todo : q # At => Before(At, q)
  BY <1>1, FirstExists DEF At
<1>3. At \in PlacesFrom(cursor) /\ At[1] <= latest
  BY <1>1, <1>2
<1>4. At \in Place /\ cursor <= At[1] /\ At[1] \in Nat /\ EventAt(At) \in Event
  BY <1>1, <1>3, PlaceFacts
<1>5. At \in PlacesFrom(origin)
  BY <1>1, <1>3, <1>4 DEF PlacesFrom
<1>6. ~Done(At)
  BY <1>1, <1>2, <1>4 DEF Done
<1>7. ASSUME NEW p \in PlacesFrom(origin), Done(p) PROVE Before(p, At)
  <2>1. p \in Place /\ p[1] \in Nat
    BY <1>1, PlaceFacts
  <2>2. CASE p[1] < cursor
    BY <1>1, <1>4, <2>1, <2>2 DEF Before
  <2>3. CASE ~(p[1] < cursor)
    <3>1. p \in PlacesFrom(cursor)
      BY <1>1, <2>1, <2>3 DEF PlacesFrom
    <3>2. p[1] <= latest /\ p \notin todo
      BY <1>7, <2>3 DEF Done
    <3> QED
      BY <1>1, <1>2, <3>1, <3>2
  <2> QED
    BY <2>2, <2>3
<1>8. ASSUME NEW p \in PlacesFrom(origin), Before(p, At) PROVE Done(p)
  <2>1. p \in Place /\ p[1] \in Nat
    BY <1>1, PlaceFacts
  <2>2. p[1] <= At[1] /\ p[1] <= latest /\ p # At /\ ~Before(At, p)
    BY <1>1, <1>3, <1>4, <1>8, <2>1, InOrder
  <2>3. p \notin todo
    BY <1>2, <2>2
  <2> QED
    BY <1>1, <2>2, <2>3 DEF Done
<1> QED
  BY <1>2, <1>4, <1>5, <1>6, <1>7, <1>8 DEF Ahead

\* What the chain calls for changes with the chain only.
LEMMA SameChain ==
    ASSUME UNCHANGED <<chain, origin>>
    PROVE  /\ \A f : PlacesFrom(f)' = PlacesFrom(f)
           /\ PlacesFrom(origin)' = PlacesFrom(origin)
           /\ \A p : EventAt(p)' = EventAt(p)
           /\ \A m : /\ Subs(m)' = Subs(m)
                     /\ Deciding(m)' = Deciding(m)
                     /\ RowOf(m)' = RowOf(m)
<1>1. /\ \A f : PlacesFrom(f)' = PlacesFrom(f)
      /\ PlacesFrom(origin)' = PlacesFrom(origin)
      /\ \A p : EventAt(p)' = EventAt(p)
  BY DEF PlacesFrom, EventAt
<1>2. \A m : EventsOf(m)' = EventsOf(m)
  BY <1>1 DEF EventsOf
<1>3. \A q : SubmissionsBefore(q)' = SubmissionsBefore(q)
  BY <1>1, <1>2 DEF SubmissionsBefore
<1>4. \A m : Subs(m)' = Subs(m) /\ Deciding(m)' = Deciding(m)
  BY <1>1, <1>2, <1>3 DEF Subs, Deciding
<1>5. ASSUME NEW m PROVE RowOf(m)' = RowOf(m)
  <2>1. Last(Deciding(m))' = Last(Deciding(m))
    BY <1>4 DEF Last
  <2>2. \A q : Last(SubmissionsBefore(q))' = Last(SubmissionsBefore(q))
    BY <1>3 DEF Last
  <2>3. \A p : RowAfter(p)' = RowAfter(p)
    BY <1>1, <2>2 DEF RowAfter
  <2>4. RowAfter(Last(Deciding(m)))' = RowAfter(Last(Deciding(m)))
    BY <1>1, <2>1, <2>2 DEF RowAfter
  <2> QED
    BY <1>4, <2>4 DEF RowOf
<1> QED
  BY <1>1, <1>4, <1>5

\* What is found, with the rows only.
LEMMA SameRows ==
    ASSUME submissions' = submissions
    PROVE  \A m : /\ RowsOf(m)' = RowsOf(m)
                  /\ \A i : IsLatest(i, m)' <=> IsLatest(i, m)
BY DEF RowsOf, IsLatest

\* A step of the loop that deals with no event that decides a row leaves all in order.
LEMMA QuietStep ==
    ASSUME Base, Converging, pc # "down", pc # "upsertMarket",
           UNCHANGED <<chain, origin, submissions, markets>>, swallowed' = swallowed,
           \A m \in Markets : \A p \in Deciding(m) : Done(p)' => Done(p)
    PROVE  Converging'
<1> SUFFICES ASSUME ~swallowed PROVE Converging'
  BY DEF Converging
<1>1. SubmissionsHaveRows /\ \A m \in Markets : LatestIsLast(m) /\ RowIsLast(m) /\ RowsAgree(m)
  BY DEF Converging
<1>2. SubmissionsHaveRows'
  BY <1>1, SameChain, SameRows, SubsDecide DEF SubmissionsHaveRows
<1>3. ASSUME NEW m \in Markets PROVE LatestIsLast(m)' /\ RowIsLast(m)' /\ RowsAgree(m)'
  <2>1. \A p \in Deciding(m) : Ahead(p) => Ahead(p)'
    BY SameChain DEF Ahead
  <2>2. \A p \in Subs(m) : Ahead(p) => Ahead(p)'
    BY <2>1, SubsDecide
  <2>3. LatestIsLast(m)'
    BY <1>1, <2>2, SameChain, SameRows DEF LatestIsLast
  <2>4. RowIsLast(m)'
    BY <1>1, <2>1, SameChain DEF RowIsLast
  <2>5. RowsAgree(m)'
    <3>1. RowsAgree(m)
      BY <1>1
    <3> QED
      BY <3>1, <2>2, SameChain, SameRows DEF RowsAgree, Agrees
  <2> QED
    BY <2>3, <2>4, <2>5
<1> QED
  BY <1>2, <1>3 DEF Converging

\* Rows that stay still come from events.
LEMMA RowsStay ==
    ASSUME Untouched, RowsComeFromEvents, UNCHANGED <<chain, origin, submissions, markets>>
    PROVE  Untouched' /\ RowsComeFromEvents'
<1>1. RowsComeFromEvents'
  BY SameChain DEF RowsComeFromEvents
<1> QED
  BY <1>1 DEF Untouched

\* Leaving the event at hand, it has been dealt with and nothing else has.
LEMMA NextEventOrder ==
    ASSUME START_LEDGER # 0, Base, pc \in {"upsertEvent"} \cup HandlerQueries,
           NextEvent, UNCHANGED <<chain, loop, origin>>
    PROVE  /\ PassInOrder' /\ HandlerPlace'
           /\ pc' \in Busy /\ pc' \notin HandlerQueries
           /\ \A p \in PlacesFrom(origin) : Done(p)' <=> Done(p) \/ p = At
<1> USE DEF Busy, HandlerQueries, loop
<1>1. /\ todo' = todo \ {At} /\ pc' \in {"upsertEvent", "recordLedger"}
      /\ pc' = "upsertEvent" => todo' # {}
      /\ UNCHANGED <<chain, cursor, latest, origin>>
  BY DEF NextEvent
<1>2. PassInOrder'
  <2>1. /\ cursor <= latest /\ cursor >= START_LEDGER
        /\ todo \subseteq {p \in PlacesFrom(cursor) : p[1] <= latest}
        /\ \A p \in PlacesFrom(cursor), q \in todo : p[1] <= latest /\ p \notin todo => Before(p, q)
    BY DEF Base, PassInOrder
  <2>2. PlacesFrom(cursor)' = PlacesFrom(cursor)
    BY <1>1 DEF PlacesFrom
  <2>3. ASSUME NEW p \in PlacesFrom(cursor), NEW q \in todo', p[1] <= latest, p \notin todo'
        PROVE  Before(p, q)
    <3>1. CASE p = At
      BY <1>1, <3>1, AtFacts
    <3>2. CASE p # At
      BY <1>1, <2>1, <2>3, <3>2
    <3> QED
      BY <3>1, <3>2
  <2> QED
    BY <1>1, <2>1, <2>2, <2>3 DEF PassInOrder
<1>3. HandlerPlace'
  BY <1>1 DEF HandlerPlace
<1>4. ASSUME NEW p \in PlacesFrom(origin) PROVE Done(p)' <=> Done(p) \/ p = At
  <2>1. Done(p) <=> p[1] < cursor \/ (p[1] <= latest /\ p \notin todo)
    BY DEF Done
  <2>2. Done(p)' <=> p[1] < cursor \/ (p[1] <= latest /\ (p \notin todo \/ p = At))
    BY <1>1 DEF Done
  <2>3. At[1] <= latest
    BY AtFacts DEF Base, PassInOrder
  <2> QED
    BY <2>1, <2>2, <2>3
<1> QED
  BY <1>1, <1>2, <1>3, <1>4

\* A query after which the event is still at hand deals with nothing.
LEMMA QueryOrder ==
    ASSUME START_LEDGER # 0, Base, pc \in {"upsertEvent"} \cup HandlerQueries,
           pc' \in HandlerQueries, UNCHANGED <<chain, loop, todo, origin>>
    PROVE  /\ PassInOrder' /\ At' = At /\ EventAt(At)' = EventAt(At)
           /\ \A p : Done(p)' <=> Done(p)
<1> USE DEF Busy, HandlerQueries, loop
<1>1. PassInOrder'
  <2>1. PlacesFrom(cursor)' = PlacesFrom(cursor)
    BY DEF PlacesFrom
  <2> QED
    BY <2>1, AtFacts DEF Base, PassInOrder
<1>2. At' = At
  BY DEF At
<1> QED
  BY <1>1, <1>2 DEF Done, EventAt

\* Giving up the pass, everything of it is ahead again.
LEMMA AbortOrder ==
    ASSUME Base, pc # "down", pc' = "poll", todo' = {}, UNCHANGED <<chain, loop, origin>>
    PROVE  PassInOrder' /\ HandlerPlace' /\ \A p : Done(p)' => Done(p)
BY DEF Base, PassInOrder, HandlerPlace, Done, Busy, HandlerQueries, loop

----------------------------------------------------------------------------
(* The steps.                                                              *)

Rest ==
    /\ TableTypes /\ PassInOrder /\ swallowed \in BOOLEAN
    /\ Untouched /\ RowsComeFromEvents
    /\ HandlerPlace /\ Converging

\* A start: everything is ahead.
LEMMA StartRest ==
    ASSUME START_LEDGER # 0, RInv, Start
    PROVE  Rest'
<1>1. /\ cursor' = START_LEDGER /\ START_LEDGER \in Nat /\ pc' = "poll" /\ origin' = START_LEDGER
      /\ origin = None \/ origin = START_LEDGER
      /\ swallowed' = FALSE /\ START_LEDGER # None
      /\ UNCHANGED <<chain, submissions, markets, todo, submission>>
  BY DEF Start, StartCursor, RInv, Base, IInv, Restarts
<1>2. TableTypes' /\ PassInOrder' /\ swallowed' \in BOOLEAN /\ Untouched' /\ HandlerPlace'
  <2>1. TableTypes'
    BY <1>1 DEF TableTypes, RInv, Base
  <2>2. PassInOrder'
    BY <1>1 DEF PassInOrder, Busy, HandlerQueries
  <2>3. swallowed' \in BOOLEAN
    BY <1>1
  <2>4. Untouched'
    BY <1>1 DEF Untouched
  <2>5. HandlerPlace'
    BY <1>1 DEF HandlerPlace, HandlerQueries
  <2> QED
    BY <2>1, <2>2, <2>3, <2>4, <2>5
<1>3. RowsComeFromEvents'
  <2>1. CASE origin = None
    BY <1>1, <2>1 DEF RInv, Untouched, RowsComeFromEvents
  <2>2. CASE origin = START_LEDGER
    BY <1>1, <2>2, RowsStay DEF RInv
  <2> QED
    BY <1>1, <2>1, <2>2
<1>4. \A p \in PlacesFrom(origin)' : ~Done(p)' /\ Ahead(p)'
  <2>1. \A p \in PlacesFrom(origin)' : p[1] \in Nat /\ START_LEDGER <= p[1]
    BY <1>1 DEF PlacesFrom, Place
  <2>2. \A p : Done(p)' <=> p[1] < START_LEDGER
    BY <1>1 DEF Done, Busy, HandlerQueries
  <2>3. \A p \in PlacesFrom(origin)' : ~Done(p)'
    BY <1>1, <2>1, <2>2
  <2> QED
    BY <2>3 DEF Ahead
<1>5. SubmissionsHaveRows'
  BY <1>4 DEF SubmissionsHaveRows, Subs, EventsOf
<1>6. ASSUME NEW m \in Markets PROVE LatestIsLast(m)' /\ RowIsLast(m)' /\ RowsAgree(m)'
  <2>1. \A p \in Subs(m)' : Ahead(p)'
    BY <1>4 DEF Subs, EventsOf
  <2>2. \A p \in Deciding(m)' : Ahead(p)'
    BY <1>4 DEF Deciding, EventsOf
  <2>3. LatestIsLast(m)'
    BY <2>1 DEF LatestIsLast
  <2>4. RowIsLast(m)'
    <3>1. CASE Deciding(m)' = {}
      BY <1>3, <3>1 DEF RowIsLast, RowOf, RowsComeFromEvents
    <3>2. CASE Deciding(m)' # {}
      BY <2>2, <3>2 DEF RowIsLast
    <3> QED
      BY <3>1, <3>2
  <2>5. RowsAgree(m)'
    <3>1. CASE Subs(m)' = {}
      <4>1. RowsOf(m)' = {}
        BY <1>3, <3>1 DEF RowsComeFromEvents, RowsOf
      <4> QED
        BY <4>1 DEF RowsAgree
    <3>2. CASE Subs(m)' # {}
      BY <2>1, <3>2 DEF RowsAgree
    <3> QED
      BY <3>1, <3>2
  <2> QED
    BY <2>3, <2>4, <2>5
<1>7. Converging'
  BY <1>5, <1>6 DEF Converging
<1> QED
  BY <1>2, <1>3, <1>7 DEF Rest

\* The steps of the fetch: what the last page brings is ahead already.
LEMMA FetchRest ==
    ASSUME START_LEDGER # 0, RInv, GetLatestLedger \/ FetchPage \/ LedgerChanged \/ FetchFails
    PROVE  Rest'
<1>1. /\ Base /\ TableTypes /\ PassInOrder /\ Untouched /\ RowsComeFromEvents /\ Converging
      /\ latest \in Nat /\ Len(chain) \in Nat /\ cursor \in Nat /\ swallowed \in BOOLEAN
  BY DEF RInv, Base, IInv, LoopTypes
<1>2. /\ pc \in {"poll", "getEvents"} /\ latest' \in Nat
      /\ UNCHANGED <<chain, submissions, markets, cursor, origin, swallowed>>
      /\ submission' \in {submission, None}
      /\ \/ pc' \in {"poll", "getEvents"}
         \/ /\ latest' = Len(chain) /\ todo' = PlacesFrom(cursor)
            /\ pc' \in {"upsertEvent", "recordLedger"}
            /\ pc' = "recordLedger" <=> todo' = {}
            /\ cursor <= Len(chain)
  <2>1. pc' \notin {"poll", "getEvents"} => cursor <= Len(chain)
    BY <1>1 DEF PassInOrder, GetLatestLedger, FetchPage, LedgerChanged, FetchFails, AbortPass
  <2> QED
    BY <1>1, <2>1, FetchSteps DEF history
<1>3. Untouched' /\ RowsComeFromEvents' /\ TableTypes' /\ swallowed' \in BOOLEAN
  BY <1>1, <1>2, RowsStay DEF TableTypes
<1>4. origin = START_LEDGER /\ START_LEDGER \in Nat /\ cursor >= START_LEDGER
  BY <1>1, <1>2 DEF Base, IInv, Restarts, PassInOrder
<1>5. /\ PassInOrder' /\ HandlerPlace'
      /\ \A p \in PlacesFrom(origin) : Done(p)' => Done(p)
  <2>1. CASE pc' \in {"poll", "getEvents"}
    <3>1. pc' = "getEvents" => cursor <= Len(chain)
      BY <1>1 DEF PassInOrder, GetLatestLedger, FetchPage, LedgerChanged, FetchFails, AbortPass
    <3> QED
      BY <1>1, <1>2, <1>4, <2>1, <3>1 DEF PassInOrder, HandlerPlace, Done, Busy, HandlerQueries
  <2>2. CASE pc' \notin {"poll", "getEvents"}
    <3>1. PlacesFrom(cursor)' = PlacesFrom(cursor)
      BY <1>2 DEF PlacesFrom
    <3>2. \A p \in PlacesFrom(cursor) : p[1] <= Len(chain)
      BY DEF PlacesFrom
    <3>3. PassInOrder' /\ HandlerPlace'
      BY <1>2, <1>4, <2>2, <3>1, <3>2 DEF PassInOrder, HandlerPlace, HandlerQueries
    <3>4. ASSUME NEW p \in PlacesFrom(origin), ~Done(p) PROVE ~Done(p)'
      <4>1. p[1] \in Nat /\ ~(p[1] < cursor)
        BY <3>4 DEF Done, PlacesFrom, Place
      <4>2. p \in PlacesFrom(cursor)
        BY <1>1, <4>1 DEF PlacesFrom
      <4> QED
        BY <1>2, <2>2, <4>1, <4>2 DEF Done
    <3> QED
      BY <3>3, <3>4
  <2> QED
    BY <2>1, <2>2
<1>6. Converging'
  BY <1>1, <1>2, <1>5, SubsDecide, QuietStep
<1> QED
  BY <1>3, <1>5, <1>6 DEF Rest

\* The steps of the loop.
LEMMA LoopRest ==
    ASSUME START_LEDGER # 0, RInv,
           StoreEvent \/ StoreEventFails \/ FinishPass \/ FinishPassFails
    PROVE  Rest'
<1>1. Base /\ TableTypes /\ PassInOrder /\ Untouched /\ RowsComeFromEvents /\ Converging
  BY DEF RInv, Base
<1>2. /\ pc # "down" /\ pc \notin HandlerQueries
      /\ UNCHANGED <<chain, origin, submissions, markets, swallowed>>
      /\ cursor \in Nat /\ latest \in Nat /\ origin = START_LEDGER /\ START_LEDGER \in Nat
      /\ Len(chain) \in Nat /\ cursor >= START_LEDGER
  BY <1>1 DEF StoreEvent, StoreEventFails, FinishPass, FinishPassFails, history,
     HandlerQueries, Base, IInv, LoopTypes, Restarts, PassInOrder
<1>3. Untouched' /\ RowsComeFromEvents' /\ swallowed' \in BOOLEAN
  BY <1>1, <1>2, RowsStay DEF Base
<1>4. submission' \in {submission, None}
  BY DEF StoreEvent, StoreEventFails, FinishPass, FinishPassFails, NextEvent, AbortPass
<1>5. TableTypes'
  BY <1>1, <1>2, <1>4 DEF TableTypes
<1>6. /\ PassInOrder' /\ HandlerPlace'
      /\ \A m \in Markets : \A p \in Deciding(m) : Done(p)' => Done(p)
  <2>2. CASE StoreEvent /\ EventAt(At).kind = "other"
    <3>1. /\ NextEvent /\ UNCHANGED <<chain, loop, origin>>
          /\ pc \in {"upsertEvent"} \cup HandlerQueries
      BY <2>2 DEF StoreEvent, history
    <3>2. \A m : At \notin Deciding(m)
      BY <2>2 DEF Deciding
    <3> QED
      BY <1>1, <3>1, <3>2, NextEventOrder, SubsDecide
  <2>3. CASE StoreEvent /\ EventAt(At).kind # "other"
    <3>1. /\ pc = "upsertEvent" /\ UNCHANGED <<chain, loop, todo, origin>>
          /\ pc' = FirstQuery(EventAt(At))
      BY <2>3 DEF StoreEvent, history
    <3>2. pc' \in HandlerQueries
      BY <3>1 DEF FirstQuery, HandlerQueries
    <3>3. EventAt(At) \in Event
      BY <1>1, <3>1, AtFacts
    <3>4. EventAt(At).kind \in {"oracle_submission", "oracle_dispute", "oracle_finalized"}
      BY <2>3, <3>3 DEF Event
    <3>5. PassInOrder' /\ EventAt(At)' = EventAt(At) /\ \A p : Done(p)' <=> Done(p)
      BY <1>1, <3>1, <3>2, QueryOrder
    <3>6. HandlerPlace'
      BY <3>1, <3>4, <3>5 DEF HandlerPlace, FirstQuery, HandlerQueries
    <3> QED
      BY <3>5, <3>6
  <2>4. CASE StoreEventFails \/ FinishPassFails
    <3>1. pc' = "poll" /\ todo' = {} /\ UNCHANGED <<chain, loop, origin>>
      BY <2>4 DEF StoreEventFails, FinishPassFails, AbortPass, history
    <3> QED
      BY <1>1, <1>2, <3>1, AbortOrder
  <2>5. CASE FinishPass
    <3>1. /\ pc = "recordLedger" /\ pc' = "poll" /\ cursor' = latest + 1 /\ todo = {}
          /\ latest' = latest /\ todo' = todo
      BY <2>5, <1>1 DEF FinishPass, Base, IInv, EndsEmpty
    <3>2. cursor <= latest
      BY <1>1, <3>1 DEF PassInOrder, Busy
    <3>3. PassInOrder' /\ HandlerPlace'
      BY <1>2, <3>1, <3>2 DEF PassInOrder, HandlerPlace, HandlerQueries, Busy
    <3>4. ASSUME NEW p \in PlacesFrom(origin), Done(p)' PROVE Done(p)
      <4>1. p[1] \in Nat
        BY DEF PlacesFrom, Place
      <4>2. p[1] < latest + 1
        BY <3>1, <3>4 DEF Done, Busy, HandlerQueries
      <4> QED
        BY <1>2, <3>1, <4>1, <4>2 DEF Done, Busy
    <3> QED
      BY <3>3, <3>4, SubsDecide
  <2> QED
    BY <2>2, <2>3, <2>4, <2>5
<1>7. pc # "upsertMarket"
  BY <1>2 DEF HandlerQueries
<1>8. Converging'
  BY <1>1, <1>2, <1>6, <1>7, QuietStep
<1> QED
  BY <1>3, <1>5, <1>6, <1>8 DEF Rest

\* A crash, or an error that a handler swallows: nothing is claimed any more.
LEMMA LossRest ==
    ASSUME START_LEDGER # 0, RInv, Crash \/ HandlerFails
    PROVE  Rest'
<1>1. Base /\ TableTypes /\ PassInOrder /\ Untouched /\ RowsComeFromEvents /\ swallowed \in BOOLEAN
  BY DEF RInv, Base
<1>2. UNCHANGED <<chain, loop, origin, submissions, markets>>
  BY DEF Crash, HandlerFails, history
<1>3. Untouched' /\ RowsComeFromEvents'
  BY <1>1, <1>2, RowsStay
<1>4. submission' = None /\ swallowed' \in BOOLEAN /\ (pc' = "down" \/ swallowed' = TRUE)
  BY <1>1 DEF Crash, HandlerFails, NextEvent, history
<1>5. TableTypes' /\ Converging'
  BY <1>1, <1>2, <1>4 DEF TableTypes, Converging
<1>6. PassInOrder' /\ HandlerPlace'
  <2>1. CASE Crash
    BY <2>1 DEF Crash, PassInOrder, HandlerPlace, Busy, HandlerQueries
  <2>2. CASE HandlerFails
    BY <1>1, <1>2, <2>2, NextEventOrder DEF HandlerFails
  <2> QED
    BY <2>1, <2>2
<1> QED
  BY <1>3, <1>4, <1>5, <1>6 DEF Rest

\* The lookup of the submission, which drops a dispute of nothing, and the
\* insert of a dispute.
LEMMA LookupRest ==
    ASSUME START_LEDGER # 0, RInv, FindSubmission \/ InsertDispute
    PROVE  Rest'
<1> DEFINE e == EventAt(At)
<1>1. Base /\ TableTypes /\ PassInOrder /\ Untouched /\ RowsComeFromEvents /\ HandlerPlace
      /\ Converging
  BY DEF RInv, Base
<1>2. /\ pc \in HandlerQueries /\ pc # "down" /\ pc # "upsertMarket"
      /\ UNCHANGED <<chain, loop, origin, submissions, markets, swallowed>>
  BY DEF FindSubmission, InsertDispute, history, HandlerQueries
<1>3. Untouched' /\ RowsComeFromEvents' /\ swallowed' \in BOOLEAN
  BY <1>1, <1>2, RowsStay DEF Base
<1>4. /\ At \in PlacesFrom(origin) /\ e.market \in Markets
      /\ \A p \in PlacesFrom(origin) : Done(p) <=> Before(p, At)
  BY <1>1, <1>2, AtFacts DEF Event
<1>5. e.kind \in {"oracle_dispute", "oracle_finalized"}
  BY <1>1 DEF HandlerPlace, FindSubmission, InsertDispute, HandlerQueries
<1>6. CASE InsertDispute
  <2>1. pc = "insertDispute" /\ pc' = "updateStatus" /\ UNCHANGED <<todo, submission>>
    BY <1>6 DEF InsertDispute
  <2>2. PassInOrder' /\ EventAt(At)' = e /\ \A p : Done(p)' <=> Done(p)
    BY <1>1, <1>2, <2>1, QueryOrder DEF HandlerQueries
  <2>3. e.kind = "oracle_dispute" /\ submission # None /\ IsLatest(submission, e.market)
    BY <1>1, <2>1 DEF HandlerPlace, HandlerQueries
  <2>4. IsLatest(submission, e.market)'
    BY <1>2, <2>1, <2>2, <2>3, SameRows DEF IsLatest, RowsOf
  <2>5. HandlerPlace'
    BY <2>1, <2>2, <2>3, <2>4 DEF HandlerPlace
  <2>6. Converging'
    BY <1>1, <1>2, <2>2, QuietStep
  <2> QED
    BY <1>1, <1>2, <1>3, <2>1, <2>2, <2>5, <2>6 DEF Rest, TableTypes
<1>7. CASE FindSubmission
  <2> DEFINE found == getLatestOracleSubmission(e.market)
  <2>1. pc = "findSubmission"
    BY <1>7 DEF FindSubmission
  <2>2. IF RowsOf(e.market) = {} THEN found = None
        ELSE IsLatest(found, e.market) /\ found \in DOMAIN submissions /\ found # None
    BY <1>1, FoundIs
  <2>3. CASE e.kind = "oracle_dispute" /\ found = None
    <3>1. NextEvent /\ submission' = None
      BY <1>7, <2>3 DEF FindSubmission, NextEvent
    <3>2. /\ PassInOrder' /\ HandlerPlace'
          /\ \A p \in PlacesFrom(origin) : Done(p)' <=> Done(p) \/ p = At
      BY <1>1, <1>2, <3>1, NextEventOrder
    <3>3. ASSUME ~swallowed, NEW m \in Markets, At \in Deciding(m) PROVE FALSE
      <4>1. e.market = m /\ SubmissionsBefore(At) # {}
        BY <2>3, <3>3, SubsDecide DEF Deciding
      <4>2. PICK q \in Subs(m) : Before(q, At)
        BY <4>1, SubsDecide
      <4>3. Done(q)
        BY <1>4, <4>2, SubsDecide
      <4>4. RowsOf(m) # {}
        BY <1>1, <1>2, <3>3, <4>2, <4>3 DEF Converging, SubmissionsHaveRows
      <4> QED
        BY <2>2, <2>3, <4>1, <4>4
    <3>4. Converging'
      <4>1. CASE swallowed
        BY <1>2, <4>1 DEF Converging
      <4>2. CASE ~swallowed
        <5>1. ASSUME NEW m \in Markets, NEW p \in Deciding(m), Done(p)' PROVE Done(p)
          BY <3>2, <3>3, <4>2, <5>1, SubsDecide
        <5> QED
          BY <1>1, <1>2, <5>1, QuietStep
      <4> QED
        BY <1>1, <4>1, <4>2 DEF Base
    <3> QED
      BY <1>1, <1>2, <1>3, <3>1, <3>2, <3>4 DEF Rest, TableTypes
  <2>4. CASE ~(e.kind = "oracle_dispute" /\ found = None)
    <3>1. /\ submission' = found /\ todo' = todo
          /\ pc' = IF e.kind = "oracle_dispute" THEN "insertDispute"
                   ELSE IF found # None THEN "updateStatus" ELSE "upsertMarket"
      BY <1>7, <2>4 DEF FindSubmission
    <3>2. PassInOrder' /\ EventAt(At)' = e /\ \A p : Done(p)' <=> Done(p)
      BY <1>1, <1>2, <3>1, QueryOrder DEF HandlerQueries
    <3>3. e.kind # "oracle_submission"
      BY <1>5
    <3>4. CASE found = None
      <4>1. /\ e.kind = "oracle_finalized" /\ pc' = "upsertMarket" /\ submission' = None
            /\ RowsOf(e.market) = {}
        BY <1>5, <2>2, <2>4, <3>1, <3>4
      <4>2. RowsOf(e.market)' = {}
        BY <1>2, <3>2, <4>1 DEF RowsOf
      <4> QED
        BY <3>2, <4>1, <4>2, <1>1, <1>2, <1>3, QuietStep DEF HandlerPlace, Rest, TableTypes
    <3>5. CASE found # None
      <4>1. IsLatest(found, e.market) /\ found \in DOMAIN submissions
        BY <2>2, <3>5
      <4>2. IsLatest(submission, e.market)'
        BY <1>2, <3>1, <3>2, <4>1 DEF IsLatest, RowsOf
      <4>3. pc' \in {"insertDispute", "updateStatus"} /\ (pc' = "insertDispute" => e.kind = "oracle_dispute")
        BY <3>1, <3>5
      <4>4. HandlerPlace'
        BY <1>5, <3>1, <3>2, <3>5, <4>2, <4>3 DEF HandlerPlace
      <4>5. Converging'
        BY <1>1, <1>2, <3>2, QuietStep
      <4>6. TableTypes'
        BY <1>1, <1>2, <3>1, <4>1 DEF TableTypes
      <4> QED
        BY <1>3, <3>2, <4>4, <4>5, <4>6 DEF Rest
    <3> QED
      BY <3>4, <3>5
  <2> QED
    BY <2>3, <2>4
<1> QED
  BY <1>6, <1>7

\* The insert of a submission: its event is still ahead, and whatever the new
\* row changes about its market is settled by the rest of the handler.
LEMMA InsertRest ==
    ASSUME START_LEDGER # 0, RInv, InsertSubmission
    PROVE  Rest'
<1> DEFINE e == EventAt(At)
           row == [market |-> e.market, outcome |-> e.outcome, ledger |-> At[1],
                   status |-> "pending"]
<1>1. Base /\ TableTypes /\ PassInOrder /\ Untouched /\ RowsComeFromEvents /\ HandlerPlace
      /\ Converging
  BY DEF RInv, Base
<1>2. /\ pc = "insertSubmission" /\ pc' = "upsertMarket"
      /\ submissions' = Append(submissions, row)
      /\ UNCHANGED <<chain, loop, origin, todo, submission, markets, swallowed>>
  BY DEF InsertSubmission, history
<1>3. /\ At \in PlacesFrom(origin) /\ At \in Place /\ Ahead(At) /\ e \in Event
      /\ PassInOrder' /\ EventAt(At)' = e /\ At' = At /\ \A p : Done(p)' <=> Done(p)
  BY <1>1, <1>2, AtFacts, QueryOrder DEF HandlerQueries
<1>4. e.kind = "oracle_submission"
  BY <1>1, <1>2 DEF HandlerPlace, HandlerQueries
<1>5. row \in Submission
  BY <1>3 DEF Submission, SubmissionStatus, Event, Place
<1>6. At \in Subs(e.market) /\ At \in Deciding(e.market) /\ Ahead(At)'
  <2>1. At \in Subs(e.market)
    BY <1>3, <1>4 DEF Subs, EventsOf
  <2> QED
    BY <1>2, <1>3, <2>1, SubsDecide, SameChain DEF Ahead
<1>7. /\ submissions \in Seq(Submission) /\ Len(submissions) \in Nat
      /\ submissions' \in Seq(Submission) /\ Len(submissions') = Len(submissions) + 1
      /\ DOMAIN submissions = 1 .. Len(submissions)
      /\ DOMAIN submissions' = 1 .. Len(submissions) + 1
      /\ \A i \in DOMAIN submissions : submissions'[i] = submissions[i]
      /\ submissions'[Len(submissions) + 1] = row
  BY <1>1, <1>2, <1>5 DEF TableTypes
<1>8. TableTypes'
  BY <1>1, <1>2, <1>7 DEF TableTypes
<1>9. swallowed' \in BOOLEAN /\ Untouched'
  <2>1. origin # None
    BY <1>1, <1>2 DEF Base, IInv, Restarts
  <2> QED
    BY <1>1, <1>2, <2>1 DEF Untouched, Base
<1>10. RowsComeFromEvents'
  <2>1. ASSUME NEW i \in DOMAIN submissions'
        PROVE  \E q \in Subs(submissions'[i].market) :
                 submissions'[i].outcome = EventAt(q).outcome /\ submissions'[i].ledger = q[1]
    <3>1. CASE i \in DOMAIN submissions
      BY <1>1, <1>7, <3>1 DEF RowsComeFromEvents
    <3>2. CASE i = Len(submissions) + 1
      BY <1>6, <1>7, <3>2
    <3> QED
      BY <1>7, <2>1, <3>1, <3>2
  <2> QED
    BY <1>1, <1>2, <2>1, SameChain DEF RowsComeFromEvents
<1>11. HandlerPlace'
  <2>1. submissions'[Len(submissions')] = row /\ submissions' # <<>>
    BY <1>7
  <2> QED
    BY <1>2, <1>3, <1>4, <2>1 DEF HandlerPlace
<1>12. ASSUME NEW m, m # e.market
       PROVE  /\ RowsOf(m)' = RowsOf(m)
              /\ \A i \in RowsOf(m) : submissions'[i] = submissions[i]
              /\ \A i : IsLatest(i, m)' <=> IsLatest(i, m)
  <2>1. RowsOf(m)' = RowsOf(m) /\ \A i \in RowsOf(m) : submissions'[i] = submissions[i]
    BY <1>7, <1>12 DEF RowsOf
  <2> QED
    BY <2>1 DEF IsLatest
<1>13. Converging'
  <2> SUFFICES ASSUME ~swallowed PROVE Converging'
    BY <1>1, <1>2 DEF Converging
  <2>1. SubmissionsHaveRows /\ \A m \in Markets : LatestIsLast(m) /\ RowIsLast(m) /\ RowsAgree(m)
    BY <1>1, <1>2 DEF Converging
  <2>2. \A m : RowsOf(m) # {} => RowsOf(m)' # {}
    BY <1>7 DEF RowsOf
  <2>3. SubmissionsHaveRows'
    BY <1>2, <1>3, <2>1, <2>2, SameChain DEF SubmissionsHaveRows
  <2>4. \A p : Ahead(p)' <=> Ahead(p)
    BY <1>2, <1>3, SameChain DEF Ahead
  <2>5. ASSUME NEW m \in Markets PROVE LatestIsLast(m)' /\ RowIsLast(m)' /\ RowsAgree(m)'
    <3>1. RowIsLast(m)'
      BY <1>2, <2>1, <2>4, SameChain DEF RowIsLast
    <3>2. CASE m = e.market
      <4>1. At \in Subs(m)' /\ Ahead(At)'
        BY <1>2, <1>6, <3>2, SameChain
      <4>2. \E p \in Subs(m)' : Ahead(p)'
        BY <1>3, <2>4, <4>1
      <4> QED
        BY <3>1, <4>2 DEF LatestIsLast, RowsAgree
    <3>3. CASE m # e.market
      <4>1. LatestIsLast(m)'
        <5>1. \A i \in RowsOf(m) : submissions'[i] = submissions[i]
          BY <1>12, <3>3
        <5>2. RowsOf(m)' = RowsOf(m) /\ \A i : IsLatest(i, m)' <=> IsLatest(i, m)
          BY <1>12, <3>3
        <5>3. LatestIsLast(m) /\ Subs(m)' = Subs(m) /\ \A p : EventAt(p)' = EventAt(p)
          BY <1>2, <2>1, SameChain
        <5> QED
          BY <2>4, <5>1, <5>2, <5>3 DEF LatestIsLast
      <4>2. RowsAgree(m)'
        <5>1. RowsAgree(m)
          BY <2>1
        <5> QED
          BY <1>2, <1>12, <2>4, <3>3, <5>1, SameChain DEF RowsAgree, Agrees
      <4> QED
        BY <3>1, <4>1, <4>2
    <3> QED
      BY <3>2, <3>3
  <2> QED
    BY <2>3, <2>5 DEF Converging
<1> QED
  BY <1>3, <1>8, <1>9, <1>10, <1>11, <1>13 DEF Rest

\* The status of a submission: nothing else of its row changes, and its
\* market's row follows.
LEMMA StatusRest ==
    ASSUME START_LEDGER # 0, RInv, UpdateStatus
    PROVE  Rest'
<1> DEFINE e == EventAt(At)
           new == IF e.kind = "oracle_dispute" THEN "disputed" ELSE "finalized"
           row == [submissions[submission] EXCEPT !.status = new]
<1>1. Base /\ TableTypes /\ PassInOrder /\ Untouched /\ RowsComeFromEvents /\ HandlerPlace
      /\ Converging
  BY DEF RInv, Base
<1>2. /\ pc = "updateStatus" /\ pc' = "upsertMarket"
      /\ submissions' = [submissions EXCEPT ![submission] = row]
      /\ UNCHANGED <<chain, loop, origin, todo, submission, markets, swallowed>>
  BY DEF UpdateStatus, history
<1>3. /\ At \in PlacesFrom(origin) /\ e \in Event
      /\ PassInOrder' /\ EventAt(At)' = e /\ At' = At /\ \A p : Done(p)' <=> Done(p)
  BY <1>1, <1>2, AtFacts, QueryOrder DEF HandlerQueries
<1>4. /\ e.kind \in {"oracle_dispute", "oracle_finalized"} /\ submission # None
      /\ IsLatest(submission, e.market)
  BY <1>1, <1>2 DEF HandlerPlace, HandlerQueries
<1>5. /\ submission \in DOMAIN submissions /\ submissions[submission] \in Submission
      /\ submissions[submission].market = e.market
  BY <1>1, <1>4, RowTypes DEF IsLatest, RowsOf
<1>6. /\ row \in Submission /\ row.status = new
      /\ row.market = submissions[submission].market
      /\ row.outcome = submissions[submission].outcome
      /\ row.ledger = submissions[submission].ledger
  BY <1>5 DEF Submission, SubmissionStatus
<1> HIDE DEF row
<1>7. /\ submissions \in Seq(Submission)
      /\ submissions' \in Seq(Submission) /\ DOMAIN submissions' = DOMAIN submissions
      /\ \A i \in DOMAIN submissions : i # submission => submissions'[i] = submissions[i]
      /\ submissions'[submission] = row
  BY <1>1, <1>2, <1>5, <1>6 DEF TableTypes
<1>8. \A i \in DOMAIN submissions : /\ submissions'[i].market = submissions[i].market
                                    /\ submissions'[i].outcome = submissions[i].outcome
                                    /\ submissions'[i].ledger = submissions[i].ledger
  BY <1>6, <1>7
<1>9. \A m : RowsOf(m)' = RowsOf(m)
  BY <1>7, <1>8 DEF RowsOf
<1>10. \A m, i : IsLatest(i, m)' <=> IsLatest(i, m)
  <2>1. \A m : \A i \in RowsOf(m) : submissions'[i].ledger = submissions[i].ledger
    BY <1>8 DEF RowsOf
  <2> QED
    BY <1>9, <2>1 DEF IsLatest
<1>11. TableTypes'
  BY <1>1, <1>2, <1>7 DEF TableTypes
<1>12. swallowed' \in BOOLEAN /\ Untouched'
  <2>1. origin # None
    BY <1>1, <1>2 DEF Base, IInv, Restarts
  <2> QED
    BY <1>1, <1>2, <2>1 DEF Untouched, Base
<1>13. RowsComeFromEvents'
  BY <1>1, <1>2, <1>7, <1>8, SameChain DEF RowsComeFromEvents
<1>14. HandlerPlace'
  <2>1. e.kind # "oracle_submission" /\ submissions'[submission].status = new
    BY <1>4, <1>6, <1>7
  <2> QED
    BY <1>2, <1>3, <1>4, <1>10, <2>1 DEF HandlerPlace
<1>15. Converging'
  <2> SUFFICES ASSUME ~swallowed PROVE Converging'
    BY <1>1, <1>2 DEF Converging
  <2>1. SubmissionsHaveRows /\ \A m \in Markets : LatestIsLast(m) /\ RowIsLast(m) /\ RowsAgree(m)
    BY <1>1, <1>2 DEF Converging
  <2>2. SubmissionsHaveRows'
    BY <1>2, <1>3, <1>9, <2>1, SameChain DEF SubmissionsHaveRows
  <2>3. \A p : Ahead(p)' <=> Ahead(p)
    BY <1>2, <1>3, SameChain DEF Ahead
  <2>4. ASSUME NEW m \in Markets PROVE LatestIsLast(m)' /\ RowIsLast(m)' /\ RowsAgree(m)'
    <3>1. RowIsLast(m)'
      BY <1>2, <2>1, <2>3, SameChain DEF RowIsLast
    <3>2. LatestIsLast(m)'
      <4>1. \A i \in RowsOf(m) : submissions'[i].outcome = submissions[i].outcome
        BY <1>8 DEF RowsOf
      <4> QED
        BY <1>2, <1>9, <1>10, <2>1, <2>3, <4>1, SameChain DEF LatestIsLast
    <3>3. RowsAgree(m)'
      <4>1. CASE m = e.market
        BY <1>2, <1>3, <4>1 DEF RowsAgree
      <4>2. CASE m # e.market
        <5>1. \A i \in RowsOf(m) : submissions'[i] = submissions[i]
          BY <1>5, <1>7, <4>2 DEF RowsOf
        <5>2. RowsAgree(m)
          BY <2>1
        <5> QED
          BY <1>2, <1>9, <1>10, <2>3, <4>2, <5>1, <5>2, SameChain DEF RowsAgree, Agrees
      <4> QED
        BY <4>1, <4>2
    <3> QED
      BY <3>1, <3>2, <3>3
  <2> QED
    BY <2>2, <2>4 DEF Converging
<1> QED
  BY <1>3, <1>11, <1>12, <1>13, <1>14, <1>15 DEF Rest

\* The write of the market's row ends the handler.  When nothing that decides
\* the row is ahead, the event at hand is the last that does.
LEMMA UpsertRest ==
    ASSUME START_LEDGER # 0, RInv, UpsertMarket, NEW m0, m0 = EventAt(At).market
    PROVE  Rest'
<1> DEFINE e == EventAt(At)
<1>1. Base /\ TableTypes /\ PassInOrder /\ Untouched /\ RowsComeFromEvents /\ HandlerPlace
      /\ Converging
  BY DEF RInv, Base
<1>2. /\ pc = "upsertMarket" /\ pc \in HandlerQueries /\ pc # "down"
      /\ markets' = [markets EXCEPT ![m0] = NewRow(e)]
      /\ NextEvent /\ submission' = None
      /\ UNCHANGED <<chain, loop, origin, submissions, swallowed>>
  BY DEF UpsertMarket, history, NextEvent, HandlerQueries
<1>3. /\ At \in todo /\ At \in PlacesFrom(origin) /\ At \in Place /\ e \in Event
      /\ m0 \in Markets /\ e.outcome \in Outcomes
      /\ \A p \in PlacesFrom(origin) : Done(p) <=> Before(p, At)
  BY <1>1, <1>2, AtFacts DEF Event
<1>4. /\ PassInOrder' /\ HandlerPlace' /\ pc' \in Busy /\ pc' \notin HandlerQueries
      /\ \A p \in PlacesFrom(origin) : Done(p)' <=> Done(p) \/ p = At
  BY <1>1, <1>2, NextEventOrder
<1>5. pc' # "down" /\ pc' # "upsertMarket"
  BY <1>4 DEF Busy, HandlerQueries
<1>6. e.kind \in {"oracle_submission", "oracle_dispute", "oracle_finalized"}
  BY <1>1, <1>2, <1>3 DEF HandlerPlace, Event
<1>7. /\ e.kind = "oracle_submission" =>
            LET r == submissions[Len(submissions)]
            IN  /\ submissions # <<>> /\ r.market = m0 /\ r.outcome = e.outcome
                /\ r.ledger = At[1] /\ r.status = "pending"
      /\ e.kind # "oracle_submission" /\ submission = None =>
            e.kind = "oracle_finalized" /\ RowsOf(m0) = {}
      /\ e.kind # "oracle_submission" /\ submission # None =>
            /\ IsLatest(submission, m0)
            /\ submissions[submission].status =
                  (IF e.kind = "oracle_dispute" THEN "disputed" ELSE "finalized")
  BY <1>1, <1>2 DEF HandlerPlace
<1>8. /\ e.kind = "oracle_submission" =>
            NewRow(e) = [oracle_state |-> "submitted", outcome |-> e.outcome]
      /\ e.kind = "oracle_dispute" =>
            NewRow(e) = [oracle_state |-> "disputed", outcome |-> submissions[submission].outcome]
      /\ e.kind = "oracle_finalized" =>
            NewRow(e) = [oracle_state |-> "finalized", outcome |-> e.outcome]
  BY DEF NewRow
<1>9. e.kind = "oracle_dispute" => /\ submission \in DOMAIN submissions /\ IsLatest(submission, m0)
                                   /\ submissions[submission] \in Submission
                                   /\ submissions[submission].market = m0
                                   /\ submissions[submission].outcome \in Outcomes
  <2>1. e.kind = "oracle_dispute" => IsLatest(submission, m0)
    BY <1>7
  <2>2. e.kind = "oracle_dispute" => /\ submission \in DOMAIN submissions
                                     /\ submissions[submission] \in Submission
                                     /\ submissions[submission].market = m0
    BY <1>1, <2>1, RowTypes DEF IsLatest, RowsOf
  <2> QED
    BY <2>1, <2>2 DEF Submission
<1>10. NewRow(e) \in MarketRow
  BY <1>3, <1>6, <1>8, <1>9 DEF MarketRow, OracleState
<1> DEFINE r == NewRow(e)
<1>11. /\ markets' \in [Markets -> MarketRow \cup {None}]
       /\ markets'[m0] = r
       /\ \A m \in Markets : m # m0 => markets'[m] = markets[m]
  <2>1. markets' = [markets EXCEPT ![m0] = r] /\ r \in MarketRow
    BY <1>2, <1>10
  <2> HIDE DEF r
  <2> QED
    BY <1>1, <1>3, <2>1 DEF TableTypes
<1>12. TableTypes'
  BY <1>1, <1>2, <1>11 DEF TableTypes
<1>13. swallowed' \in BOOLEAN /\ Untouched'
  <2>1. origin # None
    BY <1>1, <1>2 DEF Base, IInv, Restarts
  <2> QED
    BY <1>1, <1>2, <2>1 DEF Untouched, Base
\* A dispute's submission is in the chain, before the dispute unless there is one ahead.
<1>14. e.kind = "oracle_dispute" => Subs(m0) # {}
  BY <1>1, <1>9 DEF RowsComeFromEvents
<1>15. e.kind # "oracle_dispute" => At \in Deciding(m0)
  BY <1>3, <1>6 DEF Deciding, EventsOf
<1>16. e.kind = "oracle_submission" => At \in Subs(m0)
  BY <1>3 DEF Subs, EventsOf
<1>17. RowsComeFromEvents'
  <2>1. Deciding(m0) # {}
    BY <1>14, <1>15, SubsDecide
  <2>2. \A m \in Markets : markets'[m] # None => Deciding(m) # {}
    BY <1>1, <1>11, <2>1 DEF RowsComeFromEvents
  <2> QED
    BY <1>1, <1>2, <2>2, SameChain DEF RowsComeFromEvents
<1>18. Converging'
  <2> SUFFICES ASSUME ~swallowed PROVE Converging'
    BY <1>1, <1>2 DEF Converging
  <2>1. SubmissionsHaveRows /\ \A m \in Markets : LatestIsLast(m) /\ RowIsLast(m) /\ RowsAgree(m)
    BY <1>1, <1>2 DEF Converging
  <2>2. \A p \in PlacesFrom(origin) : Ahead(p)' <=> Ahead(p) /\ p # At
    BY <1>2, <1>4, SameChain DEF Ahead
  <2>3. \A p \in PlacesFrom(origin) : ~Ahead(p)' => p = At \/ (Before(p, At) /\ Done(p))
    BY <1>3, <2>2 DEF Ahead
  <2>4. RowsOf(m0) # {} \/ At \notin Subs(m0)
    <3>1. CASE e.kind = "oracle_submission"
      BY <1>1, <1>7, <3>1 DEF RowsOf, TableTypes
    <3>2. CASE e.kind # "oracle_submission"
      BY <3>2 DEF Subs
    <3> QED
      BY <3>1, <3>2
  <2>5. SubmissionsHaveRows'
    <3>1. ASSUME NEW m \in Markets, NEW p \in Subs(m), Done(p)' PROVE RowsOf(m) # {}
      <4>1. CASE p = At
        BY <2>4, <4>1 DEF Subs, EventsOf
      <4>2. CASE p # At
        BY <1>4, <2>1, <3>1, <4>2, SubsDecide DEF SubmissionsHaveRows
      <4> QED
        BY <4>1, <4>2
    <3> QED
      BY <1>2, <3>1, SameChain, SameRows DEF SubmissionsHaveRows
  <2>6. ASSUME NEW m \in Markets, m # m0 PROVE LatestIsLast(m)' /\ RowIsLast(m)' /\ RowsAgree(m)'
    <3>1. At \notin Deciding(m) /\ At \notin Subs(m)
      BY <2>6, SubsDecide
    <3>2. /\ \A p \in Deciding(m) : Ahead(p)' <=> Ahead(p)
          /\ \A p \in Subs(m) : Ahead(p)' <=> Ahead(p)
      BY <2>2, <3>1, SubsDecide
    <3>3. LatestIsLast(m)'
      BY <1>2, <2>1, <3>2, SameChain, SameRows DEF LatestIsLast
    <3>4. RowIsLast(m)'
      BY <1>2, <1>11, <2>1, <2>6, <3>2, SameChain DEF RowIsLast
    <3>5. RowsAgree(m)'
      <4>1. RowsAgree(m) /\ markets'[m] = markets[m]
        BY <1>11, <2>1, <2>6
      <4> QED
        BY <1>2, <2>6, <3>2, <4>1, SameChain, SameRows DEF RowsAgree, Agrees
    <3> QED
      BY <3>3, <3>4, <3>5
  \* With nothing of the market ahead, the event at hand is the last.
  <2>7. ASSUME At \in Deciding(m0), \A p \in Deciding(m0) : ~Ahead(p)'
        PROVE  RowOf(m0) = RowAfter(At)
    <3>1. \A q \in Deciding(m0) : q # At => Before(q, At)
      BY <2>3, <2>7, SubsDecide
    <3>2. Last(Deciding(m0)) = At
      BY <2>7, <3>1, LastIs, SubsDecide
    <3> QED
      BY <2>7, <3>2 DEF RowOf
  <2>8. /\ RowsOf(m0)' = RowsOf(m0) /\ Subs(m0)' = Subs(m0) /\ Deciding(m0)' = Deciding(m0)
        /\ RowOf(m0)' = RowOf(m0) /\ \A p : EventAt(p)' = EventAt(p)
        /\ \A i : IsLatest(i, m0)' <=> IsLatest(i, m0)
    BY <1>2, SameChain, SameRows
  <2>9. ASSUME e.kind = "oracle_submission"
        PROVE  LatestIsLast(m0)' /\ RowIsLast(m0)' /\ RowsAgree(m0)'
    <3> DEFINE n == Len(submissions)
    <3>1. /\ n \in DOMAIN submissions /\ submissions[n].market = m0
          /\ submissions[n].outcome = e.outcome /\ submissions[n].ledger = At[1]
          /\ submissions[n].status = "pending"
      BY <1>1, <1>7, <2>9 DEF TableTypes
    <3>2. ASSUME \A p \in Subs(m0) : ~Ahead(p)' PROVE IsLatest(n, m0)
      <4>1. ASSUME NEW j \in RowsOf(m0)
            PROVE  \/ submissions[j].ledger < submissions[n].ledger
                   \/ submissions[j].ledger = submissions[n].ledger /\ j <= n
        <5>1. j \in DOMAIN submissions /\ submissions[j].market = m0
          BY DEF RowsOf
        <5>2. PICK q \in Subs(m0) : submissions[j].ledger = q[1]
          BY <1>1, <5>1 DEF RowsComeFromEvents
        <5>3. q \in Place /\ (q = At \/ Before(q, At))
          BY <2>3, <3>2, SubsDecide
        <5>4. q[1] \in Nat /\ At[1] \in Nat /\ q[1] <= At[1]
          BY <1>3, <5>3 DEF Place, Before
        <5>5. j \in Nat /\ n \in Nat /\ j <= n
          BY <1>1, <5>1, RowTypes
        <5> QED
          BY <3>1, <5>2, <5>4, <5>5
      <4> QED
        BY <3>1, <4>1 DEF IsLatest, RowsOf
    <3>3. LatestIsLast(m0)'
      <4>1. ASSUME \A p \in Subs(m0) : ~Ahead(p)',
                   NEW p \in Subs(m0), \A q \in Subs(m0) : q # p => Before(q, p)
            PROVE  p = At
        <5>1. p \in Place /\ (p = At \/ Before(p, At))
          BY <2>3, <4>1, SubsDecide
        <5>2. p # At => Before(At, p)
          BY <1>16, <2>9, <4>1
        <5> QED
          BY <1>3, <5>1, <5>2, InOrder
      <4>2. (\A p \in Subs(m0) : ~Ahead(p)') => n \in RowsOf(m0) /\ IsLatest(n, m0)
        BY <3>1, <3>2 DEF RowsOf
      <4> QED
        BY <1>2, <2>8, <3>1, <4>1, <4>2 DEF LatestIsLast
    <3>4. RowIsLast(m0)'
      <4>1. RowAfter(At) = NewRow(e)
        BY <1>8, <2>9 DEF RowAfter
      <4> QED
        BY <1>11, <1>15, <2>7, <2>8, <2>9, <4>1 DEF RowIsLast
    <3>5. RowsAgree(m0)'
      <4>1. ASSUME \A p \in Subs(m0) : ~Ahead(p)', NEW i, IsLatest(i, m0)
            PROVE  i = n
        BY <1>1, <3>2, <4>1, LatestIs
      <4>2. markets'[m0].oracle_state = "submitted"
        BY <1>8, <1>11, <2>9
      <4> QED
        BY <1>2, <2>8, <3>1, <4>1, <4>2 DEF RowsAgree, Agrees
    <3> QED
      BY <3>3, <3>4, <3>5
  <2>10. ASSUME e.kind # "oracle_submission"
        PROVE  LatestIsLast(m0)' /\ RowIsLast(m0)' /\ RowsAgree(m0)'
    <3>1. At \notin Subs(m0)
      BY <2>10 DEF Subs
    <3>2. \A p \in Subs(m0) : Ahead(p)' <=> Ahead(p)
      BY <2>2, <3>1, SubsDecide
    <3>3. LatestIsLast(m0)'
      BY <1>2, <1>3, <2>1, <2>8, <3>2 DEF LatestIsLast
    <3>4. RowIsLast(m0)'
      <4>1. CASE e.kind = "oracle_finalized"
        <5>1. RowAfter(At) = NewRow(e)
          BY <1>8, <4>1 DEF RowAfter
        <5> QED
          BY <1>11, <1>15, <2>7, <2>8, <4>1, <5>1 DEF RowIsLast
      <4>2. CASE e.kind = "oracle_dispute"
        <5> SUFFICES ASSUME \A p \in Deciding(m0) : ~Ahead(p)'
                     PROVE  markets'[m0] = RowOf(m0)
          BY <2>8 DEF RowIsLast
        <5>1. \A p \in Subs(m0) : Before(p, At) /\ ~Ahead(p)
          BY <2>3, <3>1, <3>2, SubsDecide
        <5>2. SubmissionsBefore(At) = Subs(m0)
          <6>1. SubmissionsBefore(At) = {p \in Subs(m0) : Before(p, At)}
            BY SubsDecide
          <6> QED
            BY <5>1, <6>1
        <5>3. At \in Deciding(m0)
          <6>1. At \in EventsOf(m0)
            BY <1>3 DEF EventsOf
          <6>2. SubmissionsBefore(At) # {}
            BY <1>14, <4>2, <5>2
          <6> QED
            BY <4>2, <6>1, <6>2 DEF Deciding
        <5> DEFINE p == Last(Subs(m0))
        <5>4. p \in Subs(m0) /\ \A q \in Subs(m0) : q # p => Before(q, p)
          BY <1>14, <4>2, LastExists, SubsDecide
        <5>5. PICK i \in RowsOf(m0) : IsLatest(i, m0) /\ submissions[i].outcome = EventAt(p).outcome
          BY <1>3, <2>1, <5>1, <5>4 DEF LatestIsLast
        <5>6. i = submission
          BY <1>1, <1>9, <4>2, <5>5, LatestIs
        <5>7. RowAfter(At) = [oracle_state |-> "disputed", outcome |-> EventAt(p).outcome]
          BY <4>2, <5>2 DEF RowAfter
        <5> QED
          BY <1>8, <1>11, <2>7, <4>2, <5>3, <5>5, <5>6, <5>7
      <4> QED
        BY <1>6, <2>10, <4>1, <4>2
    <3>5. RowsAgree(m0)'
      <4>1. CASE submission = None
        BY <1>7, <2>8, <2>10, <4>1 DEF RowsAgree
      <4>2. CASE submission # None
        <5>1. IsLatest(submission, m0)
          BY <1>7, <2>10, <4>2
        <5>2. \A i : IsLatest(i, m0) => i = submission
          BY <1>1, <5>1, LatestIs
        <5>3. \/ /\ markets'[m0].oracle_state = "disputed"
                 /\ submissions[submission].status = "disputed"
              \/ /\ markets'[m0].oracle_state = "finalized"
                 /\ submissions[submission].status = "finalized"
          BY <1>6, <1>7, <1>8, <1>11, <2>10, <4>2
        <5> QED
          BY <1>2, <2>8, <5>2, <5>3 DEF RowsAgree, Agrees
      <4> QED
        BY <4>1, <4>2
    <3> QED
      BY <3>3, <3>4, <3>5
  <2>11. LatestIsLast(m0)' /\ RowIsLast(m0)' /\ RowsAgree(m0)'
    BY <2>9, <2>10
  <2>12. \A m \in Markets : LatestIsLast(m)' /\ RowIsLast(m)' /\ RowsAgree(m)'
    BY <2>6, <2>11
  <2> QED
    BY <2>5, <2>12 DEF Converging
<1> QED
  BY <1>4, <1>12, <1>13, <1>17, <1>18 DEF Rest

\* What an event leaves does not change while the events up to it do not.
LEMMA RowAfterStays ==
    ASSUME NEW m, NEW q \in Deciding(m),
           \A p \in PlacesFrom(origin) : EventAt(p)' = EventAt(p),
           \A p \in PlacesFrom(origin) : SubmissionsBefore(p)' = SubmissionsBefore(p)
    PROVE  RowAfter(q)' = RowAfter(q)
<1>1. EventAt(q)' = EventAt(q) /\ SubmissionsBefore(q)' = SubmissionsBefore(q)
  BY SubsDecide
<1>2. Last(SubmissionsBefore(q))' = Last(SubmissionsBefore(q))
  BY <1>1 DEF Last
<1>3. CASE EventAt(q).kind = "oracle_dispute"
  <2>1. SubmissionsBefore(q) # {}
    BY <1>3 DEF Deciding
  <2>2. Last(SubmissionsBefore(q)) \in PlacesFrom(origin)
    <3>1. SubmissionsBefore(q) \subseteq PlacesFrom(origin)
      BY DEF SubmissionsBefore, EventsOf
    <3>2. SubmissionsBefore(q) \in SUBSET Place
      BY <3>1, SubsDecide
    <3> QED
      BY <2>1, <3>1, <3>2, LastExists
  <2>3. ASSUME NEW l, l = Last(SubmissionsBefore(q))
         PROVE  EventAt(l)' = EventAt(l)
    BY <2>2, <2>3
  <2>4. EventAt(Last(SubmissionsBefore(q)))' = EventAt(Last(SubmissionsBefore(q)))
    BY <1>2, <2>3 DEF EventAt
  <2> QED
    BY <1>1, <1>3, <2>4 DEF RowAfter
<1>4. CASE EventAt(q).kind # "oracle_dispute"
  <2>1. EventAt(q).kind \in {"oracle_submission", "oracle_finalized"}
    BY <1>4 DEF Deciding
  <2> QED
    BY <1>1, <2>1 DEF RowAfter
<1> QED
  BY <1>3, <1>4

\* One more ledger: its events are ahead, and those before them call for what
\* they called for.
LEMMA CloseRest ==
    ASSUME START_LEDGER # 0, RInv, CloseLedger
    PROVE  Rest'
<1>1. /\ Base /\ TableTypes /\ PassInOrder /\ Untouched /\ RowsComeFromEvents /\ HandlerPlace
      /\ Converging /\ LoopTypes
  BY DEF RInv, Base, IInv
<1>2. PICK c \in LedgerContents : chain' = Append(chain, c)
  BY DEF CloseLedger
<1>3. /\ Len(chain) \in Nat /\ Len(chain') = Len(chain) + 1
      /\ \A l \in 1 .. Len(chain) : chain'[l] = chain[l]
  BY <1>1, <1>2 DEF LoopTypes
<1>4. UNCHANGED <<submissions, markets, pc, cursor, latest, todo, submission, origin, swallowed>>
  BY DEF CloseLedger, loop, history
<1>5. \A f \in Nat : /\ PlacesFrom(f) \subseteq PlacesFrom(f)'
                     /\ \A p \in PlacesFrom(f)' : p \in PlacesFrom(f) \/ p[1] = Len(chain) + 1
  <2>1. ASSUME NEW f \in Nat, NEW p \in PlacesFrom(f) PROVE p \in PlacesFrom(f)'
    <3>1. p \in Place /\ p[1] \in 1 .. Len(chain)
      BY <1>3 DEF PlacesFrom, Place
    <3>2. chain'[p[1]] = chain[p[1]] /\ p[1] <= Len(chain')
      BY <1>3, <3>1
    <3> QED
      BY <3>1, <3>2 DEF PlacesFrom
  <2>2. ASSUME NEW f \in Nat, NEW p \in PlacesFrom(f)', p[1] # Len(chain) + 1
        PROVE  p \in PlacesFrom(f)
    <3>1. p \in Place /\ p[1] \in 1 .. Len(chain)
      BY <1>3, <2>2 DEF PlacesFrom, Place
    <3>2. chain'[p[1]] = chain[p[1]] /\ p[1] <= Len(chain)
      BY <1>3, <3>1
    <3> QED
      BY <3>1, <3>2 DEF PlacesFrom
  <2> QED
    BY <2>1, <2>2
<1>6. \A p \in Place : p[1] <= Len(chain) => EventAt(p)' = EventAt(p)
  BY <1>3 DEF EventAt, Place
<1>7. \A p : Done(p)' <=> Done(p)
  BY <1>4 DEF Done
<1>8. TableTypes' /\ Untouched' /\ swallowed' \in BOOLEAN
  BY <1>1, <1>4 DEF TableTypes, Untouched, Base
<1>9. PassInOrder'
  <2>1. pc = "getEvents" => cursor <= Len(chain')
    <3>1. cursor \in Nat /\ Len(chain) \in Nat /\ Len(chain') = Len(chain) + 1
      BY <1>1, <1>3 DEF Base, IInv, LoopTypes
    <3> QED
      BY <1>1, <3>1 DEF PassInOrder
  <2>2. CASE pc \in Busy
    <3>1. latest <= Len(chain) /\ latest \in Nat /\ cursor \in Nat
      BY <1>1, <2>2 DEF Base, IInv, StoredInPass, LoopTypes
    <3>2. /\ PlacesFrom(cursor) \subseteq PlacesFrom(cursor)'
          /\ \A p \in PlacesFrom(cursor)' : p[1] <= latest => p \in PlacesFrom(cursor)
      BY <1>3, <1>4, <1>5, <3>1 DEF PlacesFrom
    <3> QED
      BY <1>1, <1>4, <2>2, <2>1, <3>2 DEF PassInOrder
  <2>3. CASE pc \notin Busy
    BY <1>1, <1>4, <2>3, <2>1 DEF PassInOrder, Busy
  <2> QED
    BY <2>2, <2>3
<1>10. HandlerPlace'
  <2>1. CASE pc \in HandlerQueries
    <3>1. At \in Place /\ At \in PlacesFrom(origin) /\ origin \in Nat
      BY <1>1, <2>1, AtFacts DEF Base, IInv, Restarts, HandlerQueries
    <3>2. At' = At /\ At[1] <= Len(chain)
      BY <1>1, <1>4, <3>1, PlaceFacts DEF At
    <3>3. EventAt(At)' = EventAt(At)
      BY <1>3, <3>1, <3>2 DEF EventAt, Place
    <3> QED
      BY <1>1, <1>4, <2>1, <3>2, <3>3, SameRows DEF HandlerPlace
  <2>2. CASE pc \notin HandlerQueries
    BY <1>4, <2>2 DEF HandlerPlace
  <2> QED
    BY <2>1, <2>2
<1>11. CASE origin = None
  <2>1. pc = "down" /\ submissions = <<>> /\ \A m \in Markets : markets[m] = None
    BY <1>1, <1>11 DEF Base, IInv, Restarts, Untouched
  <2>2. RowsComeFromEvents' /\ Converging'
    BY <1>4, <2>1 DEF RowsComeFromEvents, Converging
  <2> QED
    BY <1>8, <1>9, <1>10, <2>2 DEF Rest
<1>12. CASE origin # None
  <2>1. origin = START_LEDGER /\ origin \in Nat /\ origin' = origin
    BY <1>1, <1>4, <1>12 DEF Base, IInv, Restarts
  <2>2. /\ PlacesFrom(origin) \subseteq PlacesFrom(origin)'
        /\ \A p \in PlacesFrom(origin)' : p \in PlacesFrom(origin) \/ p[1] = Len(chain) + 1
        /\ \A p \in PlacesFrom(origin) : /\ p \in Place /\ p[1] <= Len(chain) /\ p[1] \in Nat
                                         /\ EventAt(p)' = EventAt(p)
    BY <1>1, <1>5, <1>6, <2>1, PlaceFacts
  <2>3. \A m : /\ EventsOf(m) \subseteq EventsOf(m)'
               /\ \A p \in EventsOf(m)' : p \in PlacesFrom(origin) => p \in EventsOf(m)
               /\ EventsOf(m)' \subseteq PlacesFrom(origin)'
    BY <2>2 DEF EventsOf
  <2>4. \A m : /\ Subs(m) \subseteq Subs(m)'
               /\ \A p \in Subs(m)' : p \in PlacesFrom(origin) => p \in Subs(m)
               /\ Subs(m)' \subseteq PlacesFrom(origin)'
               /\ Subs(m) \subseteq PlacesFrom(origin)
    BY <2>2, <2>3 DEF Subs, EventsOf
  <2>5. ASSUME NEW q \in PlacesFrom(origin) PROVE SubmissionsBefore(q)' = SubmissionsBefore(q)
    <3> SUFFICES ASSUME NEW m, m = EventAt(q).market
                 PROVE  SubmissionsBefore(q)' = SubmissionsBefore(q)
      OBVIOUS
    <3>1. SubmissionsBefore(q) = {p \in Subs(m) : Before(p, q)}
      BY SubsDecide
    <3>2. SubmissionsBefore(q)' = {p \in Subs(m)' : Before(p, q)}
      BY <2>2 DEF SubmissionsBefore, Subs
    <3>3. ASSUME NEW p \in PlacesFrom(origin)', Before(p, q) PROVE p \in PlacesFrom(origin)
      <4>1. q \in Place /\ q[1] \in Nat /\ q[1] <= Len(chain)
        BY <2>2
      <4>2. p[1] \in Nat /\ p[1] <= q[1]
        BY <3>3, <4>1 DEF PlacesFrom, Place, Before
      <4> QED
        BY <1>3, <2>2, <4>1, <4>2
    <3> QED
      BY <2>4, <3>1, <3>2, <3>3
  <2>6. \A m : /\ Deciding(m) \subseteq Deciding(m)'
               /\ \A p \in Deciding(m)' : p \in PlacesFrom(origin) => p \in Deciding(m)
               /\ Deciding(m)' \subseteq PlacesFrom(origin)'
               /\ Deciding(m) \subseteq PlacesFrom(origin)
    BY <2>2, <2>3, <2>5 DEF Deciding, EventsOf
  <2>7. RowsComeFromEvents'
    <3>1. \A m : \A q \in Subs(m) : q \in Subs(m)' /\ EventAt(q)' = EventAt(q)
      BY <2>2, <2>4
    <3>2. \A m \in Markets : markets[m] # None => Deciding(m)' # {}
      BY <1>1, <2>6 DEF RowsComeFromEvents
    <3> QED
      BY <1>1, <1>4, <3>1, <3>2 DEF RowsComeFromEvents
  <2>8. Converging'
    <3> SUFFICES ASSUME pc # "down", ~swallowed PROVE Converging'
      BY <1>4 DEF Converging
    <3>1. SubmissionsHaveRows /\ \A m \in Markets : LatestIsLast(m) /\ RowIsLast(m) /\ RowsAgree(m)
      BY <1>1 DEF Converging
    <3>2. \A p \in PlacesFrom(origin)' : p \notin PlacesFrom(origin) => ~Done(p) /\ Ahead(p)'
      <4>1. ASSUME NEW p \in PlacesFrom(origin)', p \notin PlacesFrom(origin) PROVE ~Done(p)
        <5>1. p[1] = Len(chain) + 1 /\ START_LEDGER <= p[1] /\ p[1] \in Nat
          BY <2>1, <2>2, <4>1 DEF PlacesFrom, Place
        <5>2. cursor \in Nat /\ (cursor <= Len(chain) + 1 \/ cursor = START_LEDGER)
          BY <1>1 DEF Base, IInv, CursorIsNear, LoopTypes
        <5>3. pc \in Busy => latest <= Len(chain) /\ latest \in Nat
          BY <1>1 DEF Base, IInv, StoredInPass, LoopTypes
        <5> QED
          BY <1>3, <2>1, <5>1, <5>2, <5>3 DEF Done
      <4> QED
        BY <1>7, <4>1 DEF Ahead
    <3>3. \A p \in PlacesFrom(origin) : Ahead(p) => Ahead(p)'
      BY <1>7, <2>2 DEF Ahead
    <3>4. SubmissionsHaveRows'
      <4>1. ASSUME NEW m \in Markets, NEW p \in Subs(m)', Done(p) PROVE RowsOf(m) # {}
        <5>1. p \in Subs(m)
          BY <2>4, <3>2, <4>1
        <5> QED
          BY <3>1, <4>1, <5>1 DEF SubmissionsHaveRows
      <4> QED
        BY <1>4, <1>7, <4>1, SameRows DEF SubmissionsHaveRows
    <3>5. ASSUME NEW m \in Markets PROVE LatestIsLast(m)' /\ RowIsLast(m)' /\ RowsAgree(m)'
      <4>1. /\ RowsOf(m)' = RowsOf(m) /\ \A i : IsLatest(i, m)' <=> IsLatest(i, m)
            /\ submissions' = submissions /\ markets' = markets
        BY <1>4, SameRows
      <4>2. (\E p \in Subs(m) : Ahead(p)) => \E p \in Subs(m)' : Ahead(p)'
        BY <2>4, <3>3
      <4>3. LatestIsLast(m)'
        <5>1. CASE Subs(m)' = Subs(m)
          <6>1. LatestIsLast(m)
            BY <3>1
          <6>2. \A p \in Subs(m) : EventAt(p)' = EventAt(p)
            BY <2>2, <2>4
          <6> QED
            BY <4>1, <4>2, <5>1, <6>1, <6>2 DEF LatestIsLast
        <5>2. CASE Subs(m)' # Subs(m)
          BY <2>4, <3>2, <5>2 DEF LatestIsLast
        <5> QED
          BY <5>1, <5>2
      <4>4. RowsAgree(m)'
        <5>1. RowsAgree(m)
          BY <3>1
        <5>2. pc = "upsertMarket" => EventAt(At)' = EventAt(At)
          <6>1. CASE pc = "upsertMarket"
            <7>1. At \in Place /\ At \in PlacesFrom(origin)
              BY <1>1, <6>1, AtFacts DEF HandlerQueries
            <7>2. At' = At
              BY <1>4 DEF At
            <7> QED
              BY <1>3, <2>2, <7>1, <7>2 DEF EventAt, Place
          <6> QED
            BY <6>1
        <5> QED
          BY <1>4, <4>1, <4>2, <5>1, <5>2 DEF RowsAgree, Agrees
      <4>5. RowIsLast(m)'
        <5>1. CASE Deciding(m)' = Deciding(m)
          <6>1. (\E p \in Deciding(m) : Ahead(p)) => \E p \in Deciding(m)' : Ahead(p)'
            BY <2>6, <3>3
          <6>2. RowOf(m)' = RowOf(m)
            <7>1. CASE Deciding(m) = {}
              BY <5>1, <7>1 DEF RowOf
            <7>2. CASE Deciding(m) # {}
              <8> DEFINE p == Last(Deciding(m))
              <8>1. p \in Deciding(m)
                BY <7>2, LastExists, SubsDecide
              <8>2. Last(Deciding(m))' = p
                BY <5>1 DEF Last
              <8>3. p \in PlacesFrom(origin) /\ EventAt(p).market = m
                BY <8>1, SubsDecide
              <8>4. ASSUME NEW q, q = p PROVE RowAfter(q)' = RowAfter(q)
                BY <2>2, <2>5, <8>1, <8>4, RowAfterStays
              <8>5. RowAfter(Last(Deciding(m)))' = RowAfter(Last(Deciding(m)))
                BY <8>2, <8>4
              <8> QED
                BY <5>1, <7>2, <8>5 DEF RowOf
            <7> QED
              BY <7>1, <7>2
          <6> QED
            BY <3>1, <4>1, <6>1, <6>2 DEF RowIsLast
        <5>2. CASE Deciding(m)' # Deciding(m)
          BY <2>6, <3>2, <5>2 DEF RowIsLast
        <5> QED
          BY <5>1, <5>2
      <4> QED
        BY <4>3, <4>4, <4>5
    <3> QED
      BY <3>4, <3>5 DEF Converging
  <2> QED
    BY <1>8, <1>9, <1>10, <2>7, <2>8 DEF Rest
<1> QED
  BY <1>11, <1>12

----------------------------------------------------------------------------

\* Every step of the indexer and of the chain preserves the invariant.
LEMMA NextRInv ==
    ASSUME START_LEDGER # 0
    PROVE  RInv /\ [Next]_vars => RInv'
<1> SUFFICES ASSUME RInv, [Next]_vars PROVE RInv'
  OBVIOUS
<1>1. IInv'
  BY NextIInv DEF RInv, Base
<1>2. Rest'
  <2>1. CASE Next
    <3>1. CASE Start
      BY <3>1, StartRest
    <3>2. CASE StoreEvent \/ StoreEventFails \/ FinishPass \/ FinishPassFails
      BY <3>2, LoopRest
    <3>3. CASE FindSubmission \/ InsertDispute
      BY <3>3, LookupRest
    <3>4. CASE InsertSubmission
      BY <3>4, InsertRest
    <3>5. CASE UpdateStatus
      BY <3>5, StatusRest
    <3>6. CASE UpsertMarket
      BY <3>6, UpsertRest
    <3>7. CASE Crash \/ HandlerFails
      BY <3>7, LossRest
    <3>8. CASE CloseLedger
      BY <3>8, CloseRest
    <3>9. CASE GetLatestLedger \/ FetchPage \/ LedgerChanged \/ FetchFails
      BY <3>9, FetchRest
    <3> QED
      BY <2>1, <3>1, <3>2, <3>3, <3>4, <3>5, <3>6, <3>7, <3>8, <3>9 DEF Next, Process
  <2>2. CASE UNCHANGED vars
    <3>1. UNCHANGED <<chain, submissions, markets, pc, cursor, latest, todo, submission, origin,
                      swallowed>>
      BY <2>2 DEF vars, loop, history
    <3>2. At' = At /\ EventAt(At)' = EventAt(At) /\ \A p : Done(p)' <=> Done(p)
      BY <3>1 DEF At, EventAt, Done
    <3>3. TableTypes' /\ PassInOrder' /\ Untouched' /\ RowsComeFromEvents' /\ HandlerPlace'
      BY <3>1, <3>2, SameChain, SameRows
      DEF RInv, Base, TableTypes, PassInOrder, Untouched, RowsComeFromEvents, HandlerPlace
    <3>4. Converging'
      BY <3>1, <3>2, SameChain, SameRows
      DEF RInv, Converging, SubmissionsHaveRows, LatestIsLast, RowIsLast, RowsAgree, Agrees, Ahead
    <3> QED
      BY <3>1, <3>3, <3>4 DEF RInv, Base, Rest
  <2> QED
    BY <2>1, <2>2
<1> QED
  BY <1>1, <1>2 DEF RInv, Base, Rest

\* The tables are empty.
LEMMA InitRInv == Init => RInv
<1> SUFFICES ASSUME Init PROVE RInv
  OBVIOUS
<1>1. IInv
  BY InitIInv
<1>2. TableTypes /\ PassInOrder /\ swallowed \in BOOLEAN /\ Untouched /\ RowsComeFromEvents
  <2>1. /\ submissions = <<>> /\ submissions \in Seq(Submission) /\ DOMAIN submissions = {}
        /\ markets = [m \in Markets |-> None] /\ markets \in [Markets -> MarketRow \cup {None}]
        /\ \A m \in Markets : markets[m] = None
    BY DEF Init
  <2>2. TableTypes
    BY <2>1 DEF Init, TableTypes
  <2>3. PassInOrder
    BY DEF Init, PassInOrder, Busy, HandlerQueries
  <2>4. swallowed \in BOOLEAN /\ Untouched /\ RowsComeFromEvents
    BY <2>1 DEF Init, Untouched, RowsComeFromEvents
  <2> QED
    BY <2>2, <2>3, <2>4
<1>3. HandlerPlace /\ Converging
  BY DEF Init, HandlerPlace, Converging, HandlerQueries
<1> QED
  BY <1>1, <1>2, <1>3 DEF RInv, Base

\* Caught up, nothing is ahead.
LEMMA NothingAhead ==
    ASSUME START_LEDGER # 0, RInv, CaughtUp, ~swallowed
    PROVE  \A m \in Markets : /\ markets[m] = RowOf(m)
                             /\ \A i \in RowsOf(m) : IsLatest(i, m) => Agrees(i, m)
<1>1. /\ pc = "poll" /\ cursor = Len(chain) + 1 /\ LoopTypes /\ origin = START_LEDGER
      /\ START_LEDGER \in Nat /\ Len(chain) \in Nat
  BY DEF CaughtUp, RInv, Base, IInv, Restarts, LoopTypes
<1>2. \A p \in PlacesFrom(origin) : ~Ahead(p)
  BY <1>1, PlaceFacts DEF Ahead, Done
<1>3. \A m \in Markets : RowIsLast(m) /\ RowsAgree(m)
  BY <1>1 DEF RInv, Converging
<1> QED
  BY <1>1, <1>2, <1>3, SubsDecide DEF RowIsLast, RowsAgree

\* With a START_LEDGER, once the indexer has caught up the markets table is
\* what following the chain in its order gives, whatever was processed again
\* after an exception or a restart, as long as no handler of this run of the
\* process swallowed an error.
THEOREM ReplayAlwaysConverges ==
    ASSUME START_LEDGER # 0
    PROVE  Spec => []ReplayConverges
<1>1. RInv => ReplayConverges
  BY NothingAhead DEF ReplayConverges
<1> QED
  BY <1>1, InitRInv, NextRInv, PTL DEF Spec

\* And the submission that getLatestOracleSubmission finds then has the status
\* its market's row says.
THEOREM LatestSubmissionAlwaysAgrees ==
    ASSUME START_LEDGER # 0
    PROVE  Spec => []LatestSubmissionAgrees
<1>1. RInv => LatestSubmissionAgrees
  <2> SUFFICES ASSUME RInv, CaughtUp, ~swallowed, NEW m \in Markets,
                      NEW i, i = getLatestOracleSubmission(m), i # None
               PROVE  submissions[i].status =
                        (CASE markets[m].oracle_state = "submitted" -> "pending"
                           [] markets[m].oracle_state = "disputed" -> "disputed"
                           [] markets[m].oracle_state = "finalized" -> "finalized")
    BY DEF LatestSubmissionAgrees
  <2>1. IsLatest(i, m)
    BY FoundIs DEF RInv, Base
  <2>2. Agrees(i, m)
    BY <2>1, NothingAhead DEF IsLatest
  <2> QED
    BY <2>2 DEF Agrees
<1> QED
  BY <1>1, InitRInv, NextRInv, PTL DEF Spec

----------------------------------------------------------------------------
(* The types, with the one reference between tables that no constraint of   *)
(* the database holds: a dispute's submission exists.                       *)

MoreTypes ==
    /\ Len(chain) <= MaxLedger
    /\ disputes \in Seq([submission_id : Nat, market : Markets, ledger : 1 .. MaxLedger])
    /\ \A i \in DOMAIN disputes : disputes[i].submission_id \in DOMAIN submissions
    /\ faults \in 0 .. MaxFaults

LEMMA InitMoreTypes ==
    ASSUME Lookback < MaxLedger
    PROVE  Init => MoreTypes
<1> SUFFICES ASSUME Init PROVE MoreTypes
  OBVIOUS
<1>1. Lookback \in Nat /\ MaxLedger \in Nat /\ MaxFaults \in Nat
  BY IndexerAssumption
<1>2. chain \in [1 .. Lookback + 1 -> LedgerContents]
  BY DEF Init
<1>3. Len(chain) = Lookback + 1
  <2>1. chain \in Seq(LedgerContents) /\ DOMAIN chain = 1 .. Lookback + 1
    BY <1>1, <1>2
  <2>2. DOMAIN chain = 1 .. Len(chain) /\ Len(chain) \in Nat
    BY <2>1
  <2> QED
    BY <1>1, <2>1, <2>2
<1>4. disputes = <<>> /\ faults = 0 /\ DOMAIN disputes = {}
  BY DEF Init
<1> QED
  BY <1>1, <1>3, <1>4 DEF MoreTypes

\* Submissions are only added or changed: none that a dispute names goes away.
LEMMA NextMoreTypes ==
    ASSUME START_LEDGER # 0
    PROVE  RInv /\ MoreTypes /\ [Next]_vars => MoreTypes'
<1> SUFFICES ASSUME RInv, MoreTypes, [Next]_vars PROVE MoreTypes'
  OBVIOUS
<1>1. /\ Base /\ TableTypes /\ LoopTypes /\ HandlerPlace
      /\ submissions \in Seq(Submission) /\ chain \in Seq(LedgerContents)
      /\ MaxFaults \in Nat /\ MaxLedger \in Nat /\ faults \in 0 .. MaxFaults
  <2>1. Base /\ TableTypes /\ LoopTypes /\ HandlerPlace
    BY DEF RInv, Base, IInv
  <2>2. submissions \in Seq(Submission) /\ chain \in Seq(LedgerContents)
    BY <2>1 DEF TableTypes, LoopTypes
  <2>3. MaxFaults \in Nat /\ MaxLedger \in Nat
    BY IndexerAssumption
  <2> QED
    BY <2>1, <2>2, <2>3 DEF MoreTypes
<1>2. ASSUME UNCHANGED <<chain, disputes>>, faults' \in {faults, faults + 1},
             faults' # faults => faults < MaxFaults,
             DOMAIN submissions \subseteq DOMAIN submissions'
      PROVE  MoreTypes'
  <2>1. faults' \in 0 .. MaxFaults
    BY <1>1, <1>2
  <2> QED
    BY <1>2, <2>1 DEF MoreTypes
<1>3. CASE \/ Start \/ GetLatestLedger \/ FetchPage \/ LedgerChanged
           \/ StoreEvent \/ FindSubmission \/ UpsertMarket \/ FinishPass \/ UNCHANGED vars
  BY <1>2, <1>3 DEF Start, GetLatestLedger, FetchPage, LedgerChanged, StoreEvent,
     FindSubmission, UpsertMarket, FinishPass, vars
<1>4. CASE FetchFails \/ StoreEventFails \/ HandlerFails \/ FinishPassFails \/ Crash
  BY <1>1, <1>2, <1>4 DEF FetchFails, StoreEventFails, HandlerFails, FinishPassFails, Crash, Fault
<1>5. CASE InsertSubmission
  <2> DEFINE row == [market |-> EventAt(At).market, outcome |-> EventAt(At).outcome,
                     ledger |-> At[1], status |-> "pending"]
  <2>1. submissions' = Append(submissions, row) /\ UNCHANGED <<chain, disputes, faults>>
    BY <1>5 DEF InsertSubmission
  <2> HIDE DEF row
  <2>2. DOMAIN submissions \subseteq DOMAIN submissions'
    BY <1>1, <2>1
  <2> QED
    BY <1>2, <2>1, <2>2
<1>6. CASE UpdateStatus
  <2>1. UNCHANGED <<chain, disputes, faults>> /\ DOMAIN submissions' = DOMAIN submissions
    BY <1>6 DEF UpdateStatus
  <2> QED
    BY <1>2, <2>1
<1>7. CASE InsertDispute
  <2> DEFINE row == [submission_id |-> submission, market |-> EventAt(At).market, ledger |-> At[1]]
             Row == [submission_id : Nat, market : Markets, ledger : 1 .. MaxLedger]
  <2>1. /\ disputes' = Append(disputes, row) /\ pc = "insertDispute"
        /\ UNCHANGED <<chain, submissions, faults>>
    BY <1>7 DEF InsertDispute
  <2>2. At \in Place /\ EventAt(At) \in Event
    BY <1>1, <2>1, AtFacts DEF HandlerQueries
  <2>3. submission # None /\ submission \in DOMAIN submissions
    BY <1>1, <2>1 DEF HandlerPlace, HandlerQueries, TableTypes
  <2>4. row \in Row
    BY <1>1, <2>2, <2>3 DEF Place, Event
  <2>5. row.submission_id = submission
    OBVIOUS
  <2>6. disputes \in Seq(Row) /\ \A i \in DOMAIN disputes : disputes[i].submission_id \in DOMAIN submissions
    BY DEF MoreTypes
  <2> HIDE DEF row, Row
  <2>7. /\ disputes' \in Seq(Row) /\ DOMAIN disputes' = DOMAIN disputes \cup {Len(disputes) + 1}
        /\ \A i \in DOMAIN disputes : disputes'[i] = disputes[i]
        /\ disputes'[Len(disputes) + 1] = row
    BY <2>1, <2>4, <2>6
  <2>8. \A i \in DOMAIN disputes' : disputes'[i].submission_id \in DOMAIN submissions'
    BY <2>1, <2>3, <2>5, <2>6, <2>7
  <2> QED
    BY <2>1, <2>7, <2>8 DEF MoreTypes, Row
<1>8. CASE CloseLedger
  <2>1. PICK c \in LedgerContents : chain' = Append(chain, c)
    BY <1>8 DEF CloseLedger
  <2>2. Len(chain) < MaxLedger /\ UNCHANGED <<disputes, submissions, faults>>
    BY <1>8 DEF CloseLedger
  <2>3. Len(chain') <= MaxLedger
    BY <1>1, <2>1, <2>2
  <2> QED
    BY <2>2, <2>3 DEF MoreTypes
<1> QED
  BY <1>3, <1>4, <1>5, <1>6, <1>7, <1>8 DEF Next, Process

\* Pages are counted.
Counted == pages \in Nat

LEMMA NextCounted == Counted /\ [Next]_vars => Counted'
BY DEF Counted, Next, Process, Start, GetLatestLedger, FetchPage, LedgerChanged, FetchFails, StoreEvent,
   StoreEventFails, InsertSubmission, FindSubmission, InsertDispute, UpdateStatus, UpsertMarket,
   HandlerFails, FinishPass, FinishPassFails, Crash, CloseLedger, vars, loop

\* The tables and the loop have their types, whatever was interrupted and processed again; a
\* dispute names a submission there is.
THEOREM IndexerTypes ==
    ASSUME START_LEDGER # 0, Lookback < MaxLedger
    PROVE  Spec => []TypeOK
<1>1. RInv /\ MoreTypes /\ Counted => TypeOK
  BY IndexerAssumption
     DEF RInv, Base, IInv, LoopTypes, Restarts, TableTypes, PassInOrder, MoreTypes, Counted, TypeOK,
         Busy
<1>2. Init => Counted
  BY DEF Init, Counted
<1> QED
  BY <1>1, <1>2, InitRInv, NextRInv, InitMoreTypes, NextMoreTypes, NextCounted, PTL DEF Spec

============================================================================
