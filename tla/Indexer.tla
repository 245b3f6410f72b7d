------------------------------ MODULE Indexer ------------------------------
(***************************************************************************)
(* indexer/src: the poll loop (index.js), the three oracle event handlers  *)
(* and the tables they write (db.js).  A pass of the loop asks for the     *)
(* latest ledger, fetches every event from the cursor to it page by page,  *)
(* stores each and runs its handler, and only then moves the cursor, which *)
(* lives in memory: an exception, as when a ledger closes between two      *)
(* pages, makes the loop repeat the pass, a restart starts over.           *)
(* Every await ends an action.  A handler's query that fails after it was  *)
(* executed is a query that succeeds and a next one that fails.  The       *)
(* search for reorganisations is left out: the chain only grows.           *)
(***************************************************************************)
EXTENDS Integers, Sequences, FiniteSets

CONSTANTS
    Markets,
    Outcomes,
    LedgerContents,     \* what a ledger may contain: sequences of events
    START_LEDGER,       \* 0: start from the latest ledger minus Lookback
    Lookback,           \* 100 in the code
    PageSize,           \* 200 in the code
    None,
    MaxLedger,          \* bound on the ledgers of the chain
    MaxPerLedger,       \* bound on the events of a ledger
    MaxFaults           \* bound on failing queries and crashes

\* "other" is any event that no handler acts on.
Event == [kind : {"oracle_submission", "oracle_dispute", "oracle_finalized", "other"},
          market : Markets, outcome : Outcomes]

OracleState == {"submitted", "disputed", "finalized"}
SubmissionStatus == {"pending", "disputed", "finalized"}
Submission == [market : Markets, outcome : Outcomes, ledger : 1 .. MaxLedger,
               status : SubmissionStatus]
MarketRow == [oracle_state : OracleState, outcome : Outcomes]

Place == (1 .. MaxLedger) \X (1 .. MaxPerLedger)

ASSUME IndexerAssumption ==
    /\ LedgerContents \subseteq Seq(Event)
    /\ \A c \in LedgerContents : Len(c) <= MaxPerLedger
    /\ START_LEDGER \in 0 .. MaxLedger
    /\ Lookback \in Nat
    /\ PageSize \in Nat \ {0}
    /\ MaxLedger \in Nat
    /\ MaxPerLedger \in Nat
    /\ MaxFaults \in Nat
    /\ None \notin Nat
    /\ None \notin MarketRow

VARIABLES
    chain,          \* the ledgers, oldest first
    eventRows,      \* copies of each event in the events table
    submissions,    \* oracle_submissions; the id is the index
    disputes,       \* oracle_disputes
    markets,        \* oracle_state and outcome of the markets table
    pc,             \* the query the loop is about to make
    cursor,         \* the local variable of run
    latest,         \* the last ledger of this pass
    pages,          \* the full pages it has fetched
    todo,           \* the places of the events this pass has still to process
    submission,     \* the id a handler found
    faults,         \* failures so far
    origin,         \* history: the cursor of the first start
    swallowed       \* history: since the last start a handler lost an error

loop == <<cursor, latest, pages>>
history == <<origin, swallowed>>
vars == <<chain, eventRows, submissions, disputes, markets, pc, loop, todo,
          submission, faults, history>>

HandlerQueries == {"insertSubmission", "findSubmission", "insertDispute",
                   "updateStatus", "upsertMarket"}

TypeOK ==
    /\ chain \in Seq(LedgerContents) /\ Len(chain) <= MaxLedger
    /\ eventRows \in [Place -> Nat]
    /\ submissions \in Seq(Submission)
    /\ disputes \in Seq([submission_id : Nat, market : Markets, ledger : 1 .. MaxLedger])
    /\ \A i \in DOMAIN disputes : disputes[i].submission_id \in DOMAIN submissions
    /\ markets \in [Markets -> MarketRow \cup {None}]
    /\ pc \in {"down", "poll", "getEvents", "upsertEvent", "recordLedger"} \cup HandlerQueries
    /\ cursor \in Nat /\ latest \in Nat /\ pages \in Nat
    /\ todo \subseteq Place
    /\ pc \in {"upsertEvent"} \cup HandlerQueries => todo # {}
    /\ submission \in DOMAIN submissions \cup {None}
    /\ faults \in 0 .. MaxFaults
    /\ origin \in Nat \cup {None}
    /\ swallowed \in BOOLEAN

\* More than Lookback ledgers are closed before the indexer is deployed.
Init ==
    /\ chain \in [1 .. Lookback + 1 -> LedgerContents]
    /\ eventRows = [p \in Place |-> 0]
    /\ submissions = <<>>
    /\ disputes = <<>>
    /\ markets = [m \in Markets |-> None]
    /\ pc = "down"
    /\ cursor = 0 /\ latest = 0 /\ pages = 0
    /\ todo = {}
    /\ submission = None
    /\ faults = 0
    /\ origin = None
    /\ swallowed = FALSE

----------------------------------------------------------------------------

Fault == faults < MaxFaults /\ faults' = faults + 1

PlacesFrom(first) == {p \in Place : first <= p[1] /\ p[1] <= Len(chain)
                                    /\ p[2] <= Len(chain[p[1]])}

Before(p, q) == p[1] < q[1] \/ (p[1] = q[1] /\ p[2] < q[2])

EventAt(p) == chain[p[1]][p[2]]

First(S) == CHOOSE p \in S : \A q \in S : q # p => Before(p, q)

\* The event at hand: the events are processed in the order of the chain.
At == First(todo)

\* The event is done with: on to the next, or to the end of the pass.
NextEvent ==
    /\ todo' = todo \ {At}
    /\ pc' = IF todo' = {} THEN "recordLedger" ELSE "upsertEvent"
    /\ submission' = None

\* An exception reaches the loop: the pass will be repeated.
AbortPass ==
    /\ pc' = "poll"
    /\ todo' = {}
    /\ submission' = None

----------------------------------------------------------------------------
(* index.js: run and indexLedger.                                          *)

\* getCursor never finds a row: setCursor, its only writer, has no caller.
StartCursor == IF START_LEDGER # 0 THEN START_LEDGER ELSE Len(chain) - Lookback

Start ==
    /\ pc = "down"
    /\ cursor' = StartCursor
    /\ pc' = "poll"
    /\ origin' = IF origin = None THEN StartCursor ELSE origin
    /\ swallowed' = FALSE
    /\ UNCHANGED <<chain, eventRows, submissions, disputes, markets, latest, pages,
                   todo, submission, faults>>

\* A fetch that waits for one more ledger to close.
GetLatestLedgerBehind ==
    /\ pc = "poll"
    /\ cursor < Len(chain)
    /\ latest' = Len(chain)
    /\ pages' = 0
    /\ pc' = "getEvents"
    /\ UNCHANGED <<chain, eventRows, submissions, disputes, markets, cursor, todo,
                   submission, faults, history>>

\* indexLedger begins; asking for a ledger that is not closed yet is an error
\* and leaves all as it is.
GetLatestLedger ==
    /\ pc = "poll"
    /\ cursor <= Len(chain)
    /\ latest' = Len(chain)
    /\ pages' = 0
    /\ pc' = "getEvents"
    /\ UNCHANGED <<chain, eventRows, submissions, disputes, markets, cursor, todo,
                   submission, faults, history>>

\* One page; a page that is not full is the last, and the fetched events are
\* then processed.
FetchPage ==
    /\ pc = "getEvents"
    /\ latest = Len(chain)
    /\ IF (pages + 1) * PageSize <= Cardinality(PlacesFrom(cursor))
       THEN pages' = pages + 1 /\ UNCHANGED <<todo, pc>>
       ELSE /\ pages' = 0
            /\ todo' = PlacesFrom(cursor)
            /\ pc' = IF todo' = {} THEN "recordLedger" ELSE "upsertEvent"
    /\ UNCHANGED <<chain, eventRows, submissions, disputes, markets, cursor, latest,
                   submission, faults, history>>

\* A ledger closed since the pass began: all its pages are thrown away.  At
\* MaxLedger it is a ledger beyond the bound that closes.
LedgerChanged ==
    /\ pc = "getEvents"
    /\ latest # Len(chain) \/ Len(chain) = MaxLedger
    /\ AbortPass
    /\ pages' = 0
    /\ UNCHANGED <<chain, eventRows, submissions, disputes, markets, cursor, latest,
                   faults, history>>

FetchFails ==
    /\ pc = "getEvents"
    /\ Fault
    /\ AbortPass
    /\ UNCHANGED <<chain, eventRows, submissions, disputes, markets, loop, history>>

\* Where the event's handler begins.
FirstQuery(e) ==
    IF e.kind = "oracle_submission" THEN "insertSubmission" ELSE "findSubmission"

\* db.upsertEvent: no unique constraint, so that a repeated event is stored
\* again.
StoreEvent ==
    /\ pc = "upsertEvent"
    /\ eventRows' = [eventRows EXCEPT ![At] = @ + 1]
    /\ IF EventAt(At).kind = "other"
       THEN NextEvent
       ELSE pc' = FirstQuery(EventAt(At)) /\ UNCHANGED <<todo, submission>>
    /\ UNCHANGED <<chain, submissions, disputes, markets, loop, faults, history>>

\* Not caught in indexLedger; the insert may have been executed.
StoreEventFails ==
    /\ pc = "upsertEvent"
    /\ Fault
    /\ eventRows' \in {eventRows, [eventRows EXCEPT ![At] = @ + 1]}
    /\ AbortPass
    /\ UNCHANGED <<chain, submissions, disputes, markets, loop, history>>

\* A pass that moves the cursor past the ledgers closed since it began.
FinishPassAtHead ==
    /\ pc = "recordLedger"
    /\ cursor' = Len(chain) + 1
    /\ pc' = "poll"
    /\ UNCHANGED <<chain, eventRows, submissions, disputes, markets, latest, pages,
                   todo, submission, faults, history>>

FinishPass ==
    /\ pc = "recordLedger"
    /\ cursor' = latest + 1
    /\ pc' = "poll"
    /\ UNCHANGED <<chain, eventRows, submissions, disputes, markets, latest, pages,
                   todo, submission, faults, history>>

\* fetchLedgerHashes or recordLedger throws.
FinishPassFails ==
    /\ pc = "recordLedger"
    /\ Fault
    /\ AbortPass
    /\ UNCHANGED <<chain, eventRows, submissions, disputes, markets, loop, history>>

----------------------------------------------------------------------------
(* handlers: oracle_submission, oracle_dispute, oracle_finalized.          *)

InsertSubmission ==
    /\ pc = "insertSubmission"
    /\ submissions' = Append(submissions,
            [market |-> EventAt(At).market, outcome |-> EventAt(At).outcome,
             ledger |-> At[1], status |-> "pending"])
    /\ pc' = "upsertMarket"
    /\ UNCHANGED <<chain, eventRows, disputes, markets, loop, todo, submission, faults, history>>

\* ORDER BY ledger DESC, id DESC LIMIT 1
getLatestOracleSubmission(m) ==
    LET ids == {i \in DOMAIN submissions : submissions[i].market = m}
    IN  IF ids = {} THEN None
        ELSE CHOOSE i \in ids : \A j \in ids :
                <<submissions[j].ledger, j>> = <<submissions[i].ledger, i>>
                \/ Before(<<submissions[j].ledger, j>>, <<submissions[i].ledger, i>>)

\* A dispute without a submission is dropped; a finalization is not.
FindSubmission ==
    /\ pc = "findSubmission"
    /\ LET e == EventAt(At)
           found == getLatestOracleSubmission(e.market)
       IN  IF e.kind = "oracle_dispute" /\ found = None
           THEN NextEvent
           ELSE /\ submission' = found
                /\ pc' = IF e.kind = "oracle_dispute" THEN "insertDispute"
                         ELSE IF found # None THEN "updateStatus" ELSE "upsertMarket"
                /\ UNCHANGED todo
    /\ UNCHANGED <<chain, eventRows, submissions, disputes, markets, loop, faults, history>>

InsertDispute ==
    /\ pc = "insertDispute"
    /\ disputes' = Append(disputes,
            [submission_id |-> submission, market |-> EventAt(At).market, ledger |-> At[1]])
    /\ pc' = "updateStatus"
    /\ UNCHANGED <<chain, eventRows, submissions, markets, loop, todo, submission, faults, history>>

\* A status that is only set while the submission is pending.
UpdateStatusOnce ==
    /\ pc = "updateStatus"
    /\ submissions' = [submissions EXCEPT ![submission].status =
            IF @ # "pending" THEN @
            ELSE IF EventAt(At).kind = "oracle_dispute" THEN "disputed" ELSE "finalized"]
    /\ pc' = "upsertMarket"
    /\ UNCHANGED <<chain, eventRows, disputes, markets, loop, todo, submission, faults, history>>

UpdateStatus ==
    /\ pc = "updateStatus"
    /\ submissions' = [submissions EXCEPT ![submission].status =
            IF EventAt(At).kind = "oracle_dispute" THEN "disputed" ELSE "finalized"]
    /\ pc' = "upsertMarket"
    /\ UNCHANGED <<chain, eventRows, disputes, markets, loop, todo, submission, faults, history>>

\* What the handler of e writes to the markets table.
NewRow(e) ==
    CASE e.kind = "oracle_submission" ->
            [oracle_state |-> "submitted", outcome |-> e.outcome]
      [] e.kind = "oracle_dispute" ->
            [oracle_state |-> "disputed", outcome |-> submissions[submission].outcome]
      [] e.kind = "oracle_finalized" ->
            [oracle_state |-> "finalized", outcome |-> e.outcome]

\* A row that is not touched again once it is finalized.
UpsertUnlessFinal ==
    /\ pc = "upsertMarket"
    /\ LET e == EventAt(At)
       IN  markets' = [markets EXCEPT ![e.market] =
                IF @ # None /\ @.oracle_state = "finalized" THEN @ ELSE NewRow(e)]
    /\ NextEvent
    /\ UNCHANGED <<chain, eventRows, submissions, disputes, loop, faults, history>>

\* db.upsertMarket overwrites, whatever the row says; the invalidation of the
\* cache that follows does nothing yet.
UpsertMarket ==
    /\ pc = "upsertMarket"
    /\ LET e == EventAt(At)
       IN  markets' = [markets EXCEPT ![e.market] = NewRow(e)]
    /\ NextEvent
    /\ UNCHANGED <<chain, eventRows, submissions, disputes, loop, faults, history>>

\* The handlers catch every error: the rest of the event's updates is lost.
HandlerFails ==
    /\ pc \in HandlerQueries
    /\ Fault
    /\ NextEvent
    /\ swallowed' = TRUE
    /\ UNCHANGED <<chain, eventRows, submissions, disputes, markets, loop, origin>>

----------------------------------------------------------------------------
(* The process and the network.                                            *)

Crash ==
    /\ pc # "down"
    /\ Fault
    /\ pc' = "down"
    /\ todo' = {}
    /\ submission' = None
    /\ UNCHANGED <<chain, eventRows, submissions, disputes, markets, loop, history>>

CloseLedger ==
    /\ Len(chain) < MaxLedger
    /\ \E c \in LedgerContents : chain' = Append(chain, c)
    /\ UNCHANGED <<eventRows, submissions, disputes, markets, pc, loop, todo, submission,
                   faults, history>>

Process ==
    \/ Start \/ GetLatestLedger \/ FetchPage \/ LedgerChanged \/ FetchFails
    \/ StoreEvent \/ StoreEventFails
    \/ InsertSubmission \/ FindSubmission \/ InsertDispute \/ UpdateStatus \/ UpsertMarket
    \/ HandlerFails
    \/ FinishPass \/ FinishPassFails

Next == Process \/ Crash \/ CloseLedger

\* Queries settle, the poll timer fires and a stopped process is started
\* again; ledgers need not close.
Spec == Init /\ [][Next]_vars /\ WF_vars(Process)

----------------------------------------------------------------------------
(* Properties.                                                             *)

\* "START_LEDGER: 0 to auto-resume": from the ledger it first started at to
\* its cursor the indexer has stored every event, whatever failed or crashed.
NothingIsSkipped ==
    pc # "down" /\ origin # None =>
        \A p \in PlacesFrom(origin) : p[1] < cursor => eventRows[p] > 0

\* The events of m in the chain from the origin on.
EventsOf(m) == {p \in PlacesFrom(origin) : EventAt(p).market = m}

SubmissionsBefore(q) ==
    {p \in EventsOf(EventAt(q).market) :
        EventAt(p).kind = "oracle_submission" /\ Before(p, q)}

Last(S) == CHOOSE p \in S : \A q \in S : q # p => Before(q, p)

\* The events of m that decide its row: a dispute of nothing does not.
Deciding(m) ==
    {p \in EventsOf(m) :
        \/ EventAt(p).kind \in {"oracle_submission", "oracle_finalized"}
        \/ EventAt(p).kind = "oracle_dispute" /\ SubmissionsBefore(p) # {}}

\* The row an event leaves, when the chain is followed in its order.
RowAfter(p) ==
    CASE EventAt(p).kind = "oracle_submission" ->
            [oracle_state |-> "submitted", outcome |-> EventAt(p).outcome]
      [] EventAt(p).kind = "oracle_finalized" ->
            [oracle_state |-> "finalized", outcome |-> EventAt(p).outcome]
      [] EventAt(p).kind = "oracle_dispute" ->
            [oracle_state |-> "disputed",
             outcome |-> EventAt(Last(SubmissionsBefore(p))).outcome]

\* The row the chain calls for: that of the last event that decides it.
RowOf(m) == IF Deciding(m) = {} THEN None ELSE RowAfter(Last(Deciding(m)))

CaughtUp == pc = "poll" /\ cursor = Len(chain) + 1

\* However often events were processed again and wherever the process was
\* interrupted, once it has caught up each market is as its last event left
\* it, unless a handler lost an error; a restart from START_LEDGER makes up
\* for that too.
ReplayConverges ==
    CaughtUp /\ ~swallowed => \A m \in Markets : markets[m] = RowOf(m)

\* The submission a dispute or finalization would be recorded against agrees
\* with the market's row, although the two are written one after the other.
LatestSubmissionAgrees ==
    CaughtUp /\ ~swallowed =>
        \A m \in Markets :
            LET id == getLatestOracleSubmission(m)
            IN  id # None =>
                    submissions[id].status =
                        (CASE markets[m].oracle_state = "submitted" -> "pending"
                           [] markets[m].oracle_state = "disputed" -> "disputed"
                           [] markets[m].oracle_state = "finalized" -> "finalized")

\* Once fetches are no longer overtaken by ledgers closing, every closed ledger
\* is eventually passed: failing queries and crashes only delay the loop.  A
\* backlog of more pages than are fetched between two ledgers is never passed:
\* each retry starts with its first page.
LedgersAreIndexed ==
    <>[][~LedgerChanged]_vars =>
        \A l \in 1 .. MaxLedger : Len(chain) >= l ~> (cursor > l /\ pc # "down")

============================================================================
