----------------------------- MODULE EventPages -----------------------------
(***************************************************************************)
(* The lists the API serves (indexer/src/db.js: getEvents, getMarkets,      *)
(* getBets, getLeaderboard, getWalletEvents, getContracts) and the readers  *)
(* that go through them page by page while the indexer inserts: an API      *)
(* client that follows next_cursor, and a frontend page with its "Next"     *)
(* button, which sends page numbers.                                        *)
(*                                                                          *)
(* The rows are those that match the reader's filter.  Times are counted in *)
(* PostgreSQL's microseconds; a JavaScript Date only has milliseconds.      *)
(***************************************************************************)
EXTENDS Integers, Sequences, FiniteSets

CONSTANTS
  MaxRows,   \* bound on the table
  MaxKey,    \* bound on ledgers, names and contracts
  MaxTime,   \* bound on the insertion times
  MsLen,     \* microseconds per millisecond
  Limit      \* rows per page

ASSUME PagesAssumption ==
  /\ MaxRows \in Nat /\ MaxKey \in Nat /\ MaxTime \in Nat
  /\ MsLen \in Nat \ {0} /\ Limit \in Nat \ {0}

VARIABLES
  listing,   \* the list that is read
  rows,      \* the table, in order of insertion
  reader     \* the reader and what it has seen

pageVars == <<listing, rows, reader>>

Listings == {"events", "markets", "bets", "leaderboard", "wallet", "contracts"}
CursorListings == {"events", "markets", "bets", "leaderboard"}
PageListings == {"events", "wallet", "contracts"}   \* those with a page in the frontend
CatchingListings == {"markets", "bets"}             \* those that catch a failing query

\* key is a ledger, a contract's name or the contract of an event.
Row == [key : 1 .. MaxKey, at : 0 .. MaxTime, id : 1 .. MaxRows]
Id == 1 .. (MaxRows + MaxKey)
NoCursor == <<-1, -1>>

Reader ==
  [pc : {"idle", "cursor", "count", "select", "turn", "done"}, way : {"cursor", "page"},
   cursor : Int \X Int, page : Nat, total : Nat, start : SUBSET Id, got : SUBSET Id,
   again : SUBSET Id, ends : SUBSET Nat, raced : BOOLEAN, swallowed : BOOLEAN]

PagesTypeOK ==
  /\ listing \in Listings
  /\ rows \in Seq(Row)
  /\ reader \in Reader

NewReader(way, start) ==
  [pc |-> "idle", way |-> way, cursor |-> NoCursor, page |-> 1, total |-> 0, start |-> start,
   got |-> {}, again |-> {}, ends |-> {}, raced |-> FALSE, swallowed |-> FALSE]

PagesInit ==
  /\ listing \in Listings
  /\ rows = <<>>
  /\ reader = NewReader("cursor", {})

------------------------------------------------------------------------------
(* The queries.  An item is a row with its place in the ORDER BY, the time   *)
(* its cursor is made of, and its id; a list is read in descending order.    *)

Less(a, b) == a[1] < b[1] \/ (a[1] = b[1] /\ a[2] < b[2])

\* ORDER BY ledger DESC, seq DESC; seq numbers the rows as they are inserted.
getEvents ==
  {[ord |-> <<rows[i].key, i>>, time |-> rows[i].at, id |-> i] : i \in DOMAIN rows}

\* ORDER BY created_at DESC, id DESC; ids are chosen by whoever creates a market.
getMarkets ==
  {[ord |-> <<rows[i].at, rows[i].id>>, time |-> rows[i].at, id |-> rows[i].id]
     : i \in DOMAIN rows}

\* The bets of one market.
getBets ==
  {[ord |-> <<rows[i].at, rows[i].id>>, time |-> rows[i].at, id |-> rows[i].id]
     : i \in DOMAIN rows}

\* ORDER BY event_count DESC, contract_id DESC.
getLeaderboard ==
  LET event_count(c) == Cardinality({i \in DOMAIN rows : rows[i].key = c})
  IN {[ord |-> <<event_count(c), c>>, time |-> event_count(c), id |-> c]
        : c \in {rows[i].key : i \in DOMAIN rows}}

\* ORDER BY ledger DESC and nothing else: each query may order the rows of one ledger
\* as it likes.  Two orders stand for all.
getWalletEvents(flip) ==
  {[ord |-> <<rows[i].key, IF flip THEN -i ELSE i>>, time |-> rows[i].at, id |-> i]
     : i \in DOMAIN rows}

\* ORDER BY name ASC.
getContracts(flip) ==
  {[ord |-> <<-rows[i].key, IF flip THEN -i ELSE i>>, time |-> rows[i].at, id |-> i]
     : i \in DOMAIN rows}

Items(flip) ==
  CASE listing = "events" -> getEvents
    [] listing = "markets" -> getMarkets
    [] listing = "bets" -> getBets
    [] listing = "leaderboard" -> getLeaderboard
    [] listing = "wallet" -> getWalletEvents(flip)
    [] listing = "contracts" -> getContracts(flip)

Ids(S) == {a.id : a \in S}

\* LIMIT n OFFSET k.
Slice(S, k, n) ==
  {a \in S : LET before == Cardinality({b \in S : Less(a.ord, b.ord)})
             IN before >= k /\ before < k + n}

Last(S) == CHOOSE a \in S : \A b \in S : b = a \/ Less(a.ord, b.ord)

Ms(t) == (t \div MsLen) * MsLen

\* encodeCursor: toISOString drops the microseconds.  A count is taken for a date, and
\* getLeaderboard's Number(decoded.time) of the text is not a number: 0.
encodeCursor(a) == <<IF listing = "leaderboard" THEN 0 ELSE Ms(a.time), a.id>>

------------------------------------------------------------------------------
(* The indexer and the administrators.                                       *)

\* A row is inserted; backfill inserts older ledgers later.
Insert(k, t, id) ==
  /\ Len(rows) < MaxRows
  /\ \A i \in DOMAIN rows : rows[i].at <= t /\ rows[i].id # id
  /\ listing \notin {"markets", "bets"} => id = Len(rows) + 1
  /\ listing \in {"markets", "bets"} => k = 1
  /\ listing \in {"leaderboard", "wallet", "contracts"} => t = 0
  /\ rows' = Append(rows, [key |-> k, at |-> t, id |-> id])
  /\ reader' = [reader EXCEPT !.raced = @ \/ reader.pc = "select"]
  /\ UNCHANGED listing

\* upsertContractMeta gives a registered contract another name.
Rename(i, k) ==
  /\ listing = "contracts" /\ rows[i].key # k
  /\ rows' = [rows EXCEPT ![i].key = k]
  /\ reader' = [reader EXCEPT !.raced = TRUE]
  /\ UNCHANGED listing

------------------------------------------------------------------------------
(* A client that follows next_cursor.                                        *)

Present == Ids(Items(FALSE))

StartCursor ==
  /\ reader.pc \in {"idle", "done"} /\ listing \in CursorListings
  /\ reader' = [NewReader("cursor", Present) EXCEPT !.pc = "cursor"]
  /\ UNCHANGED <<listing, rows>>

Seen(page) ==
  [reader EXCEPT !.got = @ \cup Ids(page), !.again = @ \cup (reader.got \cap Ids(page))]

\* WHERE (created_at, seq) < (time, id), whatever the ORDER BY is.
AfterCursor(S) ==
  {a \in S : reader.cursor = NoCursor \/ Less(<<a.time, a.id>>, reader.cursor)}

\* Mutant: the extra row that shows there is more is where the next page starts after.
FetchAfterSkipsOne ==
  LET S == AfterCursor(Items(FALSE))
      page == Slice(S, 0, Limit)
      more == Cardinality(S) > Limit
      last == Last(page)
      dropped == Last(Slice(S, 0, Limit + 1))
  IN /\ reader.pc = "cursor"
     /\ reader' = [Seen(page) EXCEPT
          !.pc = IF more THEN "cursor" ELSE "done",
          !.cursor = IF more THEN encodeCursor(dropped) ELSE NoCursor,
          !.ends = IF more THEN @ \cup {Ms(last.time)} ELSE @]
     /\ UNCHANGED <<listing, rows>>

\* One more row than asked for is read, and dropped, to know whether there is more.
FetchAfter ==
  LET S == AfterCursor(Items(FALSE))
      page == Slice(S, 0, Limit)
      more == Cardinality(S) > Limit
      last == Last(page)
  IN /\ reader.pc = "cursor"
     /\ reader' = [Seen(page) EXCEPT
          !.pc = IF more THEN "cursor" ELSE "done",
          !.cursor = IF more THEN encodeCursor(last) ELSE NoCursor,
          !.ends = IF more THEN @ \cup {Ms(last.time)} ELSE @]
     /\ UNCHANGED <<listing, rows>>

------------------------------------------------------------------------------
(* A frontend page: COUNT and SELECT are two queries, and "Next" is          *)
(* enabled while page * limit < total.                                       *)

StartPages ==
  /\ reader.pc \in {"idle", "done"} /\ listing \in PageListings
  /\ reader' = [NewReader("page", Present) EXCEPT !.pc = "count"]
  /\ UNCHANGED <<listing, rows>>

Count ==
  /\ reader.pc = "count"
  /\ reader' = [reader EXCEPT !.pc = "select", !.total = Cardinality(Items(FALSE))]
  /\ UNCHANGED <<listing, rows>>

FetchPage ==
  /\ reader.pc = "select"
  /\ \E flip \in BOOLEAN :
       reader' = [Seen(Slice(Items(flip), (reader.page - 1) * Limit, Limit)) EXCEPT !.pc = "turn"]
  /\ UNCHANGED <<listing, rows>>

Turn ==
  /\ reader.pc = "turn"
  /\ reader' = IF reader.page * Limit >= reader.total
                 THEN [reader EXCEPT !.pc = "done"]
                 ELSE [reader EXCEPT !.pc = "count", !.page = @ + 1]
  /\ UNCHANGED <<listing, rows>>

------------------------------------------------------------------------------
(* A query fails.                                                            *)

\* getMarkets and getBets answer an empty page with no next_cursor, as at the end of the
\* list.  The other lists answer an error, and the client asks for the page again.
CursorQueryFails ==
  /\ reader.pc = "cursor" /\ listing \in CatchingListings
  /\ reader' = [reader EXCEPT !.pc = "done", !.swallowed = TRUE]
  /\ UNCHANGED <<listing, rows>>

\* A frontend page asks for both queries again.  When it gives up it has no data: no rows
\* are shown, the total is 0, and "Next" is disabled.
PageQueryFails ==
  /\ reader.pc \in {"count", "select"}
  /\ reader' \in {[reader EXCEPT !.pc = "count"],
                  [reader EXCEPT !.pc = "done", !.total = 0, !.swallowed = TRUE]}
  /\ UNCHANGED <<listing, rows>>

PagesNext ==
  \/ \E k \in 1 .. MaxKey, t \in 0 .. MaxTime, id \in 1 .. MaxRows : Insert(k, t, id)
  \/ \E i \in DOMAIN rows, k \in 1 .. MaxKey : Rename(i, k)
  \/ StartCursor \/ FetchAfter
  \/ StartPages \/ Count \/ FetchPage \/ Turn
  \/ CursorQueryFails \/ PageQueryFails

PagesSpec == PagesInit /\ [][PagesNext]_pageVars

------------------------------------------------------------------------------
(* Properties.                                                              *)

\* Ledgers were indexed in order: no backfill beside the live indexer.
InOrder == \A i, j \in DOMAIN rows : i < j => rows[i].key <= rows[j].key

\* What a finished cursor walk has not seen of the rows there were at its start was
\* inserted in the same millisecond as the last row of a page: the cursor has lost the
\* microseconds that tell them apart.  Nothing else is missed, unless a failing query was
\* answered as the end of the list, and nothing comes twice, however many rows are inserted
\* meanwhile; for events, if ledgers are indexed in order, as the order of the list and the
\* cursor only then agree.
OnlySameInstantMissed ==
  (reader.pc = "done" /\ reader.way = "cursor" /\ listing # "leaderboard"
     /\ (listing = "events" => InOrder))
    => /\ reader.again = {}
       /\ ~reader.swallowed =>
            \A a \in Items(FALSE) :
              a.id \in reader.start \ reader.got => Ms(a.time) \in reader.ends

\* A reader who presses "Next" until it is disabled has seen every row that was there
\* at the start (some twice), unless a row was inserted between the two queries of a
\* page, a contract got another name or the request of a page failed for good.  Only lists
\* without a complete order lose others: a row that shares its ledger or its name with
\* another.
NextMissesNothing ==
  (reader.pc = "done" /\ reader.way = "page" /\ ~reader.raced /\ ~reader.swallowed)
    => \A id \in reader.start \ reader.got :
         /\ listing \in {"wallet", "contracts"}
         /\ \E i \in DOMAIN rows : i # id /\ rows[i].key = rows[id].key

\* Whichever way a list is read, by cursor or by page number, while rows are inserted: of
\* the rows there were at the start only those are missed that share the cursor's
\* millisecond or, in a list without a complete order, the sort key with another row, unless
\* the end of the walk was a query that failed.
WalkIsComplete == OnlySameInstantMissed /\ NextMissesNothing
==============================================================================
