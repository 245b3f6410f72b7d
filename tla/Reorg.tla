-------------------------------- MODULE Reorg --------------------------------
(***************************************************************************)
(* The indexer's loop over a chain that may replace its last ledgers:        *)
(* indexer/src/reorg.js and the part of run() in index.js around it.  A       *)
(* ledger's hash is the number of forks there had been when it was closed.    *)
(*                                                                          *)
(* db.getIndexedLedgers, rollbackToLedger and recordLedger are called and     *)
(* missing from db.js: they are taken to do what reorg.js and index.js say,   *)
(* to keep the hashes of the last ledgers recorded and to delete what was     *)
(* stored from a ledger on.                                                  *)
(***************************************************************************)
EXTENDS Integers, FiniteSets

CONSTANTS
  MaxHeight,      \* bound on the chain
  MaxForks,       \* bound on the reorganisations
  ReorgWindow,    \* REORG_WINDOW
  MaxLoopFaults   \* bound on failing requests and queries

ASSUME ReorgAssumption ==
  /\ MaxHeight \in Nat \ {0} /\ MaxForks \in Nat /\ MaxLoopFaults \in Nat
  /\ ReorgWindow \in Nat \ {0}

Ledgers == 1 .. MaxHeight
Hashes == 0 .. MaxForks
NoHash == -1

VARIABLES
  height, hash, forks,   \* the chain
  eventRows,             \* rows of events: ledger and hash of the ledger they are of
  recorded,              \* hashes of the last ledgers recorded
  nextLedger,            \* the loop's cursor
  loop,                  \* step, canonical hashes and batch of events it has fetched
  calm,                  \* no fork and no failure since this pass began
  raced,                 \* ledgers whose hash was fetched after a fork of their events
  loopFaults

reorgVars == <<height, hash, forks, eventRows, recorded, nextLedger, loop, calm, raced, loopFaults>>

Loop == [pc : {"sleep", "compare", "rollback", "fetch", "store", "record"},
         canonical : [Ledgers -> Hashes \cup {NoHash}], fork : 0 .. MaxHeight,
         batch : SUBSET (Ledgers \X Hashes), latest : 0 .. MaxHeight]

NoHashes == [l \in Ledgers |-> NoHash]
Sleeping == [pc |-> "sleep", canonical |-> NoHashes, fork |-> 0, batch |-> {}, latest |-> 0]

ReorgTypeOK ==
  /\ height \in Ledgers /\ hash \in [Ledgers -> Hashes] /\ forks \in Hashes
  /\ eventRows \subseteq Ledgers \X Hashes
  /\ recorded \in [Ledgers -> Hashes \cup {NoHash}]
  /\ nextLedger \in 1 .. MaxHeight + 1
  /\ loop \in Loop
  /\ calm \in BOOLEAN /\ raced \subseteq Ledgers
  /\ loopFaults \in 0 .. MaxLoopFaults

ReorgInit ==
  /\ height = 1 /\ hash = [l \in Ledgers |-> 0] /\ forks = 0
  /\ eventRows = {} /\ recorded = NoHashes
  /\ nextLedger = 1 /\ loop = Sleeping
  /\ calm = FALSE /\ raced = {} /\ loopFaults = 0

------------------------------------------------------------------------------
(* The chain: external.                                                     *)

Grow ==
  /\ height < MaxHeight
  /\ height' = height + 1
  /\ hash' = [hash EXCEPT ![height + 1] = forks]
  /\ UNCHANGED <<forks, eventRows, recorded, nextLedger, loop, calm, raced, loopFaults>>

\* The ledgers from f on are replaced.
Fork(f) ==
  /\ f <= height /\ forks < MaxForks
  /\ forks' = forks + 1
  /\ hash' = [l \in Ledgers |-> IF f <= l THEN forks + 1 ELSE hash[l]]
  /\ calm' = FALSE
  /\ UNCHANGED <<height, eventRows, recorded, nextLedger, loop, raced, loopFaults>>

------------------------------------------------------------------------------
(* One pass of the loop.                                                    *)

Recorded == {l \in Ledgers : recorded[l] # NoHash}

\* detectReorg: the stored window and, for its range, the hashes of the RPC node.
FetchHashes ==
  /\ loop.pc = "sleep"
  /\ loop' = [Sleeping EXCEPT !.pc = "compare",
                !.canonical = [l \in Ledgers |-> IF l \in Recorded THEN hash[l] ELSE NoHash]]
  /\ calm' = TRUE
  /\ UNCHANGED <<height, hash, forks, eventRows, recorded, nextLedger, raced, loopFaults>>

Mismatches == {l \in Recorded : loop.canonical[l] # recorded[l]}

\* Mutant: the newest ledger that differs.
detectReorgNewest ==
  IF Mismatches = {} THEN 0 ELSE CHOOSE l \in Mismatches : \A k \in Mismatches : k <= l

detectReorg ==
  IF Mismatches = {} THEN 0 ELSE CHOOSE l \in Mismatches : \A k \in Mismatches : l <= k

Compare ==
  /\ loop.pc = "compare"
  /\ loop' = [loop EXCEPT !.pc = IF detectReorg = 0 THEN "fetch" ELSE "rollback",
                          !.fork = detectReorg]
  /\ UNCHANGED <<height, hash, forks, eventRows, recorded, nextLedger, calm, raced, loopFaults>>

RollbackToLedger ==
  /\ loop.pc = "rollback"
  /\ eventRows' = {r \in eventRows : r[1] < loop.fork}
  /\ recorded' = [l \in Ledgers |-> IF l < loop.fork THEN recorded[l] ELSE NoHash]
  /\ raced' = {l \in raced : l < loop.fork}
  /\ nextLedger' = loop.fork
  /\ loop' = [loop EXCEPT !.pc = "fetch"]
  /\ UNCHANGED <<height, hash, forks, calm, loopFaults>>

\* indexLedger: the latest ledger and the events from the cursor to it; when the chain
\* has grown in between it throws, so that both are of one moment.
FetchEvents ==
  /\ loop.pc = "fetch"
  /\ loop' = [loop EXCEPT !.pc = "store", !.latest = height,
                          !.batch = {<<l, hash[l]>> : l \in nextLedger .. height}]
  /\ UNCHANGED <<height, hash, forks, eventRows, recorded, nextLedger, calm, raced, loopFaults>>

\* The events of the first ledger of the batch.
StoreLedger ==
  /\ loop.pc = "store" /\ loop.batch # {}
  /\ LET r == CHOOSE b \in loop.batch : \A c \in loop.batch : b[1] <= c[1]
     IN /\ eventRows' = eventRows \cup {r}
        /\ loop' = [loop EXCEPT !.batch = @ \ {r}]
  /\ UNCHANGED <<height, hash, forks, recorded, nextLedger, calm, raced, loopFaults>>

\* The hash of the latest ledger, fetched after its events; the answer may lack it.
FetchLatestHash ==
  /\ loop.pc = "store" /\ loop.batch = {}
  /\ \/ /\ loop' = [loop EXCEPT !.pc = "record",
                                !.canonical = [NoHashes EXCEPT ![loop.latest] = hash[loop.latest]]]
        /\ UNCHANGED loopFaults
     \/ /\ loopFaults < MaxLoopFaults /\ loopFaults' = loopFaults + 1
        /\ loop' = [loop EXCEPT !.pc = "record", !.canonical = NoHashes]
  /\ UNCHANGED <<height, hash, forks, eventRows, recorded, nextLedger, calm, raced>>

\* recordLedger, when there is a hash: the last ReorgWindow ledgers are kept.  The cursor
\* moves on all the same.
RecordLedger ==
  /\ loop.pc = "record"
  /\ LET new == loop.canonical[loop.latest]
         all == Recorded \cup {loop.latest}
         kept == {l \in all : Cardinality({k \in all : k > l}) < ReorgWindow}
     IN IF new = NoHash
        THEN UNCHANGED <<recorded, raced>>
        ELSE /\ recorded' = [l \in Ledgers |-> IF l = loop.latest THEN new
                                               ELSE IF l \in kept THEN recorded[l] ELSE NoHash]
             /\ raced' = IF <<loop.latest, new>> \in eventRows
                         THEN raced \ {loop.latest} ELSE raced \cup {loop.latest}
  /\ nextLedger' = loop.latest + 1
  /\ loop' = Sleeping
  /\ UNCHANGED <<height, hash, forks, eventRows, calm, loopFaults>>

\* An await throws: the next pass begins with the cursor as it is.
LoopThrows ==
  /\ loop.pc # "sleep" /\ loopFaults < MaxLoopFaults
  /\ loopFaults' = loopFaults + 1
  /\ loop' = Sleeping /\ calm' = FALSE
  /\ UNCHANGED <<height, hash, forks, eventRows, recorded, nextLedger, raced>>

ReorgNext ==
  \/ Grow \/ \E f \in Ledgers : Fork(f)
  \/ FetchHashes \/ Compare \/ RollbackToLedger \/ FetchEvents \/ StoreLedger
  \/ FetchLatestHash \/ RecordLedger \/ LoopThrows

ReorgSpec == ReorgInit /\ [][ReorgNext]_reorgVars

------------------------------------------------------------------------------
(* Properties.                                                              *)

\* After a pass during which nothing failed and no fork happened, each ledger of the window
\* has the events of the chain's ledger, whatever forks, failures and rollbacks there were
\* in earlier passes; unless its hash had been fetched after a fork that its events were
\* fetched before.  It may have others beside them: a pass that fails after it has stored a
\* ledger and before it has recorded one leaves rows that no later comparison finds.  And
\* nothing like it holds for the ledgers between two recorded ones: a fork is noticed from
\* the first recorded ledger at or above it only, and the events of replaced ledgers stay.
WindowIsCurrent ==
  (loop.pc = "sleep" /\ calm) =>
    \A l \in Recorded \ raced : <<l, hash[l]>> \in eventRows
==============================================================================
