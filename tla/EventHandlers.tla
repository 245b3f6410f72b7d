---------------------------- MODULE EventHandlers ----------------------------
(***************************************************************************)
(* The router of decoded events and its handlers (router/registry.js,        *)
(* handlers/): bets, claims, fees and reward points, each with its own       *)
(* queries, and every other event stored as it is.  Whoever hands events to  *)
(* the router is outside src/ at this commit (only tests call                *)
(* dispatchContractEvent): two callers hand over the same events in order,   *)
(* as two indexers on one database would, and start again from the first     *)
(* after a failure.  Queries interleave, and any of them may fail.           *)
(*                                                                          *)
(* One user and one market; every amount is 1.                              *)
(***************************************************************************)
EXTENDS Integers, Sequences, FiniteSets

CONSTANTS
  Logs,         \* the sequences of events that may be handed over
  Handlers,     \* the (domain, action) keys of the registry
  MaxFaults     \* bound on the failing queries and dying callers

Processes == {"first", "second"}
Actions == {"bet", "claim", "fee_withdrawn", "reward_points", "update", "transfer"}
\* ok: the topics hold a user and the data parses; yes: the side of a bet.
Event == [domain : {"market", "explorer", "token"}, action : Actions, ok : BOOLEAN, yes : BOOLEAN]

ASSUME HandlersAssumption ==
  /\ Logs \subseteq Seq(Event)
  /\ MaxFaults \in Nat

Idle == [pc |-> "down", at |-> 0, step |-> 0, copy |-> 0]
Tables == [stored : Nat, claims : Nat, fees : Nat, rewards : Nat]

VARIABLES
  log,         \* the events
  proc,        \* the callers: event and query they are at, balance read
  bets,        \* committed rows of bets, by the event's place (tx_hash, event_index)
  totals,      \* the market's committed totals
  rows,        \* numbers of rows of the other tables
  balance,     \* the user's row of user_balances
  faults       \* failures so far

handlerVars == <<log, proc, bets, totals, rows, balance, faults>>

HandlersTypeOK ==
  /\ log \in Logs
  /\ bets \subseteq 1 .. Len(log)
  /\ totals \in [yes : Nat, no : Nat, count : Nat]
  /\ rows \in Tables /\ balance \in Nat /\ faults \in 0 .. MaxFaults
  /\ proc \in [Processes -> [pc : {"down", "run"}, at : 0 .. Len(log) + 1, step : 0 .. 3,
                             copy : Nat]]

HandlersInit ==
  /\ log \in Logs
  /\ proc = [p \in Processes |-> Idle]
  /\ bets = {} /\ totals = [yes |-> 0, no |-> 0, count |-> 0]
  /\ rows = [stored |-> 0, claims |-> 0, fees |-> 0, rewards |-> 0] /\ balance = 0
  /\ faults = 0

------------------------------------------------------------------------------
(* Routing.                                                                 *)

isExplorerUpdateEvent(ev) == ev.domain = "explorer" /\ ev.action = "update"

Registered(ev) ==
  {<<ev.domain, ev.action>>, <<ev.domain, "*">>, <<"*", ev.action>>} \cap Handlers # {}

\* The queries an event takes: the explorer's update only evicts a cache entry, an
\* event without a handler is decoded and stored, and a handler that finds no user or
\* cannot parse the amount returns at once.
dispatchContractEvent(ev) ==
  CASE isExplorerUpdateEvent(ev) -> <<>>
    [] ~isExplorerUpdateEvent(ev) /\ ~Registered(ev) -> <<"persist">>
    [] ~isExplorerUpdateEvent(ev) /\ Registered(ev) /\ ~ev.ok -> <<>>
    [] OTHER ->
         CASE ev.action = "bet" -> <<"insertBet", "updateTotals", "commit">>
           [] ev.action = "claim" -> <<"insertClaim", "getUserBalance", "credit">>
           [] ev.action = "fee_withdrawn" -> <<"insertFee", "getUserBalance", "debit">>
           [] ev.action = "reward_points" -> <<"insertReward", "getTotalRewardPoints">>
           [] OTHER -> <<"persist">>

Queries(p) == dispatchContractEvent(log[proc[p].at])

At(p, query) ==
  /\ proc[p].pc = "run" /\ proc[p].at <= Len(log)
  /\ proc[p].step + 1 <= Len(Queries(p))
  /\ Queries(p)[proc[p].step + 1] = query

\* One more query is done; after the last one the handler has returned.
QueryDone(p, copy) ==
  IF proc[p].step + 1 < Len(Queries(p))
  THEN proc' = [proc EXCEPT ![p].step = @ + 1, ![p].copy = copy]
  ELSE proc' = [proc EXCEPT ![p].at = @ + 1, ![p].step = 0, ![p].copy = 0]

\* Nothing to do for this event.
Skip(p) ==
  /\ proc[p].pc = "run" /\ proc[p].at <= Len(log) /\ Queries(p) = <<>>
  /\ proc' = [proc EXCEPT ![p].at = @ + 1]
  /\ UNCHANGED <<log, bets, totals, rows, balance, faults>>

persistDecodedEvent(p) ==
  /\ At(p, "persist")
  /\ rows' = [rows EXCEPT !.stored = @ + 1]
  /\ QueryDone(p, 0)
  /\ UNCHANGED <<log, bets, totals, balance, faults>>

------------------------------------------------------------------------------
(* handleBetPlaced: one transaction.                                        *)

\* Processes whose open transaction inserted the bet or updated the market's row.
Inserting(i) == {p \in Processes : proc[p].pc = "run" /\ proc[p].at = i
                                   /\ (At(p, "updateTotals") \/ At(p, "commit"))}
LockingMarket == {p \in Processes : At(p, "commit")}

\* Mutant: the number of inserted rows is not looked at.
InsertBetUnchecked(p) ==
  /\ At(p, "insertBet") /\ Inserting(proc[p].at) = {}
  /\ QueryDone(p, 0)
  /\ UNCHANGED <<log, bets, totals, rows, balance, faults>>

\* ON CONFLICT waits for another transaction that inserts the same key; a row that is
\* there ends the transaction.
InsertBet(p) ==
  /\ At(p, "insertBet") /\ Inserting(proc[p].at) = {}
  /\ IF proc[p].at \in bets
     THEN proc' = [proc EXCEPT ![p].at = @ + 1, ![p].step = 0]
     ELSE QueryDone(p, 0)
  /\ UNCHANGED <<log, bets, totals, rows, balance, faults>>

UpdateTotals(p) ==
  /\ At(p, "updateTotals") /\ LockingMarket = {}
  /\ QueryDone(p, 0)
  /\ UNCHANGED <<log, bets, totals, rows, balance, faults>>

Commit(p) ==
  /\ At(p, "commit")
  /\ bets' = bets \cup {proc[p].at}
  /\ totals' = IF log[proc[p].at].yes
               THEN [totals EXCEPT !.yes = @ + 1, !.count = @ + 1]
               ELSE [totals EXCEPT !.no = @ + 1, !.count = @ + 1]
  /\ QueryDone(p, 0)
  /\ UNCHANGED <<log, rows, balance, faults>>

------------------------------------------------------------------------------
(* handleClaim, handleFeeWithdrawn, handleRewardPoints: queries of their own. *)

InsertRow(p, query, table) ==
  /\ At(p, query)
  /\ rows' = [rows EXCEPT ![table] = @ + 1]
  /\ QueryDone(p, 0)
  /\ UNCHANGED <<log, bets, totals, balance, faults>>

InsertClaim(p) == InsertRow(p, "insertClaim", "claims")
InsertFee(p) == InsertRow(p, "insertFee", "fees")
InsertReward(p) == InsertRow(p, "insertReward", "rewards")

\* Read for the log line of handleRewardPoints.
getTotalRewardPoints(p) ==
  /\ At(p, "getTotalRewardPoints")
  /\ QueryDone(p, 0)
  /\ UNCHANGED <<log, bets, totals, rows, balance, faults>>

getUserBalance(p) ==
  /\ At(p, "getUserBalance")
  /\ QueryDone(p, balance)
  /\ UNCHANGED <<log, bets, totals, rows, balance, faults>>

\* The balance read plus the claim, or less the fee and at least 0.
upsertUserBalance(p, query, value) ==
  /\ At(p, query)
  /\ balance' = value
  /\ QueryDone(p, 0)
  /\ UNCHANGED <<log, bets, totals, rows, faults>>

Credit(p) ==
  upsertUserBalance(p, "credit", proc[p].copy + 1)

Debit(p) ==
  upsertUserBalance(p, "debit", IF proc[p].copy < 1 THEN 0 ELSE proc[p].copy - 1)

------------------------------------------------------------------------------
(* The callers.                                                             *)

\* A caller hands over the events from the first on.
Start(p) ==
  /\ proc[p].pc = "down"
  /\ proc' = [proc EXCEPT ![p] = [Idle EXCEPT !.pc = "run", !.at = 1]]
  /\ UNCHANGED <<log, bets, totals, rows, balance, faults>>

\* A query fails and the handler throws the error on, or the caller dies: an open
\* transaction is rolled back, and the caller has to start again.
Interrupted(p) ==
  /\ proc[p].pc = "run"
  /\ faults < MaxFaults /\ faults' = faults + 1
  /\ proc' = [proc EXCEPT ![p] = Idle]
  /\ UNCHANGED <<log, bets, totals, rows, balance>>

HandlersNext ==
  \E p \in Processes :
    \/ Start(p) \/ Interrupted(p)
    \/ Skip(p) \/ persistDecodedEvent(p)
    \/ InsertBet(p) \/ UpdateTotals(p) \/ Commit(p)
    \/ InsertClaim(p) \/ InsertFee(p) \/ InsertReward(p)
    \/ getUserBalance(p) \/ Credit(p) \/ Debit(p)
    \/ getTotalRewardPoints(p)

HandlersSpec == HandlersInit /\ [][HandlersNext]_handlerVars

------------------------------------------------------------------------------
(* Properties.                                                              *)

\* However often and by however many callers an event is handled: the market's totals are
\* those of its bets, each of which is there once.
TotalsAreTheBets ==
  /\ totals.yes = Cardinality({i \in bets : log[i].yes})
  /\ totals.no = Cardinality({i \in bets : ~log[i].yes})
  /\ totals.count = Cardinality(bets)

\* A balance is never more than the claims on record: the record is written first, so a
\* failure in between loses a credit and never makes one up, and balances that callers
\* read and write back over each other only lose.
BalanceIsBacked == balance <= rows.claims

BooksAgree == TotalsAreTheBets /\ BalanceIsBacked

\* What handlers/README.md promises of a claim, "Records payout claims and updates user
\* balances": once every caller has handed over every event, and no fee is withdrawn, the
\* balance is the claims on record.  It is not, after a failure between the two queries of
\* handleClaim, nor after two callers that read the same balance.
ClaimsAreCredited ==
  (\A p \in Processes : proc[p].at > Len(log)) /\ rows.fees = 0 => balance = rows.claims
==============================================================================
