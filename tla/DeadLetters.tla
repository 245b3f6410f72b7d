----------------------------- MODULE DeadLetters -----------------------------
(***************************************************************************)
(* The dead-letter queue: events that could not be processed are kept in    *)
(* dlq_events (indexer.js, db.js) and a worker dispatches them again every   *)
(* five minutes (dlq-worker.js), with a batch that may start while the one   *)
(* before is still waiting for its queries.                                  *)
(*                                                                          *)
(* The table has the columns the worker's queries name; db.insertDeadLetter, *)
(* which fills it, is not part of the repository.                            *)
(***************************************************************************)
EXTENDS Integers, Sequences, FiniteSets, SequencesExt

CONSTANTS
  Letters,     \* ids of rows, in the order of insertion
  Batches,     \* batches that may be under way together
  MaxRetries,  \* retry limit
  MaxLetterFaults  \* bound on failing updates and crashes

ASSUME LettersAssumption ==
  /\ Letters \subseteq Nat /\ MaxRetries \in Nat \ {0} /\ MaxLetterFaults \in Nat

Columns == {"ledger_sequence", "tx_hash", "topic", "payload", "error_message"}

VARIABLES
  dlq,      \* the rows: where the letter is, resolved, retry_count, next_retry_at <= NOW()
  stored,   \* number of rows of events the letter's payload has been written to
  batch,    \* the batches: rows selected and not yet done, and the step of the first
  letterFaults

letterVars == <<dlq, stored, batch, letterFaults>>

NoRow == [at |-> "none", resolved |-> FALSE, retry |-> 0, due |-> FALSE]
IdleBatch == [pc |-> "idle", todo |-> <<>>]
Selected == [id : Letters, retry : 0 .. MaxRetries - 1]

LettersTypeOK ==
  /\ dlq \in [Letters -> [at : {"none", "table", "log"}, resolved : BOOLEAN,
                          retry : 0 .. MaxRetries + 1, due : BOOLEAN]]
  /\ stored \in [Letters -> 0 .. 2]
  /\ \A b \in Batches : /\ batch[b].pc \in {"idle", "dispatch", "mark", "bump", "exhaust"}
                        /\ \A i \in 1 .. Len(batch[b].todo) : batch[b].todo[i] \in Selected
  /\ letterFaults \in 0 .. MaxLetterFaults

LettersInit ==
  /\ dlq = [l \in Letters |-> NoRow]
  /\ stored = [l \in Letters |-> 0]
  /\ batch = [b \in Batches |-> IdleBatch]
  /\ letterFaults = 0

------------------------------------------------------------------------------
(* Filling the queue.                                                       *)

NewRow == [NoRow EXCEPT !.at = "table", !.due = TRUE]

\* sendToDeadLetter.
insertDeadLetter(l) ==
  /\ dlq[l].at = "none"
  /\ dlq' = [dlq EXCEPT ![l] = NewRow]
  /\ UNCHANGED <<stored, batch, letterFaults>>

\* insertDlqEvent reads the names of Columns; every one is NOT NULL.
insertDlqEvent(given) == Columns \subseteq given

\* persistDlqEvent passes ledgerSequence, txHash and errorMessage.
persistDlqEvent == insertDlqEvent({"topic", "payload"})

\* handleUnparseableEvent logs what it cannot store.
handleUnparseableEvent(l) ==
  /\ dlq[l].at = "none"
  /\ dlq' = [dlq EXCEPT ![l] = IF persistDlqEvent THEN NewRow ELSE [NoRow EXCEPT !.at = "log"]]
  /\ UNCHANGED <<stored, batch, letterFaults>>

\* An operator records a retry by hand (up to the bound of the model).
retryDlqEvent(l) ==
  /\ dlq[l].at = "table" /\ dlq[l].retry <= MaxRetries
  /\ dlq' = [dlq EXCEPT ![l].retry = @ + 1]
  /\ UNCHANGED <<stored, batch, letterFaults>>

------------------------------------------------------------------------------
(* retryDlqBatch.                                                           *)

Due == {l \in Letters : dlq[l].at = "table" /\ ~dlq[l].resolved
                        /\ dlq[l].retry < MaxRetries /\ dlq[l].due}

\* The interval fires; the rows and their retry_count are read once, for the batch.
Select(b) ==
  /\ batch[b].pc = "idle" /\ Due # {}
  /\ batch' = [batch EXCEPT ![b] =
       [pc |-> "dispatch",
        todo |-> LET ids == SetToSortSeq(Due, <)
                 IN [i \in 1 .. Len(ids) |-> [id |-> ids[i], retry |-> dlq[ids[i]].retry]]]]
  /\ UNCHANGED <<dlq, stored, letterFaults>>

This(b) == Head(batch[b].todo)

Goto(b, pc) == batch' = [batch EXCEPT ![b].pc = pc]

RowDone(b) ==
  batch' = [batch EXCEPT ![b] =
              IF Len(@.todo) = 1 THEN IdleBatch
              ELSE [pc |-> "dispatch", todo |-> Tail(@.todo)]]

\* The dispatch is db.upsertEvent: it stores the payload, or throws.
Dispatch(b) ==
  /\ batch[b].pc = "dispatch"
  /\ stored' = [stored EXCEPT ![This(b).id] = IF @ < 2 THEN @ + 1 ELSE @]
  /\ Goto(b, "mark")
  /\ UNCHANGED <<dlq, letterFaults>>

DispatchThrows(b, isPermanentError) ==
  /\ batch[b].pc = "dispatch"
  /\ Goto(b, IF isPermanentError THEN "exhaust" ELSE "bump")
  /\ UNCHANGED <<dlq, stored, letterFaults>>

MarkResolved(b) ==
  /\ batch[b].pc = "mark"
  /\ dlq' = [dlq EXCEPT ![This(b).id].resolved = TRUE]
  /\ RowDone(b)
  /\ UNCHANGED <<stored, letterFaults>>

\* The update fails after the dispatch succeeded: the row counts as failed.
MarkFails(b) ==
  /\ batch[b].pc = "mark" /\ letterFaults < MaxLetterFaults
  /\ letterFaults' = letterFaults + 1
  /\ Goto(b, "bump")
  /\ UNCHANGED <<dlq, stored>>

\* Mutant: the row is put off without counting the attempt.
BumpNothing(b) ==
  /\ batch[b].pc \in {"bump", "exhaust"}
  /\ dlq' = [dlq EXCEPT ![This(b).id].due = FALSE]
  /\ RowDone(b)
  /\ UNCHANGED <<stored, letterFaults>>

\* retry_count is the count of the batch's own reading plus one, or the limit.
Bump(b) ==
  /\ batch[b].pc \in {"bump", "exhaust"}
  /\ dlq' = [dlq EXCEPT ![This(b).id].due = FALSE,
                        ![This(b).id].retry =
                           IF batch[b].pc = "exhaust" THEN MaxRetries ELSE This(b).retry + 1]
  /\ RowDone(b)
  /\ UNCHANGED <<stored, letterFaults>>

\* The update in the catch block fails: the batch rejects and its other rows wait for
\* the next one.
BumpFails(b) ==
  /\ batch[b].pc \in {"bump", "exhaust"} /\ letterFaults < MaxLetterFaults
  /\ letterFaults' = letterFaults + 1
  /\ batch' = [batch EXCEPT ![b] = IdleBatch]
  /\ UNCHANGED <<dlq, stored>>

\* next_retry_at has come.
BackoffEnds(l) ==
  /\ dlq[l].at = "table" /\ ~dlq[l].due
  /\ dlq' = [dlq EXCEPT ![l].due = TRUE]
  /\ UNCHANGED <<stored, batch, letterFaults>>

Restart ==
  /\ \E b \in Batches : batch[b].pc # "idle"
  /\ letterFaults < MaxLetterFaults /\ letterFaults' = letterFaults + 1
  /\ batch' = [b \in Batches |-> IdleBatch]
  /\ UNCHANGED <<dlq, stored>>

BatchStep(b) ==
  \/ Dispatch(b) \/ MarkResolved(b) \/ MarkFails(b) \/ Bump(b) \/ BumpFails(b)
  \/ \E isPermanentError \in BOOLEAN : DispatchThrows(b, isPermanentError)

LettersNext ==
  \/ Restart
  \/ \E l \in Letters : \/ insertDeadLetter(l) \/ handleUnparseableEvent(l)
                        \/ retryDlqEvent(l) \/ BackoffEnds(l)
  \/ \E b \in Batches : Select(b) \/ BatchStep(b)

------------------------------------------------------------------------------
(* Properties.                                                              *)

\* Every dead letter comes to rest: its payload is stored and it is resolved, or its
\* retries are used up; although overlapping batches write counts that are out of date
\* over newer ones, and so take a letter that was given up back into the queue.
DeadLettersEnd ==
  \A l \in Letters :
    <>[](dlq[l].at = "table" => \/ dlq[l].resolved /\ stored[l] > 0
                                \/ dlq[l].retry >= MaxRetries)
==============================================================================
