------------------------------ MODULE BetFlow ------------------------------
(***************************************************************************)
(* frontend/src/bets: one browser session that places bets.  placeBet      *)
(* signs a transaction, shows the bet at once, sends it and polls for its  *)
(* fate; the indexer's event stream may confirm it first.  Both write the  *)
(* list of bets; React renders the list later, and only what was rendered  *)
(* is seen by the stream's callback and by the bet slip.                   *)
(* The betting contract and the network are external: a transaction they   *)
(* take succeeds, fails or expires (after 180 s, the wait ends after 45).  *)
(***************************************************************************)
EXTENDS Integers

CONSTANTS
    MaxBets,            \* bound on the bets of a session
    SEND_RETRIES,
    None

Bets == 1 .. MaxBets

\* An element of pendingBets: what of it the flow looks at.
Row == [phase : {"pending", "confirmed"}, txHash : BOOLEAN]

\* The toasts: "rejected", "congested" and "unreachable" are the errors of
\* sendBetTransaction, "failed" and "timeout" those of waitForConfirmation.
Notice == {"confirmed", "rejected", "congested", "unreachable", "failed", "timeout"}

ASSUME BetFlowAssumption ==
    MaxBets \in Nat /\ SEND_RETRIES \in Nat /\ None \notin Nat /\ None \notin Row

VARIABLES
    address,        \* whether a wallet is connected
    pc,             \* the await placeBet is at; "idle": inFlightRef is false
    bet,            \* the bet placeBet is about, None before it is signed
    attempt,        \* of sendBetTransaction
    pendingBets,    \* by bet; None when not in the list
    betsRef,        \* the list as last rendered
    settledRef,
    notices,        \* the toasts shown for each bet
    tx,             \* the transaction of each bet
    streamed        \* transactions whose event the stream has published

session == <<address, pc, bet, attempt>>
ui == <<pendingBets, betsRef, settledRef, notices>>
vars == <<session, ui, tx, streamed>>

TypeOK ==
    /\ address \in BOOLEAN
    /\ pc \in {"idle", "sign", "send", "wait"}
    /\ bet \in Bets \cup {None}
    /\ pc \in {"send", "wait"} => bet \in Bets
    /\ attempt \in 0 .. SEND_RETRIES
    /\ pendingBets \in [Bets -> Row \cup {None}]
    /\ betsRef \in [Bets -> Row \cup {None}]
    /\ settledRef \subseteq Bets
    /\ notices \in [Bets -> SUBSET Notice]
    /\ tx \in [Bets -> {"unsigned", "signed", "taken", "success", "failed", "expired"}]
    /\ streamed \subseteq Bets

Init ==
    /\ address = FALSE
    /\ pc = "idle" /\ bet = None /\ attempt = 0
    /\ pendingBets = [b \in Bets |-> None]
    /\ betsRef = [b \in Bets |-> None]
    /\ settledRef = {}
    /\ notices = [b \in Bets |-> {}]
    /\ tx = [b \in Bets |-> "unsigned"]
    /\ streamed = {}

----------------------------------------------------------------------------
(* BetsContext.tsx: the shared helpers.                                    *)

Listed(list, b) == list[b] # None
Pending(list, b) == Listed(list, b) /\ list[b].phase = "pending"

Toast(b, n) == notices' = [notices EXCEPT ![b] = @ \cup {n}]

\* Whoever settles a bet first decides; the toast needs the rendered row.
confirmBet(b) ==
    IF b \in settledRef
    THEN UNCHANGED <<pendingBets, settledRef, notices>>
    ELSE /\ settledRef' = settledRef \cup {b}
         /\ pendingBets' = [pendingBets EXCEPT ![b] =
                IF @ = None THEN @ ELSE [@ EXCEPT !.phase = "confirmed"]]
         /\ IF Listed(betsRef, b) THEN Toast(b, "confirmed") ELSE UNCHANGED notices

\* A rollback that does not ask whether the bet was settled.
RollbackAnyway(b, message) ==
    /\ settledRef' = settledRef \cup {b}
    /\ pendingBets' = [pendingBets EXCEPT ![b] = None]
    /\ Toast(b, message)

\* The error is shown even when the stream has confirmed the bet.
rollbackBet(b, message) ==
    /\ IF b \in settledRef
       THEN UNCHANGED <<pendingBets, settledRef>>
       ELSE /\ settledRef' = settledRef \cup {b}
            /\ pendingBets' = [pendingBets EXCEPT ![b] = None]
    /\ Toast(b, message)

\* placeBet returns.
Done == pc' = "idle" /\ bet' = None /\ attempt' = 0 /\ UNCHANGED address

----------------------------------------------------------------------------
(* The bet slip and placeBet.                                              *)

\* The slip connects first; the bet needs another click.
Connect ==
    /\ ~address
    /\ address' = TRUE
    /\ UNCHANGED <<pc, bet, attempt, ui, tx, streamed>>

\* The slip is not busy, as rendered, and no placeBet is running.
PlaceBet ==
    /\ address
    /\ pc = "idle"
    /\ \A b \in Bets : ~Pending(betsRef, b)
    /\ pc' = "sign"
    /\ UNCHANGED <<address, bet, attempt, ui, tx, streamed>>

\* Configuration, account, simulation or the wallet says no: a toast only.
SignFails ==
    /\ pc = "sign"
    /\ Done
    /\ UNCHANGED <<ui, tx, streamed>>

Signed(b) ==
    /\ pc = "sign"
    /\ tx[b] = "unsigned" /\ \A c \in Bets : c < b => tx[c] # "unsigned"
    /\ bet' = b
    /\ pendingBets' = [pendingBets EXCEPT ![b] = [phase |-> "pending", txHash |-> FALSE]]
    /\ tx' = [tx EXCEPT ![b] = "signed"]
    /\ pc' = "send"
    /\ UNCHANGED <<address, attempt, betsRef, settledRef, notices, streamed>>

\* PENDING or DUPLICATE: the transaction is taken, its hash goes into the row.
SendAccepted ==
    /\ pc = "send"
    /\ tx' = [tx EXCEPT ![bet] = "taken"]
    /\ pendingBets' = [pendingBets EXCEPT ![bet] =
            IF @ = None THEN @ ELSE [@ EXCEPT !.txHash = TRUE]]
    /\ pc' = "wait"
    /\ UNCHANGED <<address, bet, attempt, betsRef, settledRef, notices, streamed>>

\* ERROR
SendRejected ==
    /\ pc = "send"
    /\ rollbackBet(bet, "rejected")
    /\ Done
    /\ UNCHANGED <<betsRef, tx, streamed>>

\* TRY_AGAIN_LATER: the transaction was not taken.
SendTryAgain ==
    /\ pc = "send"
    /\ IF attempt < SEND_RETRIES
       THEN attempt' = attempt + 1 /\ UNCHANGED <<address, pc, bet, ui>>
       ELSE rollbackBet(bet, "congested") /\ Done /\ UNCHANGED betsRef
    /\ UNCHANGED <<tx, streamed>>

\* The request fails; the network may have the transaction.
SendThrows ==
    /\ pc = "send"
    /\ tx' \in {tx, [tx EXCEPT ![bet] = "taken"]}
    /\ rollbackBet(bet, "unreachable")
    /\ Done
    /\ UNCHANGED <<betsRef, streamed>>

\* waitForConfirmation, past its first sleep: by then the row and its hash have
\* been rendered.  Errors and NOT_FOUND are polled again.
Waiting == pc = "wait" /\ Listed(betsRef, bet) /\ betsRef[bet].txHash

PollSucceeds ==
    /\ Waiting
    /\ tx[bet] = "success"
    /\ confirmBet(bet)
    /\ Done
    /\ UNCHANGED <<betsRef, tx, streamed>>

PollFails ==
    /\ Waiting
    /\ tx[bet] = "failed"
    /\ rollbackBet(bet, "failed")
    /\ Done
    /\ UNCHANGED <<betsRef, tx, streamed>>

\* A wait that only ends with the transaction's fate.
WaitUnlimited ==
    /\ Waiting
    /\ tx[bet] = "failed"
    /\ rollbackBet(bet, "timeout")
    /\ Done
    /\ UNCHANGED <<betsRef, tx, streamed>>

\* The deadline passes, whatever has become of the transaction.
WaitTimesOut ==
    /\ Waiting
    /\ rollbackBet(bet, "timeout")
    /\ Done
    /\ UNCHANGED <<betsRef, tx, streamed>>

----------------------------------------------------------------------------
(* React and the event stream.                                             *)

\* The effects of a render: betsRef, and the stream, which is open while the
\* rendered list has a pending bet and is replaced whenever the list changes.
Render ==
    /\ betsRef # pendingBets
    /\ betsRef' = pendingBets
    /\ UNCHANGED <<session, pendingBets, settledRef, notices, tx, streamed>>

\* A callback that takes any event for the one it waits for.
StreamAnyEvent(b) ==
    /\ tx[b] = "success" /\ b \notin streamed
    /\ streamed' = streamed \cup {b}
    /\ \/ UNCHANGED <<pendingBets, settledRef, notices>>
       \/ \E c \in Bets : Pending(betsRef, c) /\ confirmBet(c)
    /\ UNCHANGED <<session, betsRef, tx>>

\* The indexer publishes the event of b.  It is lost when nobody listens, on
\* its way to a stream that is being replaced, or when the hash is not known
\* to the rendered list yet.
StreamEvent(b) ==
    /\ tx[b] = "success" /\ b \notin streamed
    /\ streamed' = streamed \cup {b}
    /\ \/ UNCHANGED <<pendingBets, settledRef, notices>>
       \/ Pending(betsRef, b) /\ betsRef[b].txHash /\ confirmBet(b)
    /\ UNCHANGED <<session, betsRef, tx>>

----------------------------------------------------------------------------
(* The network.                                                            *)

Resolve(b) ==
    /\ tx[b] = "taken"
    /\ tx' \in {[tx EXCEPT ![b] = fate] : fate \in {"success", "failed", "expired"}}
    /\ UNCHANGED <<session, ui, streamed>>

Running ==
    \/ SignFails \/ (\E b \in Bets : Signed(b))
    \/ SendAccepted \/ SendRejected \/ SendTryAgain \/ SendThrows
    \/ PollSucceeds \/ PollFails \/ WaitTimesOut

Next ==
    \/ Connect \/ PlaceBet
    \/ Running
    \/ Render
    \/ \E b \in Bets : StreamEvent(b) \/ Resolve(b)

\* Requests settle, the wallet answers, the deadline passes and React renders.
\* The network and the stream owe nothing.
Spec == Init /\ [][Next]_vars /\ WF_vars(Running) /\ WF_vars(Render)

----------------------------------------------------------------------------
(* Properties.                                                             *)

RolledBack(b) == b \in settledRef /\ ~Listed(pendingBets, b)
Confirmed(b) == Listed(pendingBets, b) /\ pendingBets[b].phase = "confirmed"

\* What the user is told is so, and stays so: a bet shown as confirmed has
\* succeeded on chain, one that "failed" has failed there, and one that was
\* rejected or met congestion was never taken, so that betting again cannot
\* stake twice.  Only a timeout or a broken connection leaves this open.
MessagesAreTrue ==
    \A b \in Bets :
        /\ Confirmed(b) \/ "confirmed" \in notices[b] => tx[b] = "success"
        /\ "failed" \in notices[b] => tx[b] = "failed"
        /\ notices[b] \cap {"rejected", "congested"} # {} => tx[b] = "signed"

\* The stream and the poll race to settle a bet, and the first decides for
\* good: a confirmed bet never leaves the list, and one that was rolled back
\* never returns, not even when its transaction lands after all.
SettledForGood ==
    [][\A b \in Bets : /\ Confirmed(b) => Confirmed(b)'
                       /\ RolledBack(b) => RolledBack(b)']_vars

\* No bet is shown as pending for ever, whatever the network and the stream
\* do, and so the slip is free again.
PendingIsResolved ==
    \A b \in Bets : Pending(pendingBets, b) ~> Confirmed(b) \/ RolledBack(b)

============================================================================
