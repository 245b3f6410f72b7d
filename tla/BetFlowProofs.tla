--------------------------- MODULE BetFlowProofs ---------------------------
(***************************************************************************)
(* The betting flow for any number of bets and retries.                    *)
(***************************************************************************)
EXTENDS BetFlow, TLAPS

(***************************************************************************)
(* The inductive invariant.  A message stays true because a bet is new     *)
(* when it is signed and while it is being sent: nothing was said about it *)
(* yet.  That a confirmed bet is settled is what keeps the loser of the    *)
(* race between stream and poll away from its row.                         *)
(***************************************************************************)
UnsignedIsFresh ==
    \A b \in Bets : tx[b] = "unsigned" =>
        notices[b] = {} /\ b \notin settledRef /\ pendingBets[b] = None

SendingIsFresh ==
    /\ pc = "send" => tx[bet] = "signed" /\ notices[bet] = {}
    /\ pc = "wait" => tx[bet] # "unsigned"

ConfirmedIsSettled == \A b \in Bets : Confirmed(b) => b \in settledRef

IInv ==
    /\ TypeOK
    /\ MessagesAreTrue
    /\ UnsignedIsFresh
    /\ SendingIsFresh
    /\ ConfirmedIsSettled

\* What a step may do to the rows, seen from the rows that are settled.
Keeps == \A b \in Bets : /\ Confirmed(b) => Confirmed(b)'
                         /\ RolledBack(b) => RolledBack(b)'

USE DEF Listed, Pending

----------------------------------------------------------------------------
(* The two ways to settle a bet.                                           *)

\* confirmBet of a bet whose transaction succeeded.
LEMMA ConfirmFacts ==
    ASSUME IInv, NEW b \in Bets, tx[b] = "success", tx' = tx, confirmBet(b)
    PROVE  /\ pendingBets' \in [Bets -> Row \cup {None}]
           /\ settledRef' \subseteq Bets
           /\ notices' \in [Bets -> SUBSET Notice]
           /\ MessagesAreTrue'
           /\ UnsignedIsFresh'
           /\ ConfirmedIsSettled'
           /\ Keeps
           /\ \A c \in Bets : tx[c] # "success" => notices'[c] = notices[c]
<1>1. CASE b \in settledRef
  BY <1>1 DEF IInv, TypeOK, confirmBet, MessagesAreTrue, UnsignedIsFresh, ConfirmedIsSettled,
              Keeps, Confirmed, RolledBack
<1>2. CASE b \notin settledRef
  <2>1. /\ settledRef' = settledRef \cup {b}
        /\ pendingBets' = [pendingBets EXCEPT ![b] =
                IF @ = None THEN @ ELSE [@ EXCEPT !.phase = "confirmed"]]
        /\ notices' \in {notices, [notices EXCEPT ![b] = @ \cup {"confirmed"}]}
    BY <1>2 DEF confirmBet, Toast
  <2>2. /\ pendingBets \in [Bets -> Row \cup {None}]
        /\ notices \in [Bets -> SUBSET Notice]
        /\ settledRef \subseteq Bets
    BY DEF IInv, TypeOK
  <2>3. pendingBets' \in [Bets -> Row \cup {None}]
    BY <2>1, <2>2 DEF Row
  <2>4. notices' \in [Bets -> SUBSET Notice]
    BY <2>1, <2>2 DEF Notice
  <2>5. /\ \A c \in Bets : c # b => pendingBets'[c] = pendingBets[c] /\ notices'[c] = notices[c]
        /\ notices'[b] \subseteq notices[b] \cup {"confirmed"}
    BY <2>1, <2>2
  <2>6. MessagesAreTrue'
    <3> SUFFICES ASSUME NEW c \in Bets
                 PROVE  /\ Confirmed(c)' \/ "confirmed" \in notices'[c] => tx'[c] = "success"
                        /\ "failed" \in notices'[c] => tx'[c] = "failed"
                        /\ notices'[c] \cap {"rejected", "congested"} # {} => tx'[c] = "signed"
      BY DEF MessagesAreTrue
    <3>1. CASE c = b
      BY <3>1, <2>5 DEF IInv, MessagesAreTrue
    <3>2. CASE c # b
      BY <3>2, <2>5 DEF IInv, MessagesAreTrue, Confirmed
    <3> QED BY <3>1, <3>2
  <2>7. UnsignedIsFresh'
    BY <2>1, <2>5 DEF IInv, UnsignedIsFresh
  <2>8. ConfirmedIsSettled'
    BY <2>1, <2>5 DEF IInv, ConfirmedIsSettled, Confirmed
  <2>9. Keeps
    BY <1>2, <2>1, <2>5 DEF IInv, Keeps, Confirmed, RolledBack, ConfirmedIsSettled
  <2> QED BY <2>1, <2>2, <2>3, <2>4, <2>5, <2>6, <2>7, <2>8, <2>9
<1> QED BY <1>1, <1>2

\* rollbackBet of a signed bet with a message that is true of its transaction.
LEMMA RollbackFacts ==
    ASSUME IInv, NEW b \in Bets, NEW m \in Notice \ {"confirmed"},
           m = "failed" => tx'[b] = "failed",
           m \in {"rejected", "congested"} => tx'[b] = "signed",
           tx' = tx \/ (tx' = [tx EXCEPT ![b] = "taken"] /\ notices[b] = {}
                        /\ tx[b] = "signed"),
           tx[b] # "unsigned",
           rollbackBet(b, m)
    PROVE  /\ pendingBets' \in [Bets -> Row \cup {None}]
           /\ settledRef' \subseteq Bets
           /\ notices' \in [Bets -> SUBSET Notice]
           /\ MessagesAreTrue'
           /\ UnsignedIsFresh'
           /\ ConfirmedIsSettled'
           /\ Keeps
<1>1. /\ pendingBets \in [Bets -> Row \cup {None}]
      /\ notices \in [Bets -> SUBSET Notice]
      /\ settledRef \subseteq Bets
      /\ tx \in [Bets -> {"unsigned", "signed", "taken", "success", "failed", "expired"}]
  BY DEF IInv, TypeOK
<1>2. /\ notices' = [notices EXCEPT ![b] = @ \cup {m}]
      /\ settledRef' = settledRef \cup {b}
      /\ \/ b \in settledRef /\ pendingBets' = pendingBets
         \/ b \notin settledRef /\ pendingBets' = [pendingBets EXCEPT ![b] = None]
  BY DEF rollbackBet, Toast
<1>3. pendingBets' \in [Bets -> Row \cup {None}] /\ notices' \in [Bets -> SUBSET Notice]
  BY <1>1, <1>2
<1>4. /\ \A c \in Bets : c # b =>
            pendingBets'[c] = pendingBets[c] /\ notices'[c] = notices[c] /\ tx'[c] = tx[c]
      /\ notices'[b] = notices[b] \cup {m}
      /\ pendingBets'[b] \in {pendingBets[b], None}
  BY <1>1, <1>2
<1>5. MessagesAreTrue'
  <2> SUFFICES ASSUME NEW c \in Bets
               PROVE  /\ Confirmed(c)' \/ "confirmed" \in notices'[c] => tx'[c] = "success"
                      /\ "failed" \in notices'[c] => tx'[c] = "failed"
                      /\ notices'[c] \cap {"rejected", "congested"} # {} => tx'[c] = "signed"
    BY DEF MessagesAreTrue
  <2>1. CASE c # b
    BY <2>1, <1>4 DEF IInv, MessagesAreTrue, Confirmed
  <2>2. CASE c = b
    <3>1. Confirmed(b)' => Confirmed(b)
      BY <1>4 DEF Confirmed
    <3>2. CASE tx' = tx
      BY <2>2, <3>1, <3>2, <1>4 DEF IInv, MessagesAreTrue
    <3>3. CASE tx' = [tx EXCEPT ![b] = "taken"] /\ notices[b] = {} /\ tx[b] = "signed"
      <4>1. tx'[b] = "taken" /\ notices'[b] = {m}
        BY <3>3, <1>1, <1>4
      <4>2. ~Confirmed(b)
        BY <3>3 DEF IInv, MessagesAreTrue
      <4> QED BY <2>2, <3>1, <4>1, <4>2
    <3> QED BY <3>2, <3>3
  <2> QED BY <2>1, <2>2
<1>6. UnsignedIsFresh'
  <2> SUFFICES ASSUME NEW c \in Bets, tx'[c] = "unsigned"
               PROVE  notices'[c] = {} /\ c \notin settledRef' /\ pendingBets'[c] = None
    BY DEF UnsignedIsFresh
  <2>1. c # b
    BY <1>1
  <2> QED BY <2>1, <1>2, <1>4 DEF IInv, UnsignedIsFresh
<1>7. ConfirmedIsSettled'
  BY <1>2, <1>4 DEF IInv, ConfirmedIsSettled, Confirmed
<1>8. Keeps
  BY <1>1, <1>2, <1>4 DEF IInv, Keeps, Confirmed, RolledBack, ConfirmedIsSettled
<1> QED BY <1>1, <1>2, <1>3, <1>5, <1>6, <1>7, <1>8

----------------------------------------------------------------------------
(* The invariant and what it implies.                                      *)

\* Every step keeps the invariant and the settled rows.
LEMMA StepFacts ==
    ASSUME IInv, [Next]_vars
    PROVE  IInv' /\ Keeps
<1> USE BetFlowAssumption
<1>1. CASE UNCHANGED vars
  BY <1>1 DEF vars, session, ui, IInv, TypeOK, MessagesAreTrue, UnsignedIsFresh, SendingIsFresh,
              ConfirmedIsSettled, Keeps, Confirmed, RolledBack
<1>2. CASE Connect \/ PlaceBet \/ SignFails \/ Render
  <2>1. UNCHANGED <<pendingBets, settledRef, notices, tx, streamed>>
    BY <1>2 DEF Connect, PlaceBet, SignFails, Render, ui
  <2>2. TypeOK'
    <3>1. CASE Connect
      BY <3>1, <2>1 DEF Connect, ui, IInv, TypeOK
    <3>2. CASE PlaceBet
      BY <3>2, <2>1 DEF PlaceBet, ui, IInv, TypeOK
    <3>3. CASE SignFails
      BY <3>3, <2>1 DEF SignFails, Done, ui, IInv, TypeOK
    <3>4. CASE Render
      BY <3>4, <2>1 DEF Render, session, IInv, TypeOK
    <3> QED BY <1>2, <3>1, <3>2, <3>3, <3>4
  <2>3. SendingIsFresh'
    BY <1>2, <2>1 DEF Connect, PlaceBet, SignFails, Render, Done, session, IInv, SendingIsFresh
  <2>4. MessagesAreTrue' /\ UnsignedIsFresh' /\ ConfirmedIsSettled' /\ Keeps
    BY <2>1 DEF IInv, MessagesAreTrue, UnsignedIsFresh, ConfirmedIsSettled, Keeps, Confirmed,
                RolledBack
  <2> QED BY <2>2, <2>3, <2>4 DEF IInv
<1>3. ASSUME NEW b \in Bets, Signed(b)
      PROVE  IInv' /\ Keeps
  <2>1. /\ tx[b] = "unsigned" /\ notices[b] = {} /\ b \notin settledRef /\ pendingBets[b] = None
        /\ pc' = "send" /\ bet' = b
        /\ pendingBets' = [pendingBets EXCEPT ![b] = [phase |-> "pending", txHash |-> FALSE]]
        /\ tx' = [tx EXCEPT ![b] = "signed"]
        /\ UNCHANGED <<address, attempt, betsRef, settledRef, notices, streamed>>
    BY <1>3 DEF Signed, IInv, UnsignedIsFresh
  <2>2. TypeOK'
    BY <2>1 DEF IInv, TypeOK, Row
  <2>3. /\ tx'[b] = "signed" /\ pendingBets'[b].phase = "pending"
        /\ \A c \in Bets : c # b => tx'[c] = tx[c] /\ pendingBets'[c] = pendingBets[c]
    BY <2>1 DEF IInv, TypeOK
  <2>4. MessagesAreTrue' /\ UnsignedIsFresh' /\ SendingIsFresh' /\ ConfirmedIsSettled'
    BY <2>1, <2>3 DEF IInv, MessagesAreTrue, UnsignedIsFresh, SendingIsFresh, ConfirmedIsSettled,
                      Confirmed
  <2>5. Keeps
    BY <2>1, <2>3 DEF IInv, ConfirmedIsSettled, Keeps, Confirmed, RolledBack
  <2> QED BY <2>2, <2>4, <2>5 DEF IInv
<1>4. CASE SendAccepted
  <2>1. /\ pc = "send" /\ bet \in Bets /\ tx[bet] = "signed" /\ notices[bet] = {}
        /\ tx' = [tx EXCEPT ![bet] = "taken"]
        /\ pendingBets' = [pendingBets EXCEPT ![bet] =
                IF @ = None THEN @ ELSE [@ EXCEPT !.txHash = TRUE]]
        /\ pc' = "wait"
        /\ UNCHANGED <<address, bet, attempt, betsRef, settledRef, notices, streamed>>
    BY <1>4 DEF SendAccepted, IInv, SendingIsFresh, TypeOK
  <2>2. TypeOK'
    BY <2>1 DEF IInv, TypeOK, Row
  <2>3. /\ tx'[bet] = "taken"
        /\ \A c \in Bets : c # bet => tx'[c] = tx[c] /\ pendingBets'[c] = pendingBets[c]
        /\ pendingBets[bet] = None => pendingBets'[bet] = None
        /\ pendingBets[bet] # None =>
                pendingBets'[bet] # None /\ pendingBets'[bet].phase = pendingBets[bet].phase
    BY <2>1 DEF IInv, TypeOK, Row
  <2>4. ~Confirmed(bet)
    BY <2>1 DEF IInv, MessagesAreTrue
  <2>5. MessagesAreTrue' /\ UnsignedIsFresh' /\ SendingIsFresh' /\ ConfirmedIsSettled'
    BY <2>1, <2>3, <2>4 DEF IInv, MessagesAreTrue, UnsignedIsFresh, SendingIsFresh,
                            ConfirmedIsSettled, Confirmed
  <2>6. Keeps
    BY <2>1, <2>3 DEF Keeps, Confirmed, RolledBack
  <2> QED BY <2>2, <2>5, <2>6 DEF IInv
<1>5. CASE SendRejected
  <2>1. /\ bet \in Bets /\ tx[bet] = "signed" /\ tx' = tx
        /\ rollbackBet(bet, "rejected") /\ Done /\ UNCHANGED <<betsRef, streamed>>
    BY <1>5 DEF SendRejected, IInv, SendingIsFresh, TypeOK
  <2> QED
    BY <2>1, RollbackFacts DEF Done, IInv, TypeOK, SendingIsFresh, Notice
<1>6. CASE SendTryAgain
  <2>1. /\ bet \in Bets /\ tx[bet] = "signed" /\ tx' = tx /\ UNCHANGED streamed /\ pc = "send"
    BY <1>6 DEF SendTryAgain, IInv, SendingIsFresh, TypeOK
  <2>2. CASE attempt < SEND_RETRIES
    <3>1. attempt' = attempt + 1 /\ UNCHANGED <<address, pc, bet, ui>>
      BY <1>6, <2>2 DEF SendTryAgain
    <3> QED
      BY <2>1, <2>2, <3>1 DEF ui, IInv, TypeOK, MessagesAreTrue, UnsignedIsFresh, SendingIsFresh,
                              ConfirmedIsSettled, Keeps, Confirmed, RolledBack
  <2>3. CASE ~(attempt < SEND_RETRIES)
    <3>1. rollbackBet(bet, "congested") /\ Done /\ UNCHANGED betsRef
      BY <1>6, <2>3 DEF SendTryAgain
    <3> QED
      BY <2>1, <3>1, RollbackFacts DEF Done, IInv, TypeOK, SendingIsFresh, Notice
  <2> QED BY <2>2, <2>3
<1>7. CASE SendThrows
  <2>1. /\ bet \in Bets /\ tx[bet] = "signed" /\ notices[bet] = {}
        /\ tx' \in {tx, [tx EXCEPT ![bet] = "taken"]}
        /\ rollbackBet(bet, "unreachable") /\ Done /\ UNCHANGED <<betsRef, streamed>>
    BY <1>7 DEF SendThrows, IInv, SendingIsFresh, TypeOK
  <2> QED
    BY <2>1, RollbackFacts DEF Done, IInv, TypeOK, SendingIsFresh, Notice
<1>8. CASE PollSucceeds
  <2>1. /\ bet \in Bets /\ tx[bet] = "success" /\ tx' = tx
        /\ confirmBet(bet) /\ Done /\ UNCHANGED <<betsRef, streamed>>
    BY <1>8 DEF PollSucceeds, Waiting, IInv, TypeOK
  <2> QED
    BY <2>1, ConfirmFacts DEF Done, IInv, TypeOK, SendingIsFresh
<1>9. CASE PollFails
  <2>1. /\ bet \in Bets /\ tx[bet] = "failed" /\ tx' = tx
        /\ rollbackBet(bet, "failed") /\ Done /\ UNCHANGED <<betsRef, streamed>>
    BY <1>9 DEF PollFails, Waiting, IInv, TypeOK
  <2> QED
    BY <2>1, RollbackFacts DEF Done, IInv, TypeOK, SendingIsFresh, Notice
<1>10. CASE WaitTimesOut
  <2>1. /\ bet \in Bets /\ tx' = tx
        /\ rollbackBet(bet, "timeout") /\ Done /\ UNCHANGED <<betsRef, streamed>>
    BY <1>10 DEF WaitTimesOut, Waiting, IInv, TypeOK
  <2>2. tx[bet] # "unsigned"
    BY <1>10 DEF WaitTimesOut, Waiting, IInv, SendingIsFresh
  <2> QED
    BY <2>1, <2>2, RollbackFacts DEF Done, IInv, TypeOK, SendingIsFresh, Notice
<1>11. ASSUME NEW b \in Bets, StreamEvent(b)
       PROVE  IInv' /\ Keeps
  <2>1. /\ tx[b] = "success" /\ tx' = tx /\ streamed' = streamed \cup {b}
        /\ UNCHANGED <<address, pc, bet, attempt, betsRef>>
        /\ UNCHANGED <<pendingBets, settledRef, notices>> \/ confirmBet(b)
    BY <1>11 DEF StreamEvent, session
  <2>2. CASE UNCHANGED <<pendingBets, settledRef, notices>>
    BY <2>1, <2>2 DEF IInv, TypeOK, MessagesAreTrue, UnsignedIsFresh, SendingIsFresh,
                      ConfirmedIsSettled, Keeps, Confirmed, RolledBack
  <2>3. CASE confirmBet(b)
    <3>1. /\ pendingBets' \in [Bets -> Row \cup {None}] /\ settledRef' \subseteq Bets
          /\ notices' \in [Bets -> SUBSET Notice]
          /\ MessagesAreTrue' /\ UnsignedIsFresh' /\ ConfirmedIsSettled' /\ Keeps
          /\ \A c \in Bets : tx[c] # "success" => notices'[c] = notices[c]
      BY <2>1, <2>3, ConfirmFacts
    <3>2. TypeOK'
      BY <2>1, <3>1 DEF IInv, TypeOK
    <3>3. SendingIsFresh'
      BY <2>1, <3>1 DEF IInv, TypeOK, SendingIsFresh
    <3> QED BY <3>1, <3>2, <3>3 DEF IInv
  <2> QED BY <2>1, <2>2, <2>3
<1>12. ASSUME NEW b \in Bets, Resolve(b)
       PROVE  IInv' /\ Keeps
  <2>1. PICK fate \in {"success", "failed", "expired"} : tx' = [tx EXCEPT ![b] = fate]
    BY <1>12 DEF Resolve
  <2>2. /\ tx[b] = "taken"
        /\ UNCHANGED <<address, pc, bet, attempt, pendingBets, betsRef, settledRef, notices, streamed>>
    BY <1>12 DEF Resolve, session, ui
  <2>3. tx'[b] = fate /\ \A c \in Bets : c # b => tx'[c] = tx[c]
    BY <2>1 DEF IInv, TypeOK
  <2>4. TypeOK'
    BY <2>1, <2>2 DEF IInv, TypeOK
  <2>5. MessagesAreTrue' /\ UnsignedIsFresh' /\ ConfirmedIsSettled'
    BY <2>2, <2>3 DEF IInv, MessagesAreTrue, UnsignedIsFresh, ConfirmedIsSettled, Confirmed
  <2>6. SendingIsFresh'
    BY <2>2, <2>3 DEF IInv, TypeOK, SendingIsFresh
  <2>7. Keeps
    BY <2>2 DEF Keeps, Confirmed, RolledBack
  <2> QED BY <2>4, <2>5, <2>6, <2>7 DEF IInv
<1> QED
  BY <1>1, <1>2, <1>3, <1>4, <1>5, <1>6, <1>7, <1>8, <1>9, <1>10, <1>11, <1>12 DEF Next, Running

\* The invariant holds of the betting flow.
THEOREM BetFlowInvariance == Spec => []IInv
<1>1. Init => IInv
  <2> SUFFICES ASSUME Init PROVE IInv
    OBVIOUS
  <2>1. TypeOK
    <3>1. pendingBets \in [Bets -> Row \cup {None}] /\ betsRef \in [Bets -> Row \cup {None}]
      BY DEF Init
    <3>2. notices \in [Bets -> SUBSET Notice]
      BY DEF Init
    <3>3. tx \in [Bets -> {"unsigned", "signed", "taken", "success", "failed", "expired"}]
      BY DEF Init
    <3>4. attempt \in 0 .. SEND_RETRIES
      BY BetFlowAssumption DEF Init
    <3> QED BY <3>1, <3>2, <3>3, <3>4 DEF Init, TypeOK
  <2>2. MessagesAreTrue /\ UnsignedIsFresh /\ ConfirmedIsSettled
    BY DEF Init, MessagesAreTrue, UnsignedIsFresh, ConfirmedIsSettled, Confirmed
  <2>3. SendingIsFresh
    BY DEF Init, SendingIsFresh
  <2> QED BY <2>1, <2>2, <2>3 DEF IInv
<1>2. IInv /\ [Next]_vars => IInv'
  BY StepFacts
<1> QED BY <1>1, <1>2, PTL DEF Spec

\* The session's state has its type for any number of bets and retries.
THEOREM BetFlowTypes == Spec => []TypeOK
<1>1. IInv => TypeOK
  BY DEF IInv
<1> QED BY <1>1, BetFlowInvariance, PTL

\* What the user is told of a bet is true of its transaction, for ever.
THEOREM UserIsToldTheTruth == Spec => []MessagesAreTrue
<1>1. IInv => MessagesAreTrue
  BY DEF IInv
<1> QED BY <1>1, BetFlowInvariance, PTL

\* The first to settle a bet decides, whether the stream or the poll.
THEOREM FirstSettlementStands == Spec => SettledForGood
<1>1. IInv /\ [Next]_vars => [Keeps]_vars
  BY StepFacts
<1> QED BY <1>1, BetFlowInvariance, PTL DEF Spec, SettledForGood, Keeps

============================================================================
