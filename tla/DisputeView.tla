----------------------------- MODULE DisputeView -----------------------------
(***************************************************************************)
(* The page of a dispute (frontend/src/pages/DisputePage.tsx) and the reads  *)
(* of api.ts it is made of: a request to the backend with a timeout, the     *)
(* fallback to the chain, and the banner that says which of the two the      *)
(* client works with.  The page polls on a timer that does not wait for      *)
(* answers, so that requests overlap and answers arrive in any order.        *)
(***************************************************************************)
EXTENDS Integers

CONSTANTS
  Markets,
  Polls,       \* bound on the requests under way at a time
  MaxVersion   \* bound on the changes of a dispute

ASSUME ViewAssumption == MaxVersion \in Nat

NoMarket == "none"
NoDispute == [market |-> NoMarket, version |-> 0]
ASSUME NoMarketAssumption == NoMarket \notin Markets

VARIABLES
  backend,     \* what the API answers
  chainUp,     \* the RPC node answers
  truth,       \* each dispute's state
  market,      \* the market of the page, or none
  poll,        \* the requests
  dispute, error,   \* the page's state
  answered,    \* a request of this market has been applied to it
  onChainMode

viewVars == <<backend, chainUp, truth, market, poll, dispute, error, answered, onChainMode>>

IdlePoll == [pc |-> "idle", market |-> NoMarket, version |-> 0, cancelled |-> FALSE]
Poll == [pc : {"idle", "backend", "body", "chain", "result"}, market : Markets \cup {NoMarket},
         version : 0 .. MaxVersion, cancelled : BOOLEAN]

ViewTypeOK ==
  /\ backend \in {"up", "down", "refuses"} /\ chainUp \in BOOLEAN
  /\ truth \in [Markets -> 0 .. MaxVersion]
  /\ market \in Markets \cup {NoMarket}
  /\ poll \in [Polls -> Poll]
  /\ dispute \in [market : Markets \cup {NoMarket}, version : 0 .. MaxVersion]
  /\ error \in BOOLEAN /\ answered \in BOOLEAN /\ onChainMode \in BOOLEAN

ViewInit ==
  /\ backend = "up" /\ chainUp = TRUE
  /\ truth = [m \in Markets |-> 0]
  /\ market = NoMarket
  /\ poll = [p \in Polls |-> IdlePoll]
  /\ dispute = NoDispute /\ error = FALSE /\ answered = FALSE
  /\ onChainMode = FALSE

------------------------------------------------------------------------------
(* The services.                                                            *)

BackendChanges(b) ==
  /\ backend' = b /\ b # backend
  /\ UNCHANGED <<chainUp, truth, market, poll, dispute, error, answered, onChainMode>>

ChainChanges ==
  /\ chainUp' = ~chainUp
  /\ UNCHANGED <<backend, truth, market, poll, dispute, error, answered, onChainMode>>

DisputeChanges(m) ==
  /\ truth[m] < MaxVersion
  /\ truth' = [truth EXCEPT ![m] = @ + 1]
  /\ UNCHANGED <<backend, chainUp, market, poll, dispute, error, answered, onChainMode>>

------------------------------------------------------------------------------
(* The page's effect.                                                       *)

NewPoll(m) == [IdlePoll EXCEPT !.pc = "backend", !.market = m]

\* The cleanup of the effect for the market before.
Cancelled == [q \in Polls |-> IF poll[q].pc = "idle" THEN IdlePoll
                              ELSE [poll[q] EXCEPT !.cancelled = TRUE]]

\* The first visit, or another market in the same page: its state is not reset, so that the
\* dispute before is shown under the new market's name until there is an answer.
Visit(m, p) ==
  /\ market # m /\ poll[p].pc = "idle"
  /\ market' = m
  /\ poll' = [Cancelled EXCEPT ![p] = NewPoll(m)]
  /\ answered' = FALSE
  /\ UNCHANGED <<backend, chainUp, truth, dispute, error, onChainMode>>

\* The page is left: the component's state is gone.
Leave ==
  /\ market # NoMarket
  /\ market' = NoMarket
  /\ poll' = Cancelled
  /\ dispute' = NoDispute /\ error' = FALSE /\ answered' = FALSE
  /\ UNCHANGED <<backend, chainUp, truth, onChainMode>>

\* setInterval.
PollTimer(p) ==
  /\ market # NoMarket /\ poll[p].pc = "idle"
  /\ poll' = [poll EXCEPT ![p] = NewPoll(market)]
  /\ UNCHANGED <<backend, chainUp, truth, market, dispute, error, answered, onChainMode>>

\* load: what an answer does to the page, and what an exception does.
Show(p) ==
  IF poll[p].cancelled THEN UNCHANGED <<dispute, error, answered>>
  ELSE /\ dispute' = [market |-> poll[p].market, version |-> poll[p].version]
       /\ error' = FALSE /\ answered' = TRUE

ShowError(p) ==
  IF poll[p].cancelled THEN UNCHANGED <<dispute, error, answered>>
  ELSE error' = TRUE /\ answered' = TRUE /\ UNCHANGED dispute

Finish(p) == poll' = [poll EXCEPT ![p] = IdlePoll]

------------------------------------------------------------------------------
(* request and resilientGet.                                                *)

\* Mutant: the banner stays when the backend answers again.
HeadersUnnoticed(p) ==
  /\ poll[p].pc = "backend" /\ backend = "up"
  /\ poll' = [poll EXCEPT ![p].pc = "body", ![p].version = truth[poll[p].market]]
  /\ UNCHANGED <<backend, chainUp, truth, market, dispute, error, answered, onChainMode>>

\* res.ok: the backend is back, and the answer's body is on its way.
Headers(p) ==
  /\ poll[p].pc = "backend" /\ backend = "up"
  /\ poll' = [poll EXCEPT ![p].pc = "body", ![p].version = truth[poll[p].market]]
  /\ onChainMode' = FALSE
  /\ UNCHANGED <<backend, chainUp, truth, market, dispute, error, answered>>

\* Mutant: load does not look whether its effect has been cleaned up.
BodyArrivesLate(p) ==
  /\ poll[p].pc = "body"
  /\ Finish(p)
  /\ dispute' = [market |-> poll[p].market, version |-> poll[p].version]
  /\ error' = FALSE /\ answered' = TRUE
  /\ UNCHANGED <<backend, chainUp, truth, market, onChainMode>>

BodyArrives(p) ==
  /\ poll[p].pc = "body"
  /\ Finish(p) /\ Show(p)
  /\ UNCHANGED <<backend, chainUp, truth, market, onChainMode>>

\* 500, 503, no connection or a timeout, also one in the middle of the body.
BackendFails(p) ==
  /\ poll[p].pc \in {"backend", "body"} /\ backend = "down"
  /\ poll' = [poll EXCEPT ![p].pc = "chain"]
  /\ UNCHANGED <<backend, chainUp, truth, market, dispute, error, answered, onChainMode>>

\* Any other status: no fallback.
BackendRefuses(p) ==
  /\ poll[p].pc = "backend" /\ backend = "refuses"
  /\ Finish(p) /\ ShowError(p)
  /\ UNCHANGED <<backend, chainUp, truth, market, onChainMode>>

ChainAnswers(p) ==
  /\ poll[p].pc = "chain" /\ chainUp
  /\ poll' = [poll EXCEPT ![p].pc = "result", ![p].version = truth[poll[p].market]]
  /\ UNCHANGED <<backend, chainUp, truth, market, dispute, error, answered, onChainMode>>

\* The fallback's result has arrived; the banner goes on even if the backend is back.
FallbackEnds(p) ==
  /\ poll[p].pc = "result"
  /\ Finish(p) /\ Show(p)
  /\ onChainMode' = TRUE
  /\ UNCHANGED <<backend, chainUp, truth, market>>

ChainFails(p) ==
  /\ poll[p].pc = "chain" /\ ~chainUp
  /\ Finish(p) /\ ShowError(p)
  /\ UNCHANGED <<backend, chainUp, truth, market, onChainMode>>

RequestStep(p) ==
  \/ Headers(p) \/ BodyArrives(p) \/ BackendFails(p) \/ BackendRefuses(p)
  \/ ChainAnswers(p) \/ FallbackEnds(p) \/ ChainFails(p)

ViewNext ==
  \/ \E b \in {"up", "down", "refuses"} : BackendChanges(b)
  \/ ChainChanges
  \/ \E m \in Markets : DisputeChanges(m) \/ \E p \in Polls : Visit(m, p)
  \/ Leave
  \/ \E p \in Polls : PollTimer(p) \/ RequestStep(p)

ViewSpec == ViewInit /\ [][ViewNext]_viewVars

------------------------------------------------------------------------------
(* Properties.                                                              *)

\* Once there has been an answer since the user came to this market, the dispute on the page
\* is this market's: an answer to a request for the market before, which may arrive at any
\* later time and through the fallback too, is not shown under this one's name.
ShownIsThisMarket ==
  (market # NoMarket /\ answered /\ ~error) => dispute.market = market

\* A user who stays on a market and a backend that stays up: whatever failed, fell back to
\* the chain or was overtaken before, the page comes to show the dispute as it is, without
\* error and without the banner, and stays so.
ViewCatchesUp ==
  \A m \in Markets, v \in 0 .. MaxVersion :
    <>[](market = m /\ backend = "up" /\ truth[m] = v)
      => <>[](dispute = [market |-> m, version |-> v] /\ ~error /\ ~onChainMode)
==============================================================================
