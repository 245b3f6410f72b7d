----------------------------- MODULE MCFrontend -----------------------------
(* The betting flow, the page of a dispute and the stream of events, which share no *)
(* state: a behaviour is about one of them, the others stay in their initial     *)
(* state.  Three bets of a session: one may be placed while an earlier one,      *)
(* rolled back after a timeout, can still land.                                  *)
EXTENDS BetFlow, DisputeView, LiveStream

VARIABLE subject
pageVars == <<subject, vars, viewVars, streamVars>>

FrontInit ==
  /\ subject \in {"bets", "view", "streams"}
  /\ Init /\ ViewInit /\ StreamInit
  /\ subject # "streams" => ~serverUp /\ ~v1Mounted

FrontNext ==
  /\ UNCHANGED subject
  /\ \/ subject = "bets" /\ Next /\ UNCHANGED <<viewVars, streamVars>>
     \/ subject = "view" /\ ViewNext /\ UNCHANGED <<vars, streamVars>>
     \/ subject = "streams" /\ StreamNext /\ UNCHANGED <<vars, viewVars>>

\* Requests settle, the wallet answers, the deadline passes and React renders; the page's
\* timer fires and requests end; the browser connects and delivers.
FrontFairness ==
  /\ WF_vars(subject = "bets" /\ Running) /\ WF_vars(subject = "bets" /\ Render)
  /\ \A p \in Polls : /\ WF_viewVars(subject = "view" /\ RequestStep(p))
                      /\ WF_viewVars(subject = "view" /\ PollTimer(p))
  /\ WF_streamVars(subject = "streams" /\ (OpenStream \/ NotFound \/ ConnectFails))
  /\ WF_streamVars(subject = "streams" /\ ConnectionLost)
  /\ WF_streamVars(subject = "streams" /\ HandOver)

FrontSpec == FrontInit /\ [][FrontNext]_pageVars /\ FrontFairness

\* StreamsRecover, for the behaviours about the stream: after outages of whatever kind and
\* order the chip comes to say for good whether there is a connection.
LiveIsLive == subject = "streams" => StreamsRecover
==============================================================================
