----------------------------- MODULE LiveStream -----------------------------
(***************************************************************************)
(* The server-sent stream of events and what the chip in the navigation bar  *)
(* makes of it: the route of indexer/src/api.js and hooks/useNetworkStatus.  *)
(* The chip asks for /api/events/stream, which the redirect of legacy routes *)
(* sends to /api/v1/events/stream.  That route is on v1Router, which         *)
(* createApp does not mount; its tests presuppose that it is.                *)
(*                                                                          *)
(* The browser's EventSource is external: it connects again after a lost     *)
(* connection, but a connection that is answered with an HTTP error is       *)
(* closed for good.                                                         *)
(***************************************************************************)
EXTENDS Integers

CONSTANT MaxHttpErrors \* bound on connections that a proxy or a busy server refuses

ASSUME StreamAssumption == MaxHttpErrors \in Nat

VARIABLES
  online,     \* navigator.onLine
  serverUp,
  v1Mounted,  \* the server serves /api/v1/events/stream
  source,     \* the EventSource
  inbox,      \* the browser has received a message and not handed it over yet
  sseOk,
  httpErrors

streamVars == <<online, serverUp, v1Mounted, source, inbox, sseOk, httpErrors>>

StreamTypeOK ==
  /\ online \in BOOLEAN /\ serverUp \in BOOLEAN /\ v1Mounted \in BOOLEAN
  /\ source \in {"connecting", "open", "closed"}
  /\ inbox \in BOOLEAN /\ sseOk \in BOOLEAN
  /\ httpErrors \in 0 .. MaxHttpErrors

\* FALSE is this commit, TRUE what its tests presuppose.
StreamInit ==
  /\ online = TRUE /\ serverUp \in BOOLEAN /\ v1Mounted \in BOOLEAN
  /\ source = "connecting" /\ inbox = FALSE /\ sseOk = TRUE
  /\ httpErrors = 0

------------------------------------------------------------------------------
(* The environment; handleOnline and handleOffline follow the network.      *)

NetworkChanges ==
  /\ online' = ~online
  /\ UNCHANGED <<serverUp, v1Mounted, source, inbox, sseOk, httpErrors>>

ServerChanges ==
  /\ serverUp' = ~serverUp
  /\ UNCHANGED <<online, v1Mounted, source, inbox, sseOk, httpErrors>>

------------------------------------------------------------------------------
(* Connections.                                                             *)

\* onerror
StreamError(state) ==
  /\ source' = state
  /\ sseOk' = FALSE
  /\ UNCHANGED <<online, serverUp, v1Mounted, inbox>>

\* Mutant: no listener for "open".
OpenUnnoticed ==
  /\ source = "connecting" /\ online /\ serverUp /\ v1Mounted
  /\ source' = "open"
  /\ UNCHANGED <<online, serverUp, v1Mounted, inbox, sseOk, httpErrors>>

\* The stream begins with nothing; the chip listens to "open".
OpenStream ==
  /\ source = "connecting" /\ online /\ serverUp /\ v1Mounted
  /\ source' = "open"
  /\ sseOk' = TRUE
  /\ UNCHANGED <<online, serverUp, v1Mounted, inbox, httpErrors>>

\* The redirect leads to a route that nothing serves: 404.
NotFound ==
  /\ source = "connecting" /\ online /\ serverUp /\ ~v1Mounted
  /\ StreamError("closed")
  /\ UNCHANGED httpErrors

ConnectFails ==
  /\ source = "connecting" /\ ~(online /\ serverUp)
  /\ StreamError("connecting")
  /\ UNCHANGED httpErrors

\* A proxy, or the server under load, answers the request with an error.
ConnectRefused ==
  /\ source = "connecting" /\ online /\ httpErrors < MaxHttpErrors
  /\ httpErrors' = httpErrors + 1
  /\ StreamError("closed")

ConnectionLost ==
  /\ source = "open" /\ ~(online /\ serverUp)
  /\ StreamError("connecting")
  /\ UNCHANGED httpErrors

------------------------------------------------------------------------------
(* Messages.                                                                *)

\* An event is stored: onEvent writes to the open connection.
Emit ==
  /\ source = "open" /\ online /\ serverUp /\ ~inbox
  /\ inbox' = TRUE
  /\ UNCHANGED <<online, serverUp, v1Mounted, source, sseOk, httpErrors>>

\* onmessage: any message is a sign of life.
HandOver ==
  /\ inbox /\ source # "closed"
  /\ inbox' = FALSE
  /\ sseOk' = TRUE
  /\ UNCHANGED <<online, serverUp, v1Mounted, source, httpErrors>>

StreamNext ==
  \/ NetworkChanges \/ ServerChanges
  \/ OpenStream \/ NotFound \/ ConnectFails \/ ConnectRefused \/ ConnectionLost
  \/ Emit \/ HandOver

\* The status the chip shows.
status == IF ~online THEN "offline" ELSE IF ~sseOk THEN "reconnecting" ELSE "live"

------------------------------------------------------------------------------
(* Properties.                                                              *)

\* After outages of whatever kind and order, a network and a server that stay up turn the
\* chip to "live" for good, unless a connection was answered with an HTTP error, which
\* leaves it at "reconnecting" for good; a server that stays down turns it to
\* "reconnecting".
StreamsRecover ==
  /\ <>[](online /\ serverUp) =>
       <>[](status = IF source = "closed" THEN "reconnecting" ELSE "live")
  /\ <>[](online /\ ~serverUp) => <>[](status = "reconnecting")
==============================================================================
