---------------------------- MODULE DataProvider ----------------------------
(***************************************************************************)
(* BaseDataProviderClient (dataProvider.js): requests that share a token     *)
(* bucket, are aborted after a timeout, and are sent again with a growing     *)
(* delay.  A tick is the time in which the bucket gains one token.           *)
(***************************************************************************)
EXTENDS Integers

CONSTANTS
  Callers,        \* requests to the provider, one each
  MaxProviderRetries,
  Capacity,       \* tokens of a full bucket
  MaxRetryAfter,  \* longest Retry-After, in ticks
  MaxBackoff      \* longest delay before a retry, in ticks

ASSUME ProviderAssumption ==
  /\ MaxProviderRetries \in Nat /\ Capacity \in Nat \ {0}
  /\ MaxRetryAfter \in Nat /\ MaxBackoff \in Nat

VARIABLES
  tokens,   \* TokenBucket.tokens
  blocked,  \* ticks until blockedUntil
  call      \* the requests: step, attempt, ticks of delay left

providerVars == <<tokens, blocked, call>>

ProviderTypeOK ==
  /\ tokens \in 0 .. Capacity /\ blocked \in 0 .. MaxRetryAfter
  /\ call \in [Callers -> [pc : {"idle", "acquire", "fetch", "body", "backoff", "returned", "threw"},
                           attempt : 0 .. MaxProviderRetries, wait : 0 .. MaxBackoff]]

ProviderInit ==
  /\ tokens = Capacity /\ blocked = 0
  /\ call = [c \in Callers |-> [pc |-> "idle", attempt |-> 0, wait |-> 0]]

Pc(c, pc) == call' = [call EXCEPT ![c].pc = pc]

Request(c) ==
  /\ call[c].pc = "idle"
  /\ Pc(c, "acquire")
  /\ UNCHANGED <<tokens, blocked>>

\* TokenBucket.tryConsume, as soon as a try of acquire's loop succeeds.
Acquire(c) ==
  /\ call[c].pc = "acquire" /\ blocked = 0 /\ tokens > 0
  /\ tokens' = tokens - 1
  /\ Pc(c, "fetch")
  /\ UNCHANGED blocked

\* TokenBucket.blockFor: only ever later.
BlockFor(seconds) == blocked' = IF seconds > blocked THEN seconds ELSE blocked

\* The headers are there: the timer is cleared, Retry-After is obeyed.  Every answer but
\* an empty one has a body that is read next, and no timer runs for it.
Headers(c, retryAfter) ==
  /\ call[c].pc = "fetch"
  /\ Pc(c, "body") /\ BlockFor(retryAfter)
  /\ UNCHANGED tokens

Returns(c) ==
  /\ call[c].pc = "body"
  /\ Pc(c, "returned")
  /\ UNCHANGED <<tokens, blocked>>

\* 401, 403 and the other answers that are not retried.
Throws(c) ==
  /\ call[c].pc = "body"
  /\ Pc(c, "threw")
  /\ UNCHANGED <<tokens, blocked>>

\* 500 to 504 leave the try block without an exception: the loop goes on at once, with
\* the attempt it was at.
ServerError(c) ==
  /\ call[c].pc = "body"
  /\ Pc(c, "acquire")
  /\ UNCHANGED <<tokens, blocked>>

\* Mutant: an attempt that ended in an exception is not counted.
CatchUncounted(c, backoff) ==
  /\ call[c].pc \in {"fetch", "body"}
  /\ call' = [call EXCEPT ![c] =
       IF @.attempt >= MaxProviderRetries THEN [@ EXCEPT !.pc = "threw"]
       ELSE [@ EXCEPT !.pc = "backoff", !.wait = backoff]]
  /\ UNCHANGED <<tokens, blocked>>

\* A timeout or a network failure, 429, or a body that cannot be read: the catch block
\* gives up after the last attempt, or waits.
Catch(c, backoff) ==
  /\ call[c].pc \in {"fetch", "body"}
  /\ call' = [call EXCEPT ![c] =
       IF @.attempt >= MaxProviderRetries THEN [@ EXCEPT !.pc = "threw"]
       ELSE [@ EXCEPT !.pc = "backoff", !.wait = backoff, !.attempt = @ + 1]]
  /\ UNCHANGED <<tokens, blocked>>

Retry(c) ==
  /\ call[c].pc = "backoff" /\ call[c].wait = 0
  /\ Pc(c, "acquire")
  /\ UNCHANGED <<tokens, blocked>>

\* TokenBucket.refill, and the timers.
ProviderTick ==
  /\ tokens' = IF tokens < Capacity THEN tokens + 1 ELSE tokens
  /\ blocked' = IF blocked > 0 THEN blocked - 1 ELSE 0
  /\ call' = [c \in Callers |-> IF call[c].wait > 0 THEN [call[c] EXCEPT !.wait = @ - 1]
                                ELSE call[c]]

CatchAny(c) == \E backoff \in 0 .. MaxBackoff : Catch(c, backoff)

\* The end of a fetch, at the latest when it is aborted.
FetchEnds(c) ==
  call[c].pc = "fetch" /\ (CatchAny(c) \/ \E s \in 0 .. MaxRetryAfter : Headers(c, s))

BodyEnds(c) ==
  call[c].pc = "body" /\ (Returns(c) \/ Throws(c) \/ ServerError(c) \/ CatchAny(c))

ProviderNext ==
  \/ ProviderTick
  \/ \E c \in Callers : \/ Request(c) \/ Acquire(c) \/ Retry(c)
                         \/ FetchEnds(c) \/ BodyEnds(c)

------------------------------------------------------------------------------
(* Properties.                                                              *)

Ended(c) == call[c].pc \in {"returned", "threw"}
ServerErrors == \E c \in Callers : ServerError(c)

\* A request is not retried for ever: it returns or throws, whatever times out, is
\* limited or fails, and however long the bucket is blocked.  Two things defeat the limit
\* on the attempts: a provider that answers with a server error again and again, and a
\* body that never ends.
RequestsEnd ==
  \A c \in Callers :
    \/ call[c].pc = "acquire" ~> Ended(c)
    \/ []<><<ServerErrors>>_providerVars
    \/ <>[](call[c].pc = "body")
==============================================================================
