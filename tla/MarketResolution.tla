-------------------------- MODULE MarketResolution --------------------------
(***************************************************************************)
(* What the oracle promises of each market, without daemons, polls,        *)
(* adapters or queries: one worker at a time takes the market up after it  *)
(* ends, at most one outcome is ever settled, an admissible one, and the   *)
(* market is done only when that outcome stands.  A worker may give a      *)
(* market up, or vanish with it; the outcome may be settled by a worker    *)
(* that believes it has failed.                                            *)
(***************************************************************************)
CONSTANTS
    Markets,
    Admissible,   \* the outcomes each market may get
    None

VARIABLES
    expired,      \* the markets that have ended
    outcome,      \* the settled outcome, None before
    phase         \* "waiting", "working", "done" or "lost"

resolutionVars == <<expired, outcome, phase>>

Init ==
    /\ expired = {}
    /\ outcome = [m \in Markets |-> None]
    /\ phase = [m \in Markets |-> "waiting"]

Expire(m) ==
    /\ expired' = expired \cup {m}
    /\ UNCHANGED <<outcome, phase>>

Move(m, from, to) ==
    /\ phase[m] = from
    /\ phase' = [phase EXCEPT ![m] = to]
    /\ UNCHANGED <<expired, outcome>>

Begin(m) == m \in expired /\ Move(m, "waiting", "working")

\* The one step that writes an outcome, over none.
Settle(m, o) ==
    /\ m \in expired
    /\ outcome[m] = None
    /\ outcome' = [outcome EXCEPT ![m] = o]
    /\ UNCHANGED <<expired, phase>>

GiveUp(m) == Move(m, "working", "waiting")

Finish(m) == outcome[m] # None /\ Move(m, "working", "done")

\* The worker is gone, or never knew that the market was its own.
Lose(m) == Move(m, "waiting", "lost") \/ Move(m, "working", "lost")

Next ==
    \E m \in Markets :
        \/ Expire(m) \/ Begin(m) \/ GiveUp(m) \/ Finish(m) \/ Lose(m)
        \/ \E o \in Admissible[m] : Settle(m, o)

Spec == Init /\ [][Next]_resolutionVars
=============================================================================
