--------------------------- MODULE SyntheticProbes ---------------------------
(***************************************************************************)
(* The synthetic probes (infra/monitoring/synthetic/probe-runner.ts) and the *)
(* alert bot they call (backend/shared/notifier.ts).  Every interval starts a *)
(* round, whether or not the one before has ended; a round asks the targets   *)
(* in order and alerts for each one that fails.  The bot lets a number of     *)
(* alerts per channel and window through and posts them to Discord, then      *)
(* Slack.                                                                    *)
(***************************************************************************)
EXTENDS Integers, Sequences, FiniteSets

CONSTANTS
  Targets,      \* the targets, in order
  Rounds,       \* bound on the rounds under way at a time
  Window,       \* the limiter's window, in intervals of the scheduler
  MaxPerWindow, \* rateLimitMaxPerMinute
  Webhooks      \* which of "discord" and "slack" have a URL

ASSUME ProbesAssumption ==
  /\ Window \in Nat \ {0} /\ Targets \in Seq(STRING)
  \* 30 alerts a minute, and 3 targets twice a minute
  /\ MaxPerWindow \in Nat /\ MaxPerWindow >= Window * Len(Targets)
  /\ Webhooks \subseteq {"discord", "slack"}

VARIABLES
  failing,     \* targets that answer late, wrongly or not at all
  round,       \* the rounds: step and target
  timestamps,  \* #alerts-critical: ages of the alerts let through, oldest first
  due          \* the interval has elapsed and its round has not begun

probeVars == <<failing, round, timestamps, due>>

IdleRound == [pc |-> "idle", target |-> 1]

ProbesTypeOK ==
  /\ failing \subseteq 1 .. Len(Targets)
  /\ round \in [Rounds -> [pc : {"idle", "probe", "notify", "discord", "slack"},
                           target : 1 .. Len(Targets)]]
  /\ timestamps \in Seq(0 .. Window) /\ Len(timestamps) <= MaxPerWindow
  /\ due \in BOOLEAN

ProbesInit ==
  /\ failing = {} /\ due = TRUE /\ timestamps = <<>>
  /\ round = [r \in Rounds |-> IdleRound]

TargetChanges(t) ==
  /\ failing' = IF t \in failing THEN failing \ {t} ELSE failing \cup {t}
  /\ UNCHANGED <<round, timestamps, due>>

------------------------------------------------------------------------------
(* runSyntheticProbes.                                                      *)

StartRound(r) ==
  /\ due /\ round[r].pc = "idle"
  /\ round' = [round EXCEPT ![r] = [pc |-> "probe", target |-> 1]]
  /\ due' = FALSE
  /\ UNCHANGED <<failing, timestamps>>

NextTarget(r) ==
  round' = [round EXCEPT ![r] = IF @.target = Len(Targets) THEN IdleRound
                                ELSE [pc |-> "probe", target |-> @.target + 1]]

To(r, pc) == round' = [round EXCEPT ![r].pc = pc]

\* runSingleProbe ends with an answer or its abort.
RunSingleProbe(r) ==
  /\ round[r].pc = "probe"
  /\ IF round[r].target \in failing THEN To(r, "notify") ELSE NextTarget(r)
  /\ UNCHANGED <<failing, timestamps, due>>

------------------------------------------------------------------------------
(* NotifierBot.notify.                                                      *)

\* Mutant: alerts of earlier windows are never dropped.
RecentForEver == timestamps

Recent == SelectSeq(timestamps, LAMBDA age : age < Window)

\* ChannelRateLimiter: a slot is taken before anything is sent, and kept if that fails.
isRateLimited == Len(Recent) >= MaxPerWindow

AfterLimiter == IF "discord" \in Webhooks THEN "discord" ELSE "slack"

Notify(r) ==
  /\ round[r].pc = "notify"
  /\ IF isRateLimited THEN NextTarget(r) /\ timestamps' = Recent
     ELSE To(r, AfterLimiter) /\ timestamps' = Append(Recent, 0)
  /\ UNCHANGED <<failing, due>>

\* Delivered, refused or failed: the next webhook is tried all the same.
Discord(r) ==
  /\ round[r].pc = "discord"
  /\ IF "slack" \in Webhooks THEN To(r, "slack") ELSE NextTarget(r)
  /\ UNCHANGED <<failing, timestamps, due>>

Slack(r) ==
  /\ round[r].pc = "slack"
  /\ NextTarget(r)
  /\ UNCHANGED <<failing, timestamps, due>>

\* One interval of the scheduler.
IntervalElapses ==
  /\ ~due
  /\ due' = TRUE
  /\ timestamps' = [i \in 1 .. Len(timestamps) |->
                      IF timestamps[i] < Window THEN timestamps[i] + 1 ELSE Window]
  /\ UNCHANGED <<failing, round>>

RoundStep(r) == RunSingleProbe(r) \/ Notify(r) \/ Discord(r) \/ Slack(r)

ProbesNext ==
  \/ IntervalElapses
  \/ \E t \in 1 .. Len(Targets) : TargetChanges(t)
  \/ \E r \in Rounds : StartRound(r) \/ RoundStep(r)

------------------------------------------------------------------------------
(* Properties.                                                              *)

AlertGoesOut(t) ==
  \E r \in Rounds : round[r].pc = AfterLimiter /\ round[r].target = t

\* A target that stays down is alerted for again and again: neither the alerts of the
\* targets before it, which take their slots first in every round, nor rounds that overlap
\* and bring more alerts into a window than the limiter admits keep it quiet for good.
DownIsAlerted ==
  \A t \in 1 .. Len(Targets) : <>[](t \in failing) => []<>AlertGoesOut(t)
==============================================================================
