--------------------- MODULE OracleAutoSubmitterProofs ---------------------
(***************************************************************************)
(* The oracle's claim protocol for every number of daemons, markets,       *)
(* adapters and failures.                                                  *)
(***************************************************************************)
EXTENDS OracleAutoSubmitter, FiniteSetTheorems, TLAPS

\* A market somebody holds is not open, so that no claim of it succeeds.
HeldIsNotOpen ==
    \A m \in Markets, d \in Daemons : Holds(d, m) => status[m] # "open"

\* A daemon records a market only after its own submission was accepted.
MarkedIsOnChain ==
    \A d \in Daemons : pc[d] = "mark" => chain[market[d]] # None

\* An outcome of the market that a truthful adapter could have agreed to.
Vouched(m, o) ==
    o \in BOOLEAN /\ (CategoryAdapters[m] \cap Honest # {} => o = Truth[m])

\* Every outcome on its way to the chain is one.
OutcomesAreVouched ==
    /\ \A d \in Daemons : pc[d] = "submit" => Vouched(market[d], outcome[d])
    /\ \A m \in Markets, o \in BOOLEAN : <<m, o>> \in inflight => Vouched(m, o)

\* The inductive invariant.
IInv ==
    /\ TypeOK
    /\ ClaimIsExclusive
    /\ HeldIsNotOpen
    /\ MarkedIsOnChain
    /\ RecordedIsOnChain
    /\ OutcomesAreVouched
    /\ NoWrongOutcome

----------------------------------------------------------------------------

\* determineOutcome answers with what every adapter answered, so with the
\* truth when one of them is honest.
LEMMA UnanimousIsVouched ==
    ASSUME NEW m \in Markets, NEW f \in Answers(m), determineOutcome(f) # None
    PROVE  Vouched(m, determineOutcome(f))
<1> DEFINE o == determineOutcome(f)
<1>1. /\ Cardinality(Range(f)) = 1
      /\ o = CHOOSE x \in Range(f) : TRUE
  BY DEF determineOutcome
<1>2. /\ f \in [CategoryAdapters[m] -> BOOLEAN \cup {None}]
      /\ \A a \in CategoryAdapters[m] \cap Honest : f[a] \in {Truth[m], None}
  BY DEF Answers
<1>3. IsFiniteSet(Range(f))
  <2>1. IsFiniteSet(BOOLEAN \cup {None})
    <3>1. IsFiniteSet({TRUE}) /\ IsFiniteSet({FALSE}) /\ IsFiniteSet({None})
      BY FS_Singleton
    <3>2. IsFiniteSet({TRUE} \cup {FALSE})
      BY <3>1, FS_Union
    <3>3. IsFiniteSet(({TRUE} \cup {FALSE}) \cup {None})
      BY <3>1, <3>2, FS_Union
    <3>4. ({TRUE} \cup {FALSE}) \cup {None} = BOOLEAN \cup {None}
      OBVIOUS
    <3> QED
      BY <3>3, <3>4
  <2>2. Range(f) \subseteq BOOLEAN \cup {None}
    BY <1>2 DEF Range
  <2> QED
    BY <2>1, <2>2, FS_Subset
<1>4. PICK x : Range(f) = {x}
  BY <1>1, <1>3, FS_Singleton
<1>5. o = x
  BY <1>1, <1>4
<1>6. \A a \in CategoryAdapters[m] : f[a] = o
  BY <1>2, <1>4, <1>5 DEF Range
<1>7. o \in BOOLEAN
  BY <1>2, <1>4, <1>5 DEF Range
<1> HIDE DEF o
<1>8. CategoryAdapters[m] \cap Honest # {} => o = Truth[m]
  BY <1>2, <1>6, <1>7, OracleAssumption
<1> QED
  BY <1>7, <1>8 DEF Vouched, o

\* Rows, claims and submissions are of markets that have ended.
WorkIsExpired ==
    /\ \A d \in Daemons : rows[d] \subseteq expired
    /\ \A d \in Daemons : pc[d] \in Working => market[d] \in expired
    /\ \A m \in Markets, o \in BOOLEAN : <<m, o>> \in inflight => m \in expired

\* The empty table satisfies the invariant.
LEMMA InitIInv == Init => IInv
BY OracleAssumption DEF Init, IInv, TypeOK, ClaimIsExclusive, HeldIsNotOpen, MarkedIsOnChain,
   RecordedIsOnChain, OutcomesAreVouched, NoWrongOutcome, Holds, Working

\* Every step preserves it.
LEMMA NextIInv == IInv /\ [Next]_vars => IInv'
<1> SUFFICES ASSUME IInv, [Next]_vars PROVE IInv'
  OBVIOUS
<1> USE OracleAssumption DEF IInv, Working
<1>1. ASSUME NEW d \in Daemons, Poll(d) PROVE IInv'
  BY <1>1 DEF Poll, Goto, TypeOK, ClaimIsExclusive, Holds, HeldIsNotOpen,
     MarkedIsOnChain, RecordedIsOnChain, OutcomesAreVouched, Vouched, NoWrongOutcome
<1>2. ASSUME NEW d \in Daemons, EndPoll(d) PROVE IInv'
  BY <1>2 DEF EndPoll, Goto, TypeOK, ClaimIsExclusive, Holds, HeldIsNotOpen,
     MarkedIsOnChain, RecordedIsOnChain, OutcomesAreVouched, Vouched, NoWrongOutcome
<1>3. ASSUME NEW d \in Daemons, NEW m \in Markets, Claim(d, m) PROVE IInv'
  <2>1. TypeOK'
    BY <1>3 DEF Claim, Goto, SetStatus, FirstRow, TypeOK
  <2>2. ClaimIsExclusive'
    BY <1>3 DEF Claim, Goto, SetStatus, FirstRow, ClaimIsExclusive, Holds, TypeOK,
       HeldIsNotOpen
  <2>3. HeldIsNotOpen'
    BY <1>3 DEF Claim, Goto, SetStatus, FirstRow, HeldIsNotOpen, ClaimIsExclusive, Holds,
       TypeOK
  <2>4. (MarkedIsOnChain /\ RecordedIsOnChain /\ OutcomesAreVouched /\ NoWrongOutcome)'
    BY <1>3 DEF Claim, Goto, SetStatus, FirstRow, MarkedIsOnChain, RecordedIsOnChain,
       OutcomesAreVouched, Vouched, NoWrongOutcome, TypeOK
  <2> QED
    BY <2>1, <2>2, <2>3, <2>4
<1>4. ASSUME NEW d \in Daemons, NEW m \in Markets, ClaimFails(d, m) PROVE IInv'
  <2>1. TypeOK'
    BY <1>4 DEF ClaimFails, AbortPoll, Return, Goto, SetStatus, FirstRow, Fault, TypeOK
  <2>2. HeldIsNotOpen'
    BY <1>4 DEF ClaimFails, AbortPoll, Return, Goto, SetStatus, FirstRow, Fault,
       HeldIsNotOpen, ClaimIsExclusive, Holds, TypeOK
  <2>3. (ClaimIsExclusive /\ MarkedIsOnChain /\ RecordedIsOnChain /\ OutcomesAreVouched
           /\ NoWrongOutcome)'
    BY <1>4 DEF ClaimFails, AbortPoll, Return, Goto, SetStatus, FirstRow, Fault,
       ClaimIsExclusive, Holds, MarkedIsOnChain, RecordedIsOnChain, OutcomesAreVouched,
       Vouched, NoWrongOutcome, TypeOK
  <2> QED
    BY <2>1, <2>2, <2>3
<1>5. ASSUME NEW d \in Daemons, Determine(d) PROVE IInv'
  <2>1. TypeOK'
    BY <1>5, UnanimousIsVouched DEF Determine, Goto, TypeOK, Vouched
  <2>2. OutcomesAreVouched'
    BY <1>5, UnanimousIsVouched DEF Determine, Goto, OutcomesAreVouched, Vouched, TypeOK
  <2>3. (ClaimIsExclusive /\ HeldIsNotOpen /\ MarkedIsOnChain /\ RecordedIsOnChain /\
           NoWrongOutcome)'
    BY <1>5 DEF Determine, Goto, ClaimIsExclusive, Holds, HeldIsNotOpen, MarkedIsOnChain,
       RecordedIsOnChain, NoWrongOutcome, OutcomesAreVouched, Vouched, TypeOK
  <2> QED
    BY <2>1, <2>2, <2>3
<1>6. ASSUME NEW d \in Daemons, DetermineFails(d) PROVE IInv'
  <2>1. TypeOK'
    BY <1>6 DEF DetermineFails, Goto, Fault, TypeOK
  <2>2. (ClaimIsExclusive /\ HeldIsNotOpen /\ MarkedIsOnChain /\ RecordedIsOnChain /\
           OutcomesAreVouched /\ NoWrongOutcome)'
    BY <1>6 DEF DetermineFails, Goto, Fault, ClaimIsExclusive, Holds, HeldIsNotOpen,
       MarkedIsOnChain, RecordedIsOnChain, OutcomesAreVouched, Vouched, NoWrongOutcome,
       TypeOK
  <2> QED
    BY <2>1, <2>2
<1>7. ASSUME NEW d \in Daemons, Submit(d) PROVE IInv'
  <2>1. TypeOK'
    BY <1>7 DEF Submit, Accepts, Goto, TypeOK
  <2>2. MarkedIsOnChain'
    BY <1>7 DEF Submit, Accepts, Goto, MarkedIsOnChain, TypeOK, OutcomesAreVouched,
       Vouched
  <2>3. NoWrongOutcome'
    BY <1>7 DEF Submit, Accepts, Goto, NoWrongOutcome, OutcomesAreVouched, Vouched,
       TypeOK
  <2>4. (ClaimIsExclusive /\ HeldIsNotOpen /\ RecordedIsOnChain /\ OutcomesAreVouched)'
    BY <1>7 DEF Submit, Accepts, Goto, ClaimIsExclusive, Holds, HeldIsNotOpen,
       RecordedIsOnChain, MarkedIsOnChain, OutcomesAreVouched, Vouched, TypeOK
  <2> QED
    BY <2>1, <2>2, <2>3, <2>4
<1>8. ASSUME NEW d \in Daemons, SubmitFails(d) PROVE IInv'
  <2>1. TypeOK'
    BY <1>8 DEF SubmitFails, Goto, Fault, TypeOK, OutcomesAreVouched, Vouched
  <2>2. OutcomesAreVouched'
    BY <1>8 DEF SubmitFails, Goto, Fault, OutcomesAreVouched, Vouched, TypeOK
  <2>3. (ClaimIsExclusive /\ HeldIsNotOpen /\ MarkedIsOnChain /\ RecordedIsOnChain /\
           NoWrongOutcome)'
    BY <1>8 DEF SubmitFails, Goto, Fault, ClaimIsExclusive, Holds, HeldIsNotOpen,
       MarkedIsOnChain, RecordedIsOnChain, NoWrongOutcome, OutcomesAreVouched, Vouched,
       TypeOK
  <2> QED
    BY <2>1, <2>2, <2>3
<1>9. ASSUME NEW d \in Daemons, Mark(d) PROVE IInv'
  <2>1. TypeOK'
    BY <1>9 DEF Mark, NextRow, Return, Goto, SetStatus, TypeOK
  <2>2. RecordedIsOnChain'
    BY <1>9 DEF Mark, NextRow, Return, Goto, SetStatus, RecordedIsOnChain,
       MarkedIsOnChain, TypeOK
  <2>3. HeldIsNotOpen'
    BY <1>9 DEF Mark, NextRow, Return, Goto, SetStatus, HeldIsNotOpen, ClaimIsExclusive,
       Holds, TypeOK
  <2>4. (ClaimIsExclusive /\ MarkedIsOnChain /\ OutcomesAreVouched /\ NoWrongOutcome)'
    BY <1>9 DEF Mark, NextRow, Return, Goto, SetStatus, ClaimIsExclusive, Holds,
       MarkedIsOnChain, OutcomesAreVouched, Vouched, NoWrongOutcome, TypeOK
  <2> QED
    BY <2>1, <2>2, <2>3, <2>4
<1>10. ASSUME NEW d \in Daemons, MarkFails(d) PROVE IInv'
  <2>1. TypeOK'
    BY <1>10 DEF MarkFails, Goto, SetStatus, Fault, TypeOK
  <2>2. RecordedIsOnChain'
    BY <1>10 DEF MarkFails, Goto, SetStatus, Fault, RecordedIsOnChain, MarkedIsOnChain,
       TypeOK
  <2>3. HeldIsNotOpen'
    BY <1>10 DEF MarkFails, Goto, SetStatus, Fault, HeldIsNotOpen, ClaimIsExclusive,
       Holds, TypeOK
  <2>4. (ClaimIsExclusive /\ MarkedIsOnChain /\ OutcomesAreVouched /\ NoWrongOutcome)'
    BY <1>10 DEF MarkFails, Goto, SetStatus, Fault, ClaimIsExclusive, Holds,
       MarkedIsOnChain, OutcomesAreVouched, Vouched, NoWrongOutcome, TypeOK
  <2> QED
    BY <2>1, <2>2, <2>3, <2>4
<1>11. ASSUME NEW d \in Daemons, Release(d) PROVE IInv'
  <2>1. TypeOK'
    BY <1>11 DEF Release, NextRow, Return, Goto, SetStatus, TypeOK
  <2>2. HeldIsNotOpen'
    BY <1>11 DEF Release, NextRow, Return, Goto, SetStatus, HeldIsNotOpen,
       ClaimIsExclusive, Holds, TypeOK
  <2>3. (ClaimIsExclusive /\ MarkedIsOnChain /\ RecordedIsOnChain /\ OutcomesAreVouched
           /\ NoWrongOutcome)'
    BY <1>11 DEF Release, NextRow, Return, Goto, SetStatus, ClaimIsExclusive, Holds,
       MarkedIsOnChain, RecordedIsOnChain, OutcomesAreVouched, Vouched, NoWrongOutcome,
       TypeOK
  <2> QED
    BY <2>1, <2>2, <2>3
<1>12. ASSUME NEW d \in Daemons, ReleaseFails(d) PROVE IInv'
  <2>1. TypeOK'
    BY <1>12 DEF ReleaseFails, AbortPoll, Return, Goto, SetStatus, Fault, TypeOK
  <2>2. HeldIsNotOpen'
    BY <1>12 DEF ReleaseFails, AbortPoll, Return, Goto, SetStatus, Fault, HeldIsNotOpen,
       ClaimIsExclusive, Holds, TypeOK
  <2>3. (ClaimIsExclusive /\ MarkedIsOnChain /\ RecordedIsOnChain /\ OutcomesAreVouched
           /\ NoWrongOutcome)'
    BY <1>12 DEF ReleaseFails, AbortPoll, Return, Goto, SetStatus, Fault,
       ClaimIsExclusive, Holds, MarkedIsOnChain, RecordedIsOnChain, OutcomesAreVouched,
       Vouched, NoWrongOutcome, TypeOK
  <2> QED
    BY <2>1, <2>2, <2>3
<1>13. ASSUME NEW d \in Daemons, Stop(d) PROVE IInv'
  <2>1. TypeOK'
    BY <1>13 DEF Stop, Return, Goto, Fault, TypeOK, OutcomesAreVouched, Vouched
  <2>2. OutcomesAreVouched'
    BY <1>13 DEF Stop, Return, Goto, Fault, OutcomesAreVouched, Vouched, TypeOK
  <2>3. (ClaimIsExclusive /\ HeldIsNotOpen /\ MarkedIsOnChain /\ RecordedIsOnChain /\
           NoWrongOutcome)'
    BY <1>13 DEF Stop, Return, Goto, Fault, ClaimIsExclusive, Holds, HeldIsNotOpen,
       MarkedIsOnChain, RecordedIsOnChain, NoWrongOutcome, OutcomesAreVouched, Vouched,
       TypeOK
  <2> QED
    BY <2>1, <2>2, <2>3
<1>14. ASSUME NEW d \in Daemons, Restart(d) PROVE IInv'
  BY <1>14 DEF Restart, Goto, TypeOK, ClaimIsExclusive, Holds, HeldIsNotOpen,
     MarkedIsOnChain, RecordedIsOnChain, OutcomesAreVouched, Vouched, NoWrongOutcome
<1>15. ASSUME NEW m \in Markets, Expire(m) PROVE IInv'
  BY <1>15 DEF Expire, TypeOK, ClaimIsExclusive, Holds, HeldIsNotOpen, MarkedIsOnChain,
     RecordedIsOnChain, OutcomesAreVouched, Vouched, NoWrongOutcome
<1>16. ASSUME NEW m \in Markets, NEW o \in BOOLEAN, Land(m, o) PROVE IInv'
  <2>1. TypeOK'
    BY <1>16 DEF Land, Accepts, TypeOK
  <2>2. NoWrongOutcome'
    BY <1>16 DEF Land, Accepts, NoWrongOutcome, OutcomesAreVouched, Vouched, TypeOK
  <2>3. (ClaimIsExclusive /\ HeldIsNotOpen /\ MarkedIsOnChain /\ RecordedIsOnChain /\
           OutcomesAreVouched)'
    BY <1>16 DEF Land, Accepts, ClaimIsExclusive, Holds, HeldIsNotOpen, MarkedIsOnChain,
       RecordedIsOnChain, OutcomesAreVouched, Vouched, TypeOK
  <2> QED
    BY <2>1, <2>2, <2>3
<1>17. CASE UNCHANGED vars
  BY <1>17 DEF vars, TypeOK, ClaimIsExclusive, Holds, HeldIsNotOpen, MarkedIsOnChain,
     RecordedIsOnChain, OutcomesAreVouched, Vouched, NoWrongOutcome
<1> QED
  BY <1>1, <1>2, <1>3, <1>4, <1>5, <1>6, <1>7, <1>8, <1>9, <1>10, <1>11, <1>12, <1>13,
     <1>14, <1>15, <1>16, <1>17 DEF Next, Step


----------------------------------------------------------------------------
(* Theorems.                                                               *)

\* The invariant holds of every behaviour.
THEOREM OracleInvariance == Spec => []IInv
BY InitIInv, NextIInv, PTL DEF Spec

\* The table, the daemons and the chain keep their types.
THEOREM OracleTypes == Spec => []TypeOK
<1>1. IInv => TypeOK
  BY DEF IInv
<1> QED
  BY <1>1, OracleInvariance, PTL

\* However many daemons poll, no two work on the same market.
THEOREM ExclusiveClaims == Spec => []ClaimIsExclusive
<1>1. IInv => ClaimIsExclusive
  BY DEF IInv
<1> QED
  BY <1>1, OracleInvariance, PTL

\* One truthful adapter in a category keeps a wrong outcome off the chain.
THEOREM OneHonestAdapterSuffices == Spec => []NoWrongOutcome
<1>1. IInv => NoWrongOutcome
  BY DEF IInv
<1> QED
  BY <1>1, OracleInvariance, PTL

\* 'submitted' is written only for an outcome that is on chain.
THEOREM RecordsAreTrue == Spec => []RecordedIsOnChain
<1>1. IInv => RecordedIsOnChain
  BY DEF IInv
<1> QED
  BY <1>1, OracleInvariance, PTL

\* An orphaned claim, and an outcome that landed without being recorded, stay
\* as they are whatever the daemons do.
THEOREM StuckStaysStuck == Spec => StuckForEver
<1>1. ASSUME IInv, [Next]_vars, NEW m \in Markets, Orphaned(m)
      PROVE  Orphaned(m)'
  <2> USE <1>1 DEF IInv, TypeOK, Orphaned, Holds, Working
  <2>1. ASSUME NEW d \in Daemons, Step(d) PROVE Orphaned(m)'
    BY <2>1 DEF Step, Poll, EndPoll, Claim, ClaimFails, Determine, DetermineFails, Submit,
       SubmitFails, Mark, MarkFails, Release, ReleaseFails, Goto, SetStatus, NextRow,
       AbortPoll, Return
  <2>2. ASSUME NEW d \in Daemons, Stop(d) \/ Restart(d) PROVE Orphaned(m)'
    BY <2>2 DEF Stop, Restart, Goto, Return
  <2>3. CASE \E n \in Markets : Expire(n)
    BY <2>3 DEF Expire
  <2>4. CASE \E n \in Markets, o \in BOOLEAN : Land(n, o)
    BY <2>4 DEF Land
  <2>5. CASE UNCHANGED vars
    BY <2>5 DEF vars
  <2> QED
    BY <2>1, <2>2, <2>3, <2>4, <2>5 DEF Next
<1>2. ASSUME IInv, [Next]_vars, NEW m \in Markets, Unrecorded(m)
      PROVE  Unrecorded(m)'
  <2> USE <1>2, OracleAssumption DEF IInv, TypeOK, Unrecorded, Holds, Working
  <2>1. ASSUME NEW d \in Daemons, Step(d) PROVE Unrecorded(m)'
    BY <2>1 DEF Step, Poll, EndPoll, Claim, ClaimFails, Determine, DetermineFails, Submit,
       SubmitFails, Mark, MarkFails, Release, ReleaseFails, Goto, SetStatus, NextRow,
       AbortPoll, Return, Accepts, OutcomesAreVouched, Vouched
  <2>2. ASSUME NEW d \in Daemons, Stop(d) \/ Restart(d) PROVE Unrecorded(m)'
    BY <2>2 DEF Stop, Restart, Goto, Return
  <2>3. CASE \E n \in Markets : Expire(n)
    BY <2>3 DEF Expire
  <2>4. CASE \E n \in Markets, o \in BOOLEAN : Land(n, o)
    BY <2>4 DEF Land, Accepts
  <2>5. CASE UNCHANGED vars
    BY <2>5 DEF vars
  <2> QED
    BY <2>1, <2>2, <2>3, <2>4, <2>5 DEF Next
<1>3. IInv /\ [Next]_vars =>
        [\A m \in Markets : /\ Orphaned(m) => Orphaned(m)'
                            /\ Unrecorded(m) => Unrecorded(m)']_vars
  BY <1>1, <1>2
<1> QED
  BY <1>3, OracleInvariance, PTL DEF Spec, StuckForEver

----------------------------------------------------------------------------
(* The refinement.  An action that changes the phase of a market changes   *)
(* that of the market the daemon holds or claims, because nobody else      *)
(* holds it.                                                               *)

LEMMA InitExpired == Init => WorkIsExpired
BY DEF Init, WorkIsExpired, Working

\* Rows are selected among the ended markets and passed on from there.
LEMMA NextExpired == IInv /\ WorkIsExpired /\ [Next]_vars => WorkIsExpired'
<1> SUFFICES ASSUME IInv, WorkIsExpired, [Next]_vars PROVE WorkIsExpired'
  OBVIOUS
<1> USE DEF IInv, TypeOK, WorkIsExpired, Working
<1>1. ASSUME NEW d \in Daemons, Poll(d) \/ EndPoll(d) \/ Restart(d) PROVE WorkIsExpired'
  BY <1>1 DEF Poll, EndPoll, Restart, Goto
<1>2. ASSUME NEW d \in Daemons, NEW m \in Markets, Claim(d, m) PROVE WorkIsExpired'
  BY <1>2 DEF Claim, FirstRow, Goto
<1>3. ASSUME NEW d \in Daemons, NEW m \in Markets, ClaimFails(d, m) PROVE WorkIsExpired'
  BY <1>3 DEF ClaimFails, AbortPoll, Return, Goto
<1>4. ASSUME NEW d \in Daemons, Determine(d) \/ DetermineFails(d) PROVE WorkIsExpired'
  BY <1>4 DEF Determine, DetermineFails, Goto
<1>5. ASSUME NEW d \in Daemons, Submit(d) \/ SubmitFails(d) PROVE WorkIsExpired'
  BY <1>5 DEF Submit, SubmitFails, Goto
<1>6. ASSUME NEW d \in Daemons, Mark(d) \/ MarkFails(d) PROVE WorkIsExpired'
  BY <1>6 DEF Mark, MarkFails, NextRow, Return, Goto
<1>7. ASSUME NEW d \in Daemons, Release(d) \/ ReleaseFails(d) PROVE WorkIsExpired'
  BY <1>7 DEF Release, ReleaseFails, NextRow, AbortPoll, Return, Goto
<1>8. ASSUME NEW d \in Daemons, Stop(d) PROVE WorkIsExpired'
  BY <1>8 DEF Stop, Return, Goto
<1>9. ASSUME NEW m \in Markets, Expire(m) PROVE WorkIsExpired'
  BY <1>9 DEF Expire
<1>10. ASSUME NEW m \in Markets, NEW o \in BOOLEAN, Land(m, o) PROVE WorkIsExpired'
  BY <1>10 DEF Land
<1>11. CASE UNCHANGED vars
  BY <1>11 DEF vars
<1> QED
  BY <1>1, <1>2, <1>3, <1>4, <1>5, <1>6, <1>7, <1>8, <1>9, <1>10, <1>11 DEF Next, Step

\* What a step of a daemon on its market m may do to the phases: m's changes as
\* the status it leaves says, the others' stay.
LEMMA LeavesMarket ==
    ASSUME IInv, NEW d \in Daemons, NEW m \in Markets, Holds(d, m),
           pc'[d] \notin Working, NEW l, pc' = [pc EXCEPT ![d] = l],
           market' = [market EXCEPT ![d] = None],
           NEW s \in {"open", "submitting", "submitted"},
           status' = [status EXCEPT ![m] = s]
    PROVE  /\ Phase(m) = "working"
           /\ Phase(m)' = [open |-> "waiting", submitting |-> "lost", submitted |-> "done"][s]
           /\ \A n \in Markets \ {m} : Phase(n)' = Phase(n)
<1> USE DEF IInv, TypeOK, Working, Holds
<1>1. Phase(m) = "working"
  BY DEF Phase
<1>2. \A e \in Daemons : ~Holds(e, m)'
  BY DEF ClaimIsExclusive
<1>3. status'[m] = s
  OBVIOUS
<1>4. \A n \in Markets \ {m}, e \in Daemons : Holds(e, n)' <=> Holds(e, n)
  OBVIOUS
<1>5. \A n \in Markets \ {m} : status'[n] = status[n]
  OBVIOUS
<1> QED
  BY <1>1, <1>2, <1>3, <1>4, <1>5 DEF Phase

\* A step that changes no phase and no outcome and lets no market end is none
\* of the abstract worker's.
LEMMA SamePhases ==
    ASSUME expired' = expired, chain' = chain, \A m \in Markets : Phase(m)' = Phase(m)
    PROVE  UNCHANGED Resolution!resolutionVars
BY DEF Resolution!resolutionVars

\* A step that changes one phase is one of the abstract worker's moves.
LEMMA OnePhase ==
    ASSUME NEW m \in Markets, expired' = expired, chain' = chain,
           \A n \in Markets \ {m} : Phase(n)' = Phase(n)
    PROVE  LET phase == [n \in Markets |-> Phase(n)]
           IN  phase' = [phase EXCEPT ![m] = Phase(m)']
OBVIOUS

\* Nobody's hold changes, and no status: no phase does.
LEMMA NoPhase ==
    ASSUME status' = status, \A m \in Markets, d \in Daemons : Holds(d, m)' <=> Holds(d, m)
    PROVE  \A m \in Markets : Phase(m)' = Phase(m)
BY DEF Phase

\* A daemon that leaves its market moves it as the status it leaves says.
LEMMA LeavingIsAMove ==
    ASSUME IInv, NEW d \in Daemons, NEW m \in Markets, Holds(d, m),
           pc'[d] \notin Working, NEW l, pc' = [pc EXCEPT ![d] = l],
           market' = [market EXCEPT ![d] = None],
           NEW s \in {"open", "submitting", "submitted"},
           status' = [status EXCEPT ![m] = s],
           s = "submitted" => chain[m] # None,
           expired' = expired, chain' = chain
    PROVE  Resolution!Next
<1>1. /\ Phase(m) = "working"
      /\ Phase(m)' = [open |-> "waiting", submitting |-> "lost", submitted |-> "done"][s]
      /\ \A n \in Markets \ {m} : Phase(n)' = Phase(n)
  BY LeavesMarket
<1>2. [n \in Markets |-> Phase(n)]' = [[n \in Markets |-> Phase(n)] EXCEPT ![m] = Phase(m)']
  BY <1>1, OnePhase
<1>3. CASE s = "open"
  <2>1. Resolution!GiveUp(m)
    BY <1>1, <1>2, <1>3 DEF Resolution!GiveUp, Resolution!Move
  <2> QED
    BY <2>1 DEF Resolution!Next
<1>4. CASE s = "submitting"
  <2>1. Resolution!Lose(m)
    BY <1>1, <1>2, <1>4 DEF Resolution!Lose, Resolution!Move
  <2> QED
    BY <2>1 DEF Resolution!Next
<1>5. CASE s = "submitted"
  <2>1. Resolution!Finish(m)
    BY <1>1, <1>2, <1>5 DEF Resolution!Finish, Resolution!Move
  <2> QED
    BY <2>1 DEF Resolution!Next
<1> QED
  BY <1>3, <1>4, <1>5

\* An outcome that is vouched for is admissible, and settles a market that has none.
LEMMA SettlingIsAStep ==
    ASSUME NEW m \in Markets, NEW o, Vouched(m, o), m \in expired, chain[m] = None,
           chain' = [chain EXCEPT ![m] = o], expired' = expired,
           \A n \in Markets : Phase(n)' = Phase(n)
    PROVE  Resolution!Next
<1>1. o \in Admissible[m]
  BY DEF Vouched, Admissible
<1>2. Resolution!Settle(m, o)
  BY DEF Resolution!Settle
<1> QED
  BY <1>1, <1>2 DEF Resolution!Next

\* A daemon without a market may move or restart.
LEMMA IdleMoves ==
    ASSUME IInv, NEW d \in Daemons, pc[d] \notin Working, NEW l, l \notin Working,
           pc' = [pc EXCEPT ![d] = l], NEW n, market' = [market EXCEPT ![d] = n],
           status' = status
    PROVE  \A m \in Markets : Phase(m)' = Phase(m)
<1>1. \A m \in Markets, e \in Daemons : Holds(e, m)' <=> Holds(e, m)
  BY DEF Holds, Working, IInv, TypeOK
<1> QED
  BY <1>1, NoPhase

\* A daemon that goes on with its market holds it before and after, whatever its
\* queries do to that market's status.
LEMMA HolderMoves ==
    ASSUME IInv, NEW d \in Daemons, pc[d] \in Working, NEW l \in Working,
           pc' = [pc EXCEPT ![d] = l], market' = market,
           \/ status' = status
           \/ \E s : status' = [status EXCEPT ![market[d]] = s]
    PROVE  \A m \in Markets : Phase(m)' = Phase(m)
<1>1. \A m \in Markets, e \in Daemons : Holds(e, m)' <=> Holds(e, m)
  BY DEF Holds, Working, IInv, TypeOK
<1>2. \A m \in Markets \ {market[d]} : status'[m] = status[m]
  BY DEF IInv, TypeOK
<1>3. Holds(d, market[d])
  BY DEF Holds
<1> QED
  BY <1>1, <1>2, <1>3 DEF Phase

\* Every step of the daemons and their surroundings is a step of the abstract
\* worker or none.
LEMMA StepRefines ==
    ASSUME IInv, WorkIsExpired, [Next]_vars
    PROVE  [Resolution!Next]_(Resolution!resolutionVars)
<1> DEFINE Goal == [Resolution!Next]_(Resolution!resolutionVars)
<1> USE DEF IInv, TypeOK
<1>1. ASSUME NEW d \in Daemons, Poll(d) \/ EndPoll(d) \/ Restart(d) PROVE Goal
  <2>1. \A m \in Markets : Phase(m)' = Phase(m)
    <3>1. \A m \in Markets, e \in Daemons : Holds(e, m)' <=> Holds(e, m)
      BY <1>1 DEF Poll, EndPoll, Restart, Goto, Holds, Working
    <3> QED
      BY <1>1, <3>1, NoPhase DEF Poll, EndPoll, Restart
  <2> QED
    BY <1>1, <2>1, SamePhases DEF Poll, EndPoll, Restart
<1>2. ASSUME NEW d \in Daemons, NEW m \in Markets, Claim(d, m) PROVE Goal
  <2>1. CASE status[m] = "open"
    <3>1. Phase(m) = "waiting"
      BY <2>1 DEF Phase, HeldIsNotOpen
    <3>2. Holds(d, m)'
      BY <1>2, <2>1 DEF Claim, Goto, Holds, Working
    <3>3. Phase(m)' = "working"
      BY <3>2 DEF Phase
    <3>4. \A n \in Markets \ {m} :
            /\ status'[n] = status[n]
            /\ \A e \in Daemons : Holds(e, n)' <=> Holds(e, n)
      BY <1>2, <2>1 DEF Claim, Goto, SetStatus, Holds, Working
    <3>5. \A n \in Markets \ {m} : Phase(n)' = Phase(n)
      BY <3>4 DEF Phase
    <3>6. [n \in Markets |-> Phase(n)]' = [[n \in Markets |-> Phase(n)] EXCEPT ![m] = Phase(m)']
      BY <1>2, <3>5, OnePhase DEF Claim
    <3>7. m \in expired
      BY <1>2 DEF Claim, FirstRow, WorkIsExpired
    <3>8. Resolution!Begin(m)
      BY <1>2, <3>1, <3>3, <3>6, <3>7 DEF Claim, Resolution!Begin, Resolution!Move
    <3> QED
      BY <3>8 DEF Resolution!Next
  <2>2. CASE status[m] # "open"
    <3>1. \A n \in Markets : Phase(n)' = Phase(n)
      BY <1>2, <2>2, NoPhase DEF Claim, Holds
    <3> QED
      BY <1>2, <3>1, SamePhases DEF Claim
  <2> QED
    BY <2>1, <2>2
<1>3. ASSUME NEW d \in Daemons, NEW m \in Markets, ClaimFails(d, m) PROVE Goal
  <2>1. \A n \in Markets, e \in Daemons : Holds(e, n)' <=> Holds(e, n)
    BY <1>3 DEF ClaimFails, AbortPoll, Return, Goto, Holds, Working
  <2>2. CASE status' = status
    <3>1. \A n \in Markets : Phase(n)' = Phase(n)
      BY <2>1, <2>2, NoPhase
    <3> QED
      BY <1>3, <3>1, SamePhases DEF ClaimFails
  <2>3. CASE status[m] = "open" /\ SetStatus(m, "submitting")
    <3>1. \A e \in Daemons : ~Holds(e, m)
      BY <2>3 DEF HeldIsNotOpen
    <3>2. Phase(m) = "waiting" /\ Phase(m)' = "lost"
      BY <2>1, <2>3, <3>1 DEF Phase, SetStatus
    <3>3. \A n \in Markets \ {m} : Phase(n)' = Phase(n)
      BY <2>1, <2>3 DEF Phase, SetStatus
    <3>4. [n \in Markets |-> Phase(n)]' = [[n \in Markets |-> Phase(n)] EXCEPT ![m] = Phase(m)']
      BY <1>3, <3>3, OnePhase DEF ClaimFails
    <3>5. Resolution!Lose(m)
      BY <1>3, <3>2, <3>4 DEF ClaimFails, Resolution!Lose, Resolution!Move
    <3> QED
      BY <3>5 DEF Resolution!Next
  <2> QED
    BY <1>3, <2>2, <2>3 DEF ClaimFails
<1>4. ASSUME NEW d \in Daemons, Determine(d) \/ DetermineFails(d) \/ SubmitFails(d) \/ MarkFails(d)
      PROVE  Goal
  <2>1. \E l \in Working : pc' = [pc EXCEPT ![d] = l]
    BY <1>4 DEF Determine, DetermineFails, SubmitFails, MarkFails, Goto, Working
  <2>2. pc[d] \in Working /\ market' = market /\ expired' = expired /\ chain' = chain
    BY <1>4 DEF Determine, DetermineFails, SubmitFails, MarkFails, Working
  <2>3. status' = status \/ \E s : status' = [status EXCEPT ![market[d]] = s]
    BY <1>4 DEF Determine, DetermineFails, SubmitFails, MarkFails, SetStatus
  <2>4. \A m \in Markets : Phase(m)' = Phase(m)
    BY <2>1, <2>2, <2>3, HolderMoves
  <2> QED
    BY <2>2, <2>4, SamePhases
<1>5. ASSUME NEW d \in Daemons, Submit(d) PROVE Goal
  <2>1. \E l \in Working : pc' = [pc EXCEPT ![d] = l]
    BY <1>5 DEF Submit, Goto, Working
  <2>2. pc[d] \in Working /\ market' = market /\ expired' = expired /\ status' = status
    BY <1>5 DEF Submit, Working
  <2>3. \A m \in Markets : Phase(m)' = Phase(m)
    BY <2>1, <2>2, HolderMoves
  <2>4. CASE Accepts(market[d])
    <3>1. market[d] \in Markets /\ market[d] \in expired
      BY <2>2 DEF WorkIsExpired
    <3>2. Vouched(market[d], outcome[d])
      BY <1>5 DEF Submit, OutcomesAreVouched
    <3>3. chain' = [chain EXCEPT ![market[d]] = outcome[d]] /\ chain[market[d]] = None
      BY <1>5, <2>4 DEF Submit, Accepts
    <3> QED
      BY <2>2, <2>3, <3>1, <3>2, <3>3, SettlingIsAStep
  <2>5. CASE ~Accepts(market[d])
    BY <1>5, <2>2, <2>3, <2>5, SamePhases DEF Submit
  <2> QED
    BY <2>4, <2>5
<1>6. ASSUME NEW d \in Daemons, Mark(d) \/ Release(d) \/ ReleaseFails(d) PROVE Goal
  <2>1. market[d] \in Markets /\ Holds(d, market[d])
    BY <1>6 DEF Mark, Release, ReleaseFails, Holds, Working
  <2>2. PICK l \in {"idle", "next"} : pc' = [pc EXCEPT ![d] = l]
    BY <1>6 DEF Mark, Release, ReleaseFails, NextRow, AbortPoll, Goto
  <2>3. pc'[d] \notin Working
    BY <2>2 DEF Working
  <2>4. market' = [market EXCEPT ![d] = None] /\ expired' = expired /\ chain' = chain
    BY <1>6 DEF Mark, Release, ReleaseFails, NextRow, AbortPoll, Return
  <2>5. PICK s \in {"open", "submitting", "submitted"} :
          /\ status' = [status EXCEPT ![market[d]] = s]
          /\ s = "submitted" => chain[market[d]] # None
    <3>1. CASE Mark(d)
      BY <2>1, <3>1 DEF Mark, SetStatus, MarkedIsOnChain
    <3>2. CASE status' = [status EXCEPT ![market[d]] = "open"]
      BY <3>2
    <3>3. CASE status' = status
      <4>1. status' = [status EXCEPT ![market[d]] = status[market[d]]]
        BY <3>3, <2>1
      <4>2. status[market[d]] \in {"open", "submitting", "submitted"}
        BY <2>1
      <4> QED
        BY <4>1, <4>2, <2>1 DEF RecordedIsOnChain
    <3> QED
      BY <1>6, <3>1, <3>2, <3>3 DEF Release, ReleaseFails, SetStatus
  <2>6. Resolution!Next
    BY <2>1, <2>2, <2>3, <2>4, <2>5, LeavingIsAMove
  <2> QED
    BY <2>6
<1>7. ASSUME NEW d \in Daemons, Stop(d) PROVE Goal
  <2>1. /\ pc' = [pc EXCEPT ![d] = "down"] /\ market' = [market EXCEPT ![d] = None]
        /\ status' = status /\ expired' = expired /\ chain' = chain
    BY <1>7 DEF Stop, Goto, Return
  <2>2. "down" \notin Working
    BY DEF Working
  <2>3. CASE pc[d] \notin Working
    <3>1. \A m \in Markets : Phase(m)' = Phase(m)
      BY <2>1, <2>2, <2>3, IdleMoves
    <3> QED
      BY <2>1, <3>1, SamePhases
  <2>4. CASE pc[d] \in Working
    <3>1. market[d] \in Markets /\ Holds(d, market[d])
      BY <2>4 DEF Holds
    <3>2. status[market[d]] \in {"open", "submitting", "submitted"}
      BY <3>1
    <3>3. status' = [status EXCEPT ![market[d]] = status[market[d]]]
      BY <2>1, <3>1
    <3>4. status[market[d]] = "submitted" => chain[market[d]] # None
      BY <3>1 DEF RecordedIsOnChain
    <3>5. pc'[d] \notin Working
      BY <2>1, <2>2
    <3>6. Resolution!Next
      BY <2>1, <3>1, <3>2, <3>3, <3>4, <3>5, LeavingIsAMove
    <3> QED
      BY <3>6
  <2> QED
    BY <2>3, <2>4
<1>8. ASSUME NEW m \in Markets, Expire(m) PROVE Goal
  <2>1. \A n \in Markets : Phase(n)' = Phase(n)
    BY <1>8, NoPhase DEF Expire, Holds
  <2>2. Resolution!Expire(m)
    BY <1>8, <2>1 DEF Expire, Resolution!Expire
  <2> QED
    BY <2>2 DEF Resolution!Next
<1>9. ASSUME NEW m \in Markets, NEW o \in BOOLEAN, Land(m, o) PROVE Goal
  <2>1. \A n \in Markets : Phase(n)' = Phase(n)
    BY <1>9, NoPhase DEF Land, Holds
  <2>2. CASE Accepts(m)
    <3>1. Vouched(m, o) /\ m \in expired
      BY <1>9 DEF Land, OutcomesAreVouched, WorkIsExpired
    <3>2. chain' = [chain EXCEPT ![m] = o] /\ chain[m] = None /\ expired' = expired
      BY <1>9, <2>2 DEF Land, Accepts
    <3> QED
      BY <2>1, <3>1, <3>2, SettlingIsAStep
  <2>3. CASE ~Accepts(m)
    <3>1. chain' = chain /\ expired' = expired
      BY <1>9, <2>3 DEF Land
    <3> QED
      BY <2>1, <3>1, SamePhases
  <2> QED
    BY <2>2, <2>3
<1>10. CASE UNCHANGED vars
  <2>1. \A n \in Markets : Phase(n)' = Phase(n)
    BY <1>10, NoPhase DEF vars, Holds
  <2> QED
    BY <1>10, <2>1, SamePhases DEF vars
<1> QED
  BY <1>1, <1>2, <1>3, <1>4, <1>5, <1>6, <1>7, <1>8, <1>9, <1>10 DEF Next, Step

\* The daemons implement the abstract resolution of markets: for any number of
\* daemons, markets, adapters and failures, each market has one worker at a time,
\* at most one outcome, and is done only with it.
THEOREM OracleImplementsResolution == Spec => ResolutionIsImplemented
<1>1. Init => Resolution!Init
  BY DEF Init, Resolution!Init, Phase, Holds, Working
<1>2. IInv /\ WorkIsExpired /\ [Next]_vars => [Resolution!Next]_(Resolution!resolutionVars)
  BY StepRefines
<1>3. Spec => []WorkIsExpired
  BY InitExpired, NextExpired, OracleInvariance, PTL DEF Spec
<1> QED
  BY <1>1, <1>2, <1>3, OracleInvariance, PTL DEF Spec, ResolutionIsImplemented, Resolution!Spec
============================================================================
