----------------------------- MODULE BettingPool -----------------------------
(***************************************************************************)
(* The explorer contract's betting pool (contracts/explorer, place_bet and  *)
(* compute_odds) and a bet slip that protects its bet with the helpers of   *)
(* the frontend (lib/slippage.ts): it reads the odds, works out the lowest  *)
(* odds it accepts and sends the bet, while others bet on either side.      *)
(*                                                                          *)
(* One market: pools share nothing.  The slip is the one its tests          *)
(* describe; what it reads, it reads with get_odds.                         *)
(***************************************************************************)
EXTENDS Integers, FiniteSetsExt

CONSTANTS
  MaxPool,      \* i128::MAX
  Bps,          \* basis points of a whole: 10 000
  Stakes,       \* the amounts that are bet
  Tolerances    \* slippage tolerances, in percent

ASSUME PoolAssumption ==
  /\ MaxPool \in Nat \ {0} /\ Bps \in Nat \ {0}
  /\ Stakes \subseteq 1 .. MaxPool /\ Tolerances \subseteq 0 .. 100

Sides == {"yes", "no"}
NoOdds == -1
Slip == [pc : {"empty", "quoted", "placed", "refused"}, side : Sides,
         quoted : {NoOdds} \cup 0 .. Bps, min : 0 .. Bps, got : {NoOdds} \cup 0 .. Bps,
         against : BOOLEAN]

VARIABLES
  pool,   \* MarketPool: total_yes and total_no
  slip    \* the bet slip: what it was quoted and accepts, the odds its bet met, and
          \* whether anybody bet on the other side in between

poolVars == <<pool, slip>>

PoolTypeOK == pool \in [Sides -> 0 .. MaxPool] /\ slip \in Slip

EmptySlip == [pc |-> "empty", side |-> "yes", quoted |-> NoOdds, min |-> 0, got |-> NoOdds,
              against |-> FALSE]

PoolInit == pool = [s \in Sides |-> 0] /\ slip = EmptySlip

saturating(n) == Min({n, MaxPool})

\* Mutant: the odds are those of the other side.
compute_odds_swapped(p, side) ==
  LET total == saturating(p["yes"] + p["no"])
      other == p["yes"] + p["no"] - p[side]
  IN CASE total = 0 -> Bps \div 2
       [] total # 0 /\ other = 0 -> 1
       [] OTHER -> Min({saturating(other * Bps) \div total, Bps})

compute_odds(p, side) ==
  LET total == saturating(p["yes"] + p["no"])
  IN CASE total = 0 -> Bps \div 2
       [] total # 0 /\ p[side] = 0 -> 1
       [] OTHER -> Min({saturating(p[side] * Bps) \div total, Bps})

\* What calculateMinOdds may return: it multiplies in floating point, which brings a
\* whole product down by one for some tolerances and never up.
calculateMinOdds(odds, tolerance) ==
  LET exact == (odds * (100 - tolerance)) \div 100
      whole == (odds * (100 - tolerance)) % 100 = 0 /\ tolerance \notin {0, 100}
  IN IF odds <= 0 THEN {1}
     ELSE {Max({1, Min({m, odds})}) : m \in {exact} \cup (IF whole THEN {exact - 1} ELSE {})}

Bet(side, amount) == pool' = [pool EXCEPT ![side] = saturating(@ + amount)]

\* Somebody else's bet; one that asks for better odds is reverted and changes nothing.
place_bet(side, amount, min) ==
  /\ min <= compute_odds(pool, side)
  /\ Bet(side, amount)
  /\ slip' = [slip EXCEPT !.against = @ \/ (slip.pc = "quoted" /\ side # slip.side)]

\* The slip shows the odds and works out the lowest it accepts; it may be changed until
\* the bet is sent.
Quote(side, tolerance) ==
  /\ slip.pc \in {"empty", "quoted"}
  /\ LET odds == compute_odds(pool, side)
     IN \E min \in calculateMinOdds(odds, tolerance) :
          slip' = [EmptySlip EXCEPT !.pc = "quoted", !.side = side, !.quoted = odds, !.min = min]
  /\ UNCHANGED pool

PlaceProtectedBet(amount) ==
  /\ slip.pc = "quoted"
  /\ LET odds == compute_odds(pool, slip.side)
     IN \/ /\ odds < slip.min
           /\ slip' = [slip EXCEPT !.pc = "refused", !.got = odds]
           /\ UNCHANGED pool
        \/ /\ odds >= slip.min
           /\ slip' = [slip EXCEPT !.pc = "placed", !.got = odds]
           /\ Bet(slip.side, amount)

NextBet ==
  /\ slip.pc \in {"placed", "refused"}
  /\ slip' = EmptySlip
  /\ UNCHANGED pool

PoolNext ==
  \/ \E side \in Sides, amount \in Stakes, min \in 0 .. Bps : place_bet(side, amount, min)
  \/ \E side \in Sides, tolerance \in Tolerances : Quote(side, tolerance)
  \/ \E amount \in Stakes : PlaceProtectedBet(amount)
  \/ NextBet

PoolSpec == PoolInit /\ [][PoolNext]_poolVars

------------------------------------------------------------------------------
(* Properties.                                                              *)

\* The totals have not reached the end of an i128, and neither has the product that the
\* odds are computed from.
Unsaturated ==
  pool["yes"] + pool["no"] <= MaxPool /\ pool[slip.side] * Bps <= MaxPool

\* A bet that was quoted is refused only if somebody has bet against it since: bets on
\* its own side never lower its odds.  There are two exceptions: a side so small that
\* its odds are rounded down to 0, below what any slip accepts and below the odds of an
\* empty side; and pools that saturate.
RefusedForAReason ==
  slip.pc = "refused" => slip.against \/ slip.got = 0 \/ ~Unsaturated
==============================================================================
