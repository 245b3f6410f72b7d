------------------------------- MODULE Ledger -------------------------------
(***************************************************************************)
(* What the contracts share: the addresses of the ledger, the value of an  *)
(* absent storage entry and the range of an amount.                        *)
(*                                                                         *)
(* A contract call is a transaction: it performs every write of the entry  *)
(* point or, when a check panics, none.  An entry point is therefore one   *)
(* action, guarded by the conjunction of its checks; a call it makes to    *)
(* another contract is conjoined to it, so that a panic there undoes both. *)
(***************************************************************************)
EXTENDS Integers

CONSTANTS
    Users,              \* the addresses that can sign a transaction
    MarketAddress,      \* the market contract
    RegistryAddress,    \* the referral registry contract
    None,               \* an absent storage entry
    MaxAmount,          \* i128::MAX
    OverflowChecks      \* whether the build panics on overflow or wraps around

Addresses == Users \cup {MarketAddress, RegistryAddress}

Amount == 0 .. MaxAmount

\* x + y of two i128: whether it returns, and what.
AddReturns(x, y) == OverflowChecks => x + y <= MaxAmount
Plus(x, y) == IF x + y <= MaxAmount THEN x + y ELSE x + y - 2 * (MaxAmount + 1)

ASSUME LedgerAssumption ==
    /\ MarketAddress \notin Users
    /\ RegistryAddress \notin Users
    /\ MarketAddress # RegistryAddress
    /\ None \notin Addresses
    /\ MaxAmount \in Nat
    /\ OverflowChecks \in BOOLEAN

============================================================================
