-------------------------- MODULE ReferralRegistry --------------------------
(***************************************************************************)
(* contracts/referral_registry: registrations and the welcome bonus.       *)
(* Instance storage other than Admin is written together with Admin in     *)
(* init and never again, so it is given by the constants below and by the  *)
(* addresses of module Ledger.                                             *)
(***************************************************************************)
EXTENDS Ledger

CONSTANTS
    MinBalance,         \* DataKey::MinBalance
    Cooldown,           \* DataKey::Cooldown
    WelcomePoints,      \* WELCOME_POINTS
    WelcomeTokens       \* WELCOME_TOKENS

ASSUME RegistryAssumption ==
    /\ MinBalance \in Int
    /\ Cooldown \in Nat
    /\ WelcomePoints \in Nat \ {0}
    /\ WelcomeTokens \in Nat \ {0}

VARIABLES
    registryAdmin,      \* DataKey::Admin
    registration,       \* DataKey::Registration(Address)
    points,             \* DataKey::Points(Address), 0 when absent
    now                 \* env.ledger().timestamp()

registryVars == <<registryAdmin, registration, points>>

Registration ==
    [referrer : Addresses \cup {None}, registered_at : Nat, has_bet : BOOLEAN, claimed : BOOLEAN]

ASSUME RegistrationAssumption == None \notin Registration

RegistryTypeOK ==
    /\ registryAdmin \in Users \cup {None}
    /\ registration \in [Users -> Registration \cup {None}]
    /\ points \in [Users -> Nat]
    /\ now \in Nat

RegistryDeployed ==
    /\ registryAdmin = None
    /\ registration = [u \in Users |-> None]
    /\ points = [u \in Users |-> 0]
    /\ now = 0

----------------------------------------------------------------------------

InitRegistry(admin) ==
    /\ registryAdmin = None
    /\ registryAdmin' = admin
    /\ UNCHANGED <<registration, points, now>>

\* xlm is what the native token answers for the user's balance.
Register(user, referrer, xlm) ==
    /\ referrer # user
    /\ registration[user] = None
    /\ registryAdmin # None
    /\ xlm > 0 /\ xlm >= MinBalance
    /\ registration' = [registration EXCEPT ![user] =
            [referrer |-> referrer, registered_at |-> now, has_bet |-> FALSE, claimed |-> FALSE]]
    /\ UNCHANGED <<registryAdmin, points, now>>

\* record_first_bet, called by the market.  A user without a registration is
\* passed over.
RecordFirstBet(user) ==
    /\ registryAdmin # None
    /\ registration' = [u \in Users |->
            IF u = user /\ registration[u] # None
            THEN [registration[u] EXCEPT !.has_bet = TRUE]
            ELSE registration[u]]
    /\ UNCHANGED <<registryAdmin, points, now>>

\* A claim that pays and does not mark the registration.
ClaimUnmarked(user) ==
    /\ registration[user] # None
    /\ ~registration[user].claimed
    /\ registration[user].has_bet
    /\ registryAdmin # None
    /\ now >= registration[user].registered_at + Cooldown
    /\ points' = [points EXCEPT ![user] = @ + WelcomePoints]
    /\ UNCHANGED <<registryAdmin, registration, now>>

\* The registry's own checks and writes of claim_welcome_bonus; the mint of
\* WelcomeTokens is the rest of the transaction.
ClaimInRegistry(user) ==
    /\ registration[user] # None
    /\ ~registration[user].claimed
    /\ registration[user].has_bet
    /\ registryAdmin # None
    /\ now >= registration[user].registered_at + Cooldown
    /\ registration' = [registration EXCEPT ![user].claimed = TRUE]
    /\ points' = [points EXCEPT ![user] = @ + WelcomePoints]
    /\ UNCHANGED <<registryAdmin, now>>

============================================================================
