--------------------------- MODULE IPredictToken ---------------------------
(***************************************************************************)
(* contracts/ipredict_token: the IPREDICT token contract.  The market and  *)
(* the registry call Transfer and Mint within their own transactions, so   *)
(* the actions constrain the token's variables only.                       *)
(***************************************************************************)
EXTENDS Ledger

VARIABLES
    tokenAdmin,     \* DataKey::Admin
    minters,        \* DataKey::AuthorizedMinters, the keys mapped to true
    totalSupply,    \* DataKey::TotalSupply
    balance         \* DataKey::Balance(Address), 0 when absent

tokenVars == <<tokenAdmin, minters, totalSupply, balance>>

TokenTypeOK ==
    /\ tokenAdmin \in Addresses \cup {None}
    /\ minters \subseteq Addresses
    /\ totalSupply \in Amount
    /\ balance \in [Addresses -> Amount]

TokenInit ==
    /\ tokenAdmin = None
    /\ minters = {}
    /\ totalSupply = 0
    /\ balance = [a \in Addresses |-> 0]

----------------------------------------------------------------------------

\* init: only once; nobody's authorisation is asked for.
InitToken(admin) ==
    /\ tokenAdmin = None
    /\ tokenAdmin' = admin
    /\ totalSupply' = 0
    /\ UNCHANGED <<minters, balance>>

AddMinter(admin, minter) ==
    /\ admin = tokenAdmin
    /\ minters' = minters \cup {minter}
    /\ UNCHANGED <<tokenAdmin, totalSupply, balance>>

RemoveMinter(admin, minter) ==
    /\ admin = tokenAdmin
    /\ minters' = minters \ {minter}
    /\ UNCHANGED <<tokenAdmin, totalSupply, balance>>

Mint(caller, to, amount) ==
    /\ caller \in minters
    /\ amount > 0
    /\ AddReturns(balance[to], amount)
    /\ AddReturns(totalSupply, amount)
    /\ balance' = [balance EXCEPT ![to] = Plus(@, amount)]
    /\ totalSupply' = Plus(totalSupply, amount)
    /\ UNCHANGED <<tokenAdmin, minters>>

\* Both balances read first: a transfer to oneself would create tokens.
TransferStaleRead(from, to, amount) ==
    /\ amount > 0
    /\ balance[from] >= amount
    /\ AddReturns(balance[to], amount)
    /\ balance' = [balance EXCEPT ![from] = @ - amount,
                                  ![to] = Plus(balance[to], amount)]
    /\ UNCHANGED <<tokenAdmin, minters, totalSupply>>

\* The sender is debited before the receiver's balance is read, so that a
\* transfer to oneself leaves the balance as it was.
Transfer(from, to, amount) ==
    /\ amount > 0
    /\ balance[from] >= amount
    /\ LET debited == [balance EXCEPT ![from] = @ - amount]
       IN  /\ AddReturns(debited[to], amount)
           /\ balance' = [debited EXCEPT ![to] = Plus(@, amount)]
    /\ UNCHANGED <<tokenAdmin, minters, totalSupply>>

============================================================================
