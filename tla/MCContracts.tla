---------------------------- MODULE MCContracts ----------------------------
(* The contracts on small instances, in three parts that share no storage:  *)
(* market, token and registry; the explorer contract; its betting pool.  A   *)
(* behaviour is about one of them, the others stay in their initial state.   *)
(*                                                                          *)
(* The market's part has two users, one of them the admin of all contracts,  *)
(* and an i128 that overflows at four; the explorer's three signers, two      *)
(* contract ids, an allowlist of two and a council of three.                  *)
EXTENDS PredictionMarket, ExplorerContract, BettingPool

CONSTANTS u1, u2, u3, c1, c2

MCUsers == {u1, u2}
MCAdmins == {u1}
MCMinters == {u1, RegistryAddress}
MCBetAmounts == {0, 1}
MCXlmBalances == {0, 1}
MCLegacyRecords ==
    {[resolved |-> r, cancelled |-> FALSE, outcome |-> TRUE, disputed |-> FALSE,
      yes_pool |-> 1, no_pool |-> 0] : r \in BOOLEAN}
    \cup {[resolved |-> TRUE, cancelled |-> c, outcome |-> FALSE, disputed |-> ~c,
           yes_pool |-> 0, no_pool |-> 1] : c \in BOOLEAN}

MCAccounts == {u1, u2, u3}
MCContractIds == {c1, c2}

VARIABLE subject
contractVars == <<subject, vars, explorerVars, poolVars>>

ContractInit ==
  /\ subject \in {"market", "explorer", "pool"}
  /\ Init /\ ExplorerInit /\ PoolInit
  /\ subject # "market" => Fresh

ContractNext ==
  /\ UNCHANGED subject
  /\ \/ subject = "market" /\ Next /\ UNCHANGED <<explorerVars, poolVars>>
     \/ subject = "explorer" /\ ExplorerNext /\ UNCHANGED <<vars, poolVars>>
     \/ subject = "pool" /\ PoolNext /\ UNCHANGED <<vars, explorerVars>>

ContractSpec == ContractInit /\ [][ContractNext]_contractVars
============================================================================
