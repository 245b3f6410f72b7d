-------------------------- MODULE ExplorerContract --------------------------
(***************************************************************************)
(* contracts/explorer without its betting pool: the admin, the indexer     *)
(* allowlist, the dispute council, the contract registry and the log of    *)
(* decoded events.  Every entry point is one transaction, one action here; *)
(* a panic undoes it, so its checks are guards.  The contract's Vecs are   *)
(* sequences: that an address occurs in one only once is a result of the   *)
(* code, not of the model.  TTL extension is left out.                     *)
(***************************************************************************)
EXTENDS Integers, SequencesExt

CONSTANTS
    Accounts,                  \* the addresses that can sign
    ContractIds,            \* the 32-byte ids users may register
    NoEntry,                   \* an absent storage entry
    MAX_INDEXERS,
    MAX_COUNCIL_MEMBERS,
    MaxEvents               \* bound on the sequence numbers of the log

ASSUME ExplorerAssumption ==
    /\ MAX_INDEXERS \in Nat
    /\ MAX_COUNCIL_MEMBERS \in Nat
    /\ MaxEvents \in Nat
    /\ NoEntry \notin Accounts
    /\ NoEntry \notin Nat

VARIABLES
    admin,          \* DataKey::Admin
    allowlist,      \* DataKey::IndexerAllowlist, empty when absent
    council,        \* DataKey::Council, no members and threshold 0 when absent
    meta,           \* DataKey::Contract(id)
    contractList,   \* DataKey::ContractList, empty when absent
    eventLog,       \* DataKey::EventLog(seq)
    persistentSeq,  \* DataKey::EventSeq in persistent storage
    instanceSeq     \* DataKey::EventSeq in instance storage

eventVars == <<eventLog, persistentSeq, instanceSeq>>
entryVars == <<meta, contractList>>
explorerVars == <<admin, allowlist, council, entryVars, eventVars>>

\* A ContractMeta is told apart by the address it names as its registrant and
\* by whether it is within the size limits.
ContractMeta == [registered_by : Accounts, fits : BOOLEAN]

CouncilConfig == [members : Seq(Accounts), threshold : Nat]

DecodedEvent == [seq : Nat, contract_id : ContractIds]

ASSUME RecordAssumption == NoEntry \notin ContractMeta /\ NoEntry \notin DecodedEvent

ExplorerInit ==
    /\ admin = NoEntry
    /\ allowlist = <<>>
    /\ council = [members |-> <<>>, threshold |-> 0]
    /\ meta = [c \in ContractIds |-> NoEntry]
    /\ contractList = <<>>
    /\ eventLog = [s \in 0 .. MaxEvents |-> NoEntry]
    /\ persistentSeq = NoEntry
    /\ instanceSeq = NoEntry

\* Vec::first_index_of
first_index_of(v, e) ==
    CHOOSE i \in 1 .. Len(v) :
        v[i] = e /\ \A j \in 1 .. Len(v) : v[j] = e => i <= j

----------------------------------------------------------------------------
(* Administration.                                                         *)

\* init asks for nobody's authorisation: the first caller names the admin.
InitExplorer(a) ==
    /\ admin = NoEntry
    /\ admin' = a
    /\ persistentSeq' = 0
    /\ UNCHANGED <<allowlist, council, entryVars, eventLog, instanceSeq>>

\* Both addresses sign.
TransferAdmin(current_admin, new_admin) ==
    /\ current_admin = admin
    /\ admin' = new_admin
    /\ UNCHANGED <<allowlist, council, entryVars, eventVars>>

\* add_indexer without the test for an address already listed.
AddIndexerAgain(a, indexer) ==
    /\ a = admin
    /\ Len(allowlist) < MAX_INDEXERS
    /\ allowlist' = Append(allowlist, indexer)
    /\ UNCHANGED <<admin, council, entryVars, eventVars>>

AddIndexer(a, indexer) ==
    /\ a = admin
    /\ ~Contains(allowlist, indexer)
    /\ Len(allowlist) < MAX_INDEXERS
    /\ allowlist' = Append(allowlist, indexer)
    /\ UNCHANGED <<admin, council, entryVars, eventVars>>

\* One occurrence goes.
RemoveIndexer(a, indexer) ==
    /\ a = admin
    /\ Contains(allowlist, indexer)
    /\ allowlist' = RemoveAt(allowlist, first_index_of(allowlist, indexer))
    /\ UNCHANGED <<admin, council, entryVars, eventVars>>

----------------------------------------------------------------------------
(* The dispute council.                                                    *)

AddCouncilMember(a, new_member) ==
    /\ a = admin
    /\ ~Contains(council.members, new_member)
    /\ Len(council.members) < MAX_COUNCIL_MEMBERS
    /\ council' = [members |-> Append(council.members, new_member),
                   threshold |-> IF council.threshold = 0 THEN 1 ELSE council.threshold]
    /\ UNCHANGED <<admin, allowlist, entryVars, eventVars>>

RemoveCouncilMember(a, member) ==
    /\ a = admin
    /\ Contains(council.members, member)
    /\ Len(council.members) - 1 >= council.threshold
    /\ LET left == RemoveAt(council.members, first_index_of(council.members, member))
       IN  council' = [members |-> left,
                       threshold |-> IF left = <<>> THEN 0 ELSE council.threshold]
    /\ UNCHANGED <<admin, allowlist, entryVars, eventVars>>

\* The threshold with its upper bound left out.
SetCouncilThresholdUnbounded(a, threshold) ==
    /\ a = admin
    /\ threshold # 0
    /\ council' = [council EXCEPT !.threshold = threshold]
    /\ UNCHANGED <<admin, allowlist, entryVars, eventVars>>

SetCouncilThreshold(a, threshold) ==
    /\ a = admin
    /\ threshold # 0
    /\ threshold <= Len(council.members)
    /\ council' = [council EXCEPT !.threshold = threshold]
    /\ UNCHANGED <<admin, allowlist, entryVars, eventVars>>

----------------------------------------------------------------------------
(* The contract registry.  Any signer may register an id, before or after  *)
(* init; registered_by is whatever the caller put in the metadata.         *)

\* validate_meta
Validated(m) == m.fits

\* register_contract that forgets whether the id is taken.
ReRegisterContract(caller, id, m) ==
    /\ Validated(m)
    /\ meta' = [meta EXCEPT ![id] = m]
    /\ contractList' = Append(contractList, id)
    /\ UNCHANGED <<admin, allowlist, council, eventVars>>

RegisterContract(caller, id, m) ==
    /\ Validated(m)
    /\ meta[id] = NoEntry
    /\ meta' = [meta EXCEPT ![id] = m]
    /\ contractList' = Append(contractList, id)
    /\ UNCHANGED <<admin, allowlist, council, eventVars>>

\* The record, registered_by included, becomes the caller's.
UpdateContract(caller, id, m) ==
    /\ Validated(m)
    /\ meta[id] # NoEntry
    /\ admin # NoEntry
    /\ caller \in {meta[id].registered_by, admin}
    /\ meta' = [meta EXCEPT ![id] = m]
    /\ UNCHANGED <<admin, allowlist, council, contractList, eventVars>>

----------------------------------------------------------------------------
(* The event log.                                                          *)

\* event_seq panics (NotInitialized) when neither copy exists.
HasEventSeq == persistentSeq # NoEntry \/ instanceSeq # NoEntry
event_seq == IF persistentSeq # NoEntry THEN persistentSeq ELSE instanceSeq

require_submitter(caller) ==
    admin # NoEntry /\ (caller = admin \/ Contains(allowlist, caller))

\* The number read from persistent storage is written back to the instance's.
\* withinLimits: raw_data and description are not too long.
SubmitEvent(caller, id, withinLimits) ==
    /\ require_submitter(caller)
    /\ withinLimits
    /\ HasEventSeq
    /\ event_seq < MaxEvents
    /\ eventLog' = [eventLog EXCEPT ![event_seq] = [seq |-> event_seq, contract_id |-> id]]
    /\ instanceSeq' = event_seq + 1
    /\ UNCHANGED <<admin, allowlist, council, entryVars, persistentSeq>>

\* The sequence numbers get_event answers for.
StoredEvents == {s \in 0 .. MaxEvents : eventLog[s] # NoEntry}

----------------------------------------------------------------------------

ExplorerNext ==
    \/ \E a \in Accounts : InitExplorer(a)
    \/ \E a, b \in Accounts :
        \/ TransferAdmin(a, b)
        \/ AddIndexer(a, b)
        \/ RemoveIndexer(a, b)
        \/ AddCouncilMember(a, b)
        \/ RemoveCouncilMember(a, b)
    \/ \E a \in Accounts, threshold \in 0 .. MAX_COUNCIL_MEMBERS + 1 :
        SetCouncilThreshold(a, threshold)
    \/ \E a \in Accounts, id \in ContractIds, m \in ContractMeta :
        RegisterContract(a, id, m) \/ UpdateContract(a, id, m)
    \/ \E a \in Accounts, id \in ContractIds, withinLimits \in BOOLEAN :
        SubmitEvent(a, id, withinLimits)

ExplorerSpec == ExplorerInit /\ [][ExplorerNext]_explorerVars

----------------------------------------------------------------------------
(* Properties.                                                             *)

ExplorerTypeOK ==
    /\ admin \in Accounts \cup {NoEntry}
    /\ allowlist \in Seq(Accounts) /\ Len(allowlist) <= MAX_INDEXERS
    /\ council \in CouncilConfig /\ Len(council.members) <= MAX_COUNCIL_MEMBERS
    /\ meta \in [ContractIds -> ContractMeta \cup {NoEntry}]
    /\ contractList \in Seq(ContractIds)
    /\ eventLog \in [0 .. MaxEvents -> DecodedEvent \cup {NoEntry}]
    /\ persistentSeq \in Nat \cup {NoEntry}
    /\ instanceSeq \in Nat \cup {NoEntry}

\* The invariant CouncilConfig documents, under every order of adding and
\* removing members and of setting the threshold: a council without members,
\* or a threshold its members can reach and nobody alone can undercut.
CouncilInvariant ==
    \/ council.members = <<>> /\ council.threshold = 0
    \/ 1 <= council.threshold /\ council.threshold <= Len(council.members)

\* remove_council_member never takes the last member away (its reset of the
\* threshold to 0 is never reached): there is no way back to no council.
CouncilIsNeverDissolved ==
    [][council.members # <<>> => council'.members # <<>>]_explorerVars

\* One call of remove_indexer revokes: an address that leaves the allowlist
\* has left it altogether, so no second entry keeps its right to submit.
RevocationIsComplete ==
    [][\A u \in Accounts : (\E a \in Accounts : RemoveIndexer(a, u)) =>
            ~Contains(allowlist', u)]_explorerVars

\* get_contracts lists every registered contract, once, and no other.
ListMatchesRegistry ==
    /\ Range(contractList) = {id \in ContractIds : meta[id] # NoEntry}
    /\ IsInjective(contractList)

\* What "Return the total number of stored events" (event_count) says.
EventCountIsStored ==
    HasEventSeq => event_seq = Cardinality(StoredEvents)

============================================================================
