----------------------- MODULE ExplorerContractProofs -----------------------
(***************************************************************************)
(* The explorer contract's council, allowlist and registry for every set   *)
(* of users and ids and every limit, and the bet slip at its betting pool  *)
(* for every stake, tolerance and width of the integers.                   *)
(***************************************************************************)
EXTENDS ExplorerContract, BettingPool, SequenceTheorems, TLAPS

\* No two positions of the sequence hold the same element.
Distinct(s) == \A i, j \in 1 .. Len(s) : s[i] = s[j] => i = j

\* get_contracts and the stored records agree, element by element.
Listed ==
    /\ \A i \in 1 .. Len(contractList) : meta[contractList[i]] # NoEntry
    /\ \A id \in ContractIds : meta[id] # NoEntry => Contains(contractList, id)
    /\ Distinct(contractList)

\* The inductive invariant: that the Vecs hold no duplicates is what makes
\* first_index_of well defined and one removal enough.
IInv ==
    /\ ExplorerTypeOK
    /\ CouncilInvariant
    /\ Distinct(allowlist)
    /\ Distinct(council.members)
    /\ Listed

----------------------------------------------------------------------------
(* Facts about sequences.                                                  *)

\* Vec::remove: every element but the i-th, in order.
LEMMA RemoveAtFacts ==
    ASSUME NEW S, NEW s \in Seq(S), NEW i \in 1 .. Len(s)
    PROVE  /\ RemoveAt(s, i) \in Seq(S)
           /\ Len(RemoveAt(s, i)) = Len(s) - 1
           /\ \A j \in 1 .. Len(s) - 1 :
                RemoveAt(s, i)[j] = IF j < i THEN s[j] ELSE s[j + 1]
<1> DEFINE p == SubSeq(s, 1, i - 1)
           q == SubSeq(s, i + 1, Len(s))
<1>0. Len(s) \in Nat /\ i \in Int /\ \A k \in 1 .. Len(s) : s[k] \in S
  BY LenProperties, ElementOfSeq
<1>1. /\ p \in Seq(S)
      /\ Len(p) = i - 1
      /\ \A j \in 1 .. i - 1 : p[j] = s[j]
  <2>1. /\ p \in Seq(S)
        /\ Len(p) = IF 1 <= i - 1 THEN (i - 1) - 1 + 1 ELSE 0
        /\ \A j \in 1 .. (i - 1) - 1 + 1 : p[j] = s[1 + j - 1]
    BY <1>0, SubSeqProperties
  <2> QED
    BY <2>1, <1>0
<1>2. /\ q \in Seq(S)
      /\ Len(q) = Len(s) - i
      /\ \A j \in 1 .. Len(s) - i : q[j] = s[i + j]
  <2>1. /\ q \in Seq(S)
        /\ Len(q) = IF i + 1 <= Len(s) THEN Len(s) - (i + 1) + 1 ELSE 0
        /\ \A j \in 1 .. Len(s) - (i + 1) + 1 : q[j] = s[(i + 1) + j - 1]
    BY <1>0, SubSeqProperties
  <2> QED
    BY <2>1, <1>0
<1> HIDE DEF p, q
<1>3. /\ p \o q \in Seq(S)
      /\ Len(p \o q) = Len(p) + Len(q)
      /\ \A j \in 1 .. Len(p) + Len(q) :
            (p \o q)[j] = IF j <= Len(p) THEN p[j] ELSE q[j - Len(p)]
  BY <1>1, <1>2, ConcatProperties
<1>4. RemoveAt(s, i) = p \o q
  BY DEF RemoveAt, p, q
<1>5. ASSUME NEW j \in 1 .. Len(s) - 1
      PROVE  (p \o q)[j] = IF j < i THEN s[j] ELSE s[j + 1]
  <2>1. CASE j < i
    BY <2>1, <1>0, <1>1, <1>2, <1>3
  <2>2. CASE ~(j < i)
    <3>1. (p \o q)[j] = q[j - (i - 1)]
      BY <2>2, <1>0, <1>1, <1>2, <1>3
    <3>2. q[j - (i - 1)] = s[i + (j - (i - 1))]
      BY <2>2, <1>0, <1>2
    <3> QED
      BY <3>1, <3>2, <2>2, <1>0
  <2> QED
    BY <2>1, <2>2
<1> QED
  BY <1>0, <1>1, <1>2, <1>3, <1>4, <1>5

\* In a Vec without duplicates first_index_of is the one position of e.
LEMMA FirstIndexFacts ==
    ASSUME NEW S, NEW s \in Seq(S), NEW e, Distinct(s), Contains(s, e)
    PROVE  first_index_of(s, e) \in 1 .. Len(s) /\ s[first_index_of(s, e)] = e
<1>1. PICK k \in 1 .. Len(s) : s[k] = e
  BY DEF Contains
<1>2. \A j \in 1 .. Len(s) : s[j] = e => k <= j
  BY <1>1, LenProperties DEF Distinct
<1> QED
  BY <1>1, <1>2 DEF first_index_of

\* Removing e from a Vec without duplicates leaves one without e and without
\* duplicates, shorter by one.
LEMMA RemoveFacts ==
    ASSUME NEW S, NEW s \in Seq(S), NEW e, Distinct(s), Contains(s, e)
    PROVE  LET t == RemoveAt(s, first_index_of(s, e))
           IN  /\ t \in Seq(S)
               /\ Len(t) = Len(s) - 1
               /\ Distinct(t)
               /\ ~Contains(t, e)
<1> DEFINE i == first_index_of(s, e)
           t == RemoveAt(s, i)
<1>1. i \in 1 .. Len(s) /\ s[i] = e
  BY FirstIndexFacts
<1>2. Len(s) \in Nat
  BY LenProperties
<1> HIDE DEF i
<1>3. /\ t \in Seq(S)
      /\ Len(t) = Len(s) - 1
      /\ \A j \in 1 .. Len(s) - 1 : t[j] = IF j < i THEN s[j] ELSE s[j + 1]
  BY <1>1, RemoveAtFacts
<1> HIDE DEF t
<1>4. Distinct(t)
  <2> SUFFICES ASSUME NEW j \in 1 .. Len(s) - 1, NEW k \in 1 .. Len(s) - 1, t[j] = t[k]
               PROVE  j = k
    BY <1>3 DEF Distinct
  <2> DEFINE J == IF j < i THEN j ELSE j + 1
             K == IF k < i THEN k ELSE k + 1
  <2>1. J \in 1 .. Len(s) /\ K \in 1 .. Len(s) /\ s[J] = s[K]
    BY <1>1, <1>2, <1>3
  <2>2. J = K
    BY <2>1 DEF Distinct
  <2> QED
    BY <2>2, <1>1, <1>2
<1>5. ~Contains(t, e)
  <2> SUFFICES ASSUME NEW j \in 1 .. Len(s) - 1, t[j] = e
               PROVE  FALSE
    BY <1>3 DEF Contains
  <2> DEFINE J == IF j < i THEN j ELSE j + 1
  <2>1. J \in 1 .. Len(s) /\ s[J] = s[i] /\ J # i
    BY <1>1, <1>2, <1>3
  <2> QED
    BY <2>1, <1>1 DEF Distinct
<1> QED
  BY <1>3, <1>4, <1>5 DEF t, i

\* push_back of an element that is not there yet.
LEMMA AppendFacts ==
    ASSUME NEW S, NEW s \in Seq(S), NEW e \in S, Distinct(s), ~Contains(s, e)
    PROVE  /\ Append(s, e) \in Seq(S)
           /\ Len(Append(s, e)) = Len(s) + 1
           /\ \A i \in 1 .. Len(s) : Append(s, e)[i] = s[i]
           /\ Append(s, e)[Len(s) + 1] = e
           /\ Distinct(Append(s, e))
<1> DEFINE t == Append(s, e)
<1>1. /\ t \in Seq(S)
      /\ Len(t) = Len(s) + 1
      /\ \A i \in 1 .. Len(s) : t[i] = s[i]
      /\ t[Len(s) + 1] = e
  BY AppendProperties
<1>2. Len(s) \in Nat
  BY LenProperties
<1> HIDE DEF t
<1>3. Distinct(t)
  <2> SUFFICES ASSUME NEW i \in 1 .. Len(s) + 1, NEW j \in 1 .. Len(s) + 1, t[i] = t[j]
               PROVE  i = j
    BY <1>1 DEF Distinct
  <2>1. CASE i \in 1 .. Len(s) /\ j \in 1 .. Len(s)
    BY <2>1, <1>1 DEF Distinct
  <2>2. CASE i = Len(s) + 1 \/ j = Len(s) + 1
    BY <2>2, <1>1, <1>2 DEF Contains
  <2> QED
    BY <2>1, <2>2, <1>2
<1> QED
  BY <1>1, <1>3 DEF t

\* A sequence has no elements exactly when its length is 0.
LEMMA EmptyIffLenZero ==
    ASSUME NEW S, NEW s \in Seq(S)
    PROVE  s = <<>> <=> Len(s) = 0
BY EmptySeq, LenProperties

----------------------------------------------------------------------------
(* The invariant is inductive.                                             *)

\* The freshly deployed contract satisfies it.
LEMMA InitIInv == ExplorerInit => IInv
<1> SUFFICES ASSUME ExplorerInit PROVE IInv
  OBVIOUS
<1>1. /\ <<>> \in Seq(Accounts)
      /\ <<>> \in Seq(ContractIds)
      /\ Len(<<>>) = 0
  BY EmptySeq
<1>2. ExplorerTypeOK
  BY <1>1, ExplorerAssumption DEF ExplorerInit, ExplorerTypeOK, CouncilConfig
<1>3. CouncilInvariant
  BY DEF ExplorerInit, CouncilInvariant
<1>4. Distinct(allowlist) /\ Distinct(council.members) /\ Listed
  BY <1>1 DEF ExplorerInit, Distinct, Listed
<1> QED
  BY <1>2, <1>3, <1>4 DEF IInv

\* add_council_member, remove_council_member and set_council_threshold.
LEMMA CouncilStep ==
    ASSUME IInv,
           NEW a \in Accounts, NEW b \in Accounts, NEW n \in 0 .. MAX_COUNCIL_MEMBERS + 1,
           \/ AddCouncilMember(a, b)
           \/ RemoveCouncilMember(a, b)
           \/ SetCouncilThreshold(a, n)
    PROVE  /\ council' \in CouncilConfig
           /\ Len(council'.members) <= MAX_COUNCIL_MEMBERS
           /\ CouncilInvariant'
           /\ Distinct(council'.members)
           /\ council'.members # <<>>
<1>1. /\ council \in CouncilConfig
      /\ council.members \in Seq(Accounts)
      /\ council.threshold \in Nat
      /\ Len(council.members) \in Nat
      /\ Len(council.members) <= MAX_COUNCIL_MEMBERS
      /\ Distinct(council.members)
      /\ CouncilInvariant
      /\ MAX_COUNCIL_MEMBERS \in Nat
  BY LenProperties, ExplorerAssumption DEF IInv, ExplorerTypeOK, CouncilConfig
<1>2. CASE AddCouncilMember(a, b)
  <2> DEFINE t == Append(council.members, b)
  <2>1. t \in Seq(Accounts) /\ Len(t) = Len(council.members) + 1 /\ Distinct(t)
    BY <1>1, <1>2, AppendFacts DEF AddCouncilMember
  <2>2. /\ council'.members = t
        /\ council'.threshold = IF council.threshold = 0 THEN 1 ELSE council.threshold
        /\ council' = [members |-> t, threshold |-> council'.threshold]
        /\ Len(council.members) < MAX_COUNCIL_MEMBERS
    BY <1>2 DEF AddCouncilMember
  <2> HIDE DEF t
  <2>3. t # <<>>
    BY <2>1, <1>1, EmptyIffLenZero
  <2>4. council' \in CouncilConfig
    BY <2>1, <2>2, <1>1 DEF CouncilConfig
  <2>5. Len(council.members) = 0 \/ council.threshold <= Len(council.members)
    BY <1>1, EmptyIffLenZero DEF CouncilInvariant
  <2>6. Len(council.members) = 0 => council.threshold = 0
    BY <1>1, EmptyIffLenZero DEF CouncilInvariant
  <2>7. CouncilInvariant'
    BY <2>1, <2>2, <2>5, <2>6, <1>1 DEF CouncilInvariant
  <2> QED
    BY <2>1, <2>2, <2>3, <2>4, <2>7, <1>1
<1>3. CASE RemoveCouncilMember(a, b)
  <2> DEFINE t == RemoveAt(council.members, first_index_of(council.members, b))
  <2>1. t \in Seq(Accounts) /\ Len(t) = Len(council.members) - 1 /\ Distinct(t)
    BY <1>1, <1>3, RemoveFacts DEF RemoveCouncilMember
  <2>2. /\ council' = [members |-> t, threshold |-> IF t = <<>> THEN 0 ELSE council.threshold]
        /\ Len(council.members) - 1 >= council.threshold
    BY <1>3 DEF RemoveCouncilMember
  <2> HIDE DEF t
  <2>3. council.threshold >= 1
    <3>1. Len(council.members) # 0
      BY <2>1, <1>1, LenProperties
    <3>2. council.members # <<>>
      BY <3>1, <1>1, EmptyIffLenZero
    <3> QED
      BY <3>2, <1>1 DEF CouncilInvariant
  <2>4. t # <<>>
    BY <2>1, <2>2, <2>3, <1>1, EmptyIffLenZero
  <2>5. council' = [members |-> t, threshold |-> council.threshold]
    BY <2>2, <2>4
  <2> QED
    BY <2>1, <2>2, <2>3, <2>4, <2>5, <1>1 DEF CouncilConfig, CouncilInvariant
<1>4. CASE SetCouncilThreshold(a, n)
  <2>1. /\ council' = [council EXCEPT !.threshold = n]
        /\ n # 0
        /\ n <= Len(council.members)
    BY <1>4 DEF SetCouncilThreshold
  <2>2. council'.members = council.members /\ council'.threshold = n
        /\ council' \in CouncilConfig
    BY <2>1, <1>1 DEF CouncilConfig
  <2>3. council.members # <<>>
    BY <2>1, <1>1, EmptyIffLenZero
  <2> QED
    BY <2>1, <2>2, <2>3, <1>1 DEF CouncilInvariant
<1> QED
  BY <1>2, <1>3, <1>4

\* add_indexer and remove_indexer; a removed address is no longer listed.
LEMMA AllowlistStep ==
    ASSUME IInv, NEW a \in Accounts, NEW b \in Accounts,
           AddIndexer(a, b) \/ RemoveIndexer(a, b)
    PROVE  /\ allowlist' \in Seq(Accounts)
           /\ Len(allowlist') <= MAX_INDEXERS
           /\ Distinct(allowlist')
           /\ RemoveIndexer(a, b) => ~Contains(allowlist', b)
<1>1. /\ allowlist \in Seq(Accounts)
      /\ Len(allowlist) \in Nat
      /\ Len(allowlist) <= MAX_INDEXERS
      /\ Distinct(allowlist)
      /\ MAX_INDEXERS \in Nat
  BY LenProperties, ExplorerAssumption DEF IInv, ExplorerTypeOK
<1>2. ASSUME RemoveIndexer(a, b)
      PROVE  /\ allowlist' \in Seq(Accounts)
             /\ Len(allowlist') <= MAX_INDEXERS
             /\ Distinct(allowlist')
             /\ ~Contains(allowlist', b)
  <2>1. /\ Contains(allowlist, b)
        /\ allowlist' = RemoveAt(allowlist, first_index_of(allowlist, b))
    BY <1>2 DEF RemoveIndexer
  <2>2. /\ allowlist' \in Seq(Accounts)
        /\ Len(allowlist') = Len(allowlist) - 1
        /\ Distinct(allowlist')
        /\ ~Contains(allowlist', b)
    BY <2>1, <1>1, RemoveFacts
  <2> QED
    BY <2>2, <1>1
<1>3. CASE AddIndexer(a, b) /\ ~RemoveIndexer(a, b)
  <2>1. /\ ~Contains(allowlist, b)
        /\ Len(allowlist) < MAX_INDEXERS
        /\ allowlist' = Append(allowlist, b)
    BY <1>3 DEF AddIndexer
  <2>2. /\ allowlist' \in Seq(Accounts)
        /\ Len(allowlist') = Len(allowlist) + 1
        /\ Distinct(allowlist')
    BY <2>1, <1>1, AppendFacts
  <2> QED
    BY <2>1, <2>2, <1>1, <1>3
<1> QED
  BY <1>2, <1>3

\* register_contract: the list grows by an id that was not on it.
LEMMA RegisterStep ==
    ASSUME IInv, NEW a \in Accounts, NEW id \in ContractIds, NEW m \in ContractMeta,
           RegisterContract(a, id, m)
    PROVE  /\ meta' \in [ContractIds -> ContractMeta \cup {NoEntry}]
           /\ contractList' \in Seq(ContractIds)
           /\ Listed'
<1> DEFINE l == contractList
           t == Append(l, id)
<1>1. /\ meta \in [ContractIds -> ContractMeta \cup {NoEntry}]
      /\ l \in Seq(ContractIds)
      /\ Len(l) \in Nat
      /\ \A i \in 1 .. Len(l) : l[i] \in ContractIds
      /\ Listed
  BY LenProperties, ElementOfSeq DEF IInv, ExplorerTypeOK
<1>2. /\ meta[id] = NoEntry
      /\ meta' = [meta EXCEPT ![id] = m]
      /\ contractList' = t
  BY DEF RegisterContract
<1>3. ~Contains(l, id)
  BY <1>1, <1>2 DEF Contains, Listed
<1>4. /\ t \in Seq(ContractIds)
      /\ Len(t) = Len(l) + 1
      /\ \A i \in 1 .. Len(l) : t[i] = l[i]
      /\ t[Len(l) + 1] = id
      /\ Distinct(t)
  BY <1>1, <1>3, AppendFacts DEF Listed
<1> HIDE DEF t
<1>5. m # NoEntry
  BY RecordAssumption
<1>6. \A c \in ContractIds : meta'[c] = IF c = id THEN m ELSE meta[c]
  BY <1>1, <1>2
<1>7. \A i \in 1 .. Len(t) : meta'[t[i]] # NoEntry
  <2> TAKE i \in 1 .. Len(t)
  <2>1. CASE i \in 1 .. Len(l)
    BY <2>1, <1>1, <1>4, <1>5, <1>6 DEF Listed
  <2>2. CASE i = Len(l) + 1
    BY <2>2, <1>4, <1>5, <1>6
  <2> QED
    BY <2>1, <2>2, <1>1, <1>4
<1>8. \A c \in ContractIds : meta'[c] # NoEntry => Contains(t, c)
  <2> SUFFICES ASSUME NEW c \in ContractIds, meta'[c] # NoEntry
               PROVE  \E i \in 1 .. Len(t) : t[i] = c
    BY DEF Contains
  <2>1. CASE c = id
    <3>1. Len(l) + 1 \in 1 .. Len(t)
      BY <1>1, <1>4
    <3> QED
      BY <2>1, <3>1, <1>4
  <2>2. CASE c # id
    <3>1. PICK i \in 1 .. Len(l) : l[i] = c
      BY <2>2, <1>1, <1>6 DEF Listed, Contains
    <3>2. i \in 1 .. Len(t)
      BY <1>1, <1>4
    <3> QED
      BY <3>1, <3>2, <1>4
  <2> QED
    BY <2>1, <2>2
<1>9. meta' \in [ContractIds -> ContractMeta \cup {NoEntry}]
  BY <1>1, <1>2
<1> QED
  BY <1>2, <1>4, <1>7, <1>8, <1>9 DEF Listed

\* update_contract: the same ids stay registered.
LEMMA UpdateStep ==
    ASSUME IInv, NEW a \in Accounts, NEW id \in ContractIds, NEW m \in ContractMeta,
           UpdateContract(a, id, m)
    PROVE  /\ meta' \in [ContractIds -> ContractMeta \cup {NoEntry}]
           /\ Listed'
<1>1. /\ meta \in [ContractIds -> ContractMeta \cup {NoEntry}]
      /\ \A i \in 1 .. Len(contractList) : contractList[i] \in ContractIds
      /\ Listed
  BY ElementOfSeq DEF IInv, ExplorerTypeOK
<1>2. /\ meta[id] # NoEntry
      /\ meta' = [meta EXCEPT ![id] = m]
      /\ contractList' = contractList
  BY DEF UpdateContract
<1>3. m # NoEntry
  BY RecordAssumption
<1>4. \A c \in ContractIds : meta'[c] = IF c = id THEN m ELSE meta[c]
  BY <1>1, <1>2
<1>5. meta' \in [ContractIds -> ContractMeta \cup {NoEntry}]
  BY <1>1, <1>2
<1>6. \A i \in 1 .. Len(contractList) : meta'[contractList[i]] # NoEntry
  BY <1>1, <1>3, <1>4 DEF Listed
<1>7. \A c \in ContractIds : meta'[c] # NoEntry => Contains(contractList, c)
  BY <1>1, <1>2, <1>4 DEF Listed
<1> QED
  BY <1>1, <1>2, <1>5, <1>6, <1>7 DEF Listed

\* submit_event writes an event at the number it read.
LEMMA SubmitStep ==
    ASSUME IInv, NEW a \in Accounts, NEW id \in ContractIds, NEW w \in BOOLEAN,
           SubmitEvent(a, id, w)
    PROVE  /\ eventLog' \in [0 .. MaxEvents -> DecodedEvent \cup {NoEntry}]
           /\ instanceSeq' \in Nat
<1>1. event_seq \in Nat
  BY ExplorerAssumption DEF IInv, ExplorerTypeOK, SubmitEvent, HasEventSeq, event_seq
<1> DEFINE e == [seq |-> event_seq, contract_id |-> id]
<1>2. e \in DecodedEvent
  BY <1>1 DEF DecodedEvent
<1>3. /\ eventLog' = [eventLog EXCEPT ![event_seq] = e]
      /\ instanceSeq' = event_seq + 1
  BY DEF SubmitEvent
<1>4. eventLog \in [0 .. MaxEvents -> DecodedEvent \cup {NoEntry}]
  BY DEF IInv, ExplorerTypeOK
<1> HIDE DEF e
<1>5. eventLog' \in [0 .. MaxEvents -> DecodedEvent \cup {NoEntry}]
  <2>1. e \in DecodedEvent \cup {NoEntry}
    BY <1>2
  <2> HIDE <1>2
  <2> QED
    BY <2>1, <1>3, <1>4
<1>6. instanceSeq' \in Nat
  BY <1>1, <1>3
<1> QED
  BY <1>5, <1>6

\* Every transaction preserves the invariant.
LEMMA NextIInv == IInv /\ [ExplorerNext]_explorerVars => IInv'
<1> SUFFICES ASSUME IInv, [ExplorerNext]_explorerVars PROVE IInv'
  OBVIOUS
<1> USE DEF IInv, ExplorerTypeOK
<1>1. ASSUME NEW a \in Accounts, InitExplorer(a) PROVE IInv'
  BY <1>1 DEF InitExplorer, entryVars, CouncilInvariant, Listed
<1>2. ASSUME NEW a \in Accounts, NEW b \in Accounts, TransferAdmin(a, b) PROVE IInv'
  BY <1>2 DEF TransferAdmin, entryVars, eventVars, CouncilInvariant, Listed
<1>3. ASSUME NEW a \in Accounts, NEW b \in Accounts, AddIndexer(a, b) \/ RemoveIndexer(a, b)
      PROVE  IInv'
  <2>1. /\ allowlist' \in Seq(Accounts)
        /\ Len(allowlist') <= MAX_INDEXERS
        /\ Distinct(allowlist')
    BY <1>3, AllowlistStep
  <2>2. UNCHANGED <<admin, council, meta, contractList, eventLog, persistentSeq, instanceSeq>>
    BY <1>3 DEF AddIndexer, RemoveIndexer, entryVars, eventVars
  <2> QED
    BY <2>1, <2>2 DEF CouncilInvariant, Listed
<1>4. ASSUME NEW a \in Accounts, NEW b \in Accounts, NEW n \in 0 .. MAX_COUNCIL_MEMBERS + 1,
             AddCouncilMember(a, b) \/ RemoveCouncilMember(a, b) \/ SetCouncilThreshold(a, n)
      PROVE  IInv'
  <2>1. /\ council' \in CouncilConfig
        /\ Len(council'.members) <= MAX_COUNCIL_MEMBERS
        /\ CouncilInvariant'
        /\ Distinct(council'.members)
    BY <1>4, CouncilStep
  <2>2. UNCHANGED <<admin, allowlist, meta, contractList, eventLog, persistentSeq, instanceSeq>>
    BY <1>4 DEF AddCouncilMember, RemoveCouncilMember, SetCouncilThreshold,
                entryVars, eventVars
  <2> QED
    BY <2>1, <2>2 DEF Listed
<1>5. ASSUME NEW a \in Accounts, NEW id \in ContractIds, NEW m \in ContractMeta,
             RegisterContract(a, id, m)
      PROVE  IInv'
  <2>1. /\ meta' \in [ContractIds -> ContractMeta \cup {NoEntry}]
        /\ contractList' \in Seq(ContractIds)
        /\ Listed'
    BY <1>5, RegisterStep
  <2>2. UNCHANGED <<admin, allowlist, council, eventLog, persistentSeq, instanceSeq>>
    BY <1>5 DEF RegisterContract, eventVars
  <2> QED
    BY <2>1, <2>2 DEF CouncilInvariant
<1>6. ASSUME NEW a \in Accounts, NEW id \in ContractIds, NEW m \in ContractMeta,
             UpdateContract(a, id, m)
      PROVE  IInv'
  <2>1. meta' \in [ContractIds -> ContractMeta \cup {NoEntry}] /\ Listed'
    BY <1>6, UpdateStep
  <2>2. UNCHANGED <<admin, allowlist, council, contractList, eventLog, persistentSeq, instanceSeq>>
    BY <1>6 DEF UpdateContract, eventVars
  <2> QED
    BY <2>1, <2>2 DEF CouncilInvariant
<1>7. ASSUME NEW a \in Accounts, NEW id \in ContractIds, NEW w \in BOOLEAN, SubmitEvent(a, id, w)
      PROVE  IInv'
  <2>1. /\ eventLog' \in [0 .. MaxEvents -> DecodedEvent \cup {NoEntry}]
        /\ instanceSeq' \in Nat
    BY <1>7, SubmitStep
  <2>2. UNCHANGED <<admin, allowlist, council, meta, contractList, persistentSeq>>
    BY <1>7 DEF SubmitEvent, entryVars
  <2> QED
    BY <2>1, <2>2 DEF CouncilInvariant, Listed
<1>8. CASE UNCHANGED explorerVars
  BY <1>8 DEF explorerVars, entryVars, eventVars, CouncilInvariant, Listed
<1>9. 1 \in 0 .. MAX_COUNCIL_MEMBERS + 1
  BY ExplorerAssumption
<1> QED
  BY <1>1, <1>2, <1>3, <1>4, <1>5, <1>6, <1>7, <1>8, <1>9 DEF ExplorerNext

----------------------------------------------------------------------------
(* Theorems.                                                               *)

\* The invariant holds of the contract under every sequence of transactions.
THEOREM ExplorerInvariance == ExplorerSpec => []IInv
BY InitIInv, NextIInv, PTL DEF ExplorerSpec

\* The types hold, the limits on the allowlist and on the council included.
THEOREM ExplorerTypes == ExplorerSpec => []ExplorerTypeOK
<1>1. IInv => ExplorerTypeOK
  BY DEF IInv
<1> QED
  BY <1>1, ExplorerInvariance, PTL

\* The invariant that CouncilConfig documents: the threshold of a council is
\* at least one and within the reach of its members.
THEOREM CouncilIsSound == ExplorerSpec => []CouncilInvariant
<1>1. IInv => CouncilInvariant
  BY DEF IInv
<1> QED
  BY <1>1, ExplorerInvariance, PTL

\* No sequence of removals takes the last member of a council away.
THEOREM CouncilStays == ExplorerSpec => CouncilIsNeverDissolved
<1>1. ASSUME IInv, [ExplorerNext]_explorerVars
      PROVE  council.members # <<>> => council'.members # <<>>
  <2> SUFFICES ASSUME council.members # <<>>, council' # council
               PROVE  council'.members # <<>>
    OBVIOUS
  <2>1. 1 \in 0 .. MAX_COUNCIL_MEMBERS + 1
    BY ExplorerAssumption
  <2>2. \E a, b \in Accounts, n \in 0 .. MAX_COUNCIL_MEMBERS + 1 :
            AddCouncilMember(a, b) \/ RemoveCouncilMember(a, b) \/ SetCouncilThreshold(a, n)
    BY <1>1, <2>1 DEF ExplorerNext, explorerVars, InitExplorer, TransferAdmin, AddIndexer, RemoveIndexer,
                      RegisterContract, UpdateContract, SubmitEvent
  <2> QED
    BY <1>1, <2>2, CouncilStep
<1> QED
  BY <1>1, ExplorerInvariance, PTL DEF ExplorerSpec, CouncilIsNeverDissolved

\* One remove_indexer call is enough to revoke an indexer.
THEOREM RevocationHolds == ExplorerSpec => RevocationIsComplete
<1>1. ASSUME IInv
      PROVE  \A u \in Accounts : (\E a \in Accounts : RemoveIndexer(a, u)) => ~Contains(allowlist', u)
  BY <1>1, AllowlistStep
<1> QED
  BY <1>1, ExplorerInvariance, PTL DEF RevocationIsComplete

\* get_contracts lists exactly the registered contracts, each once.
THEOREM ListIsExact == ExplorerSpec => []ListMatchesRegistry
<1>1. ASSUME IInv PROVE ListMatchesRegistry
  <2>1. /\ contractList \in Seq(ContractIds)
        /\ DOMAIN contractList = 1 .. Len(contractList)
        /\ \A i \in 1 .. Len(contractList) : contractList[i] \in ContractIds
        /\ Listed
    BY <1>1, LenProperties, ElementOfSeq DEF IInv, ExplorerTypeOK
  <2>2. Range(contractList) = {id \in ContractIds : meta[id] # NoEntry}
    BY <2>1 DEF Range, Listed, Contains
  <2>3. IsInjective(contractList)
    BY <2>1 DEF IsInjective, Listed, Distinct
  <2> QED
    BY <2>2, <2>3 DEF ListMatchesRegistry
<1> QED
  BY <1>1, ExplorerInvariance, PTL

----------------------------------------------------------------------------
(* The betting pool.  A bet slip holds what it was quoted as long as only   *)
(* its own side is bet on: the odds of a side grow with it, unless it was    *)
(* empty beside a pool that was not.  There is no more to the arithmetic    *)
(* than floor division, and saturation only moves totals up.                *)

\* The smaller of two numbers.
LEMMA MinOfTwo ==
  ASSUME NEW a \in Int, NEW b \in Int
  PROVE  Min({a, b}) = IF a <= b THEN a ELSE b
<1>1. PICK m : m = IF a <= b THEN a ELSE b
  OBVIOUS
<1>2. m \in {a, b} /\ \A y \in {a, b} : m <= y
  BY <1>1
<1>3. \A x \in {a, b} : (\A y \in {a, b} : x <= y) => x = m
  BY <1>1
<1>4. Min({a, b}) = m
  BY <1>2, <1>3 DEF Min
<1> QED BY <1>1, <1>4

LEMMA MaxOfTwo ==
  ASSUME NEW a \in Int, NEW b \in Int
  PROVE  Max({a, b}) = IF a >= b THEN a ELSE b
<1>1. PICK m : m = IF a >= b THEN a ELSE b
  OBVIOUS
<1>2. m \in {a, b} /\ \A y \in {a, b} : m >= y
  BY <1>1
<1>3. \A x \in {a, b} : (\A y \in {a, b} : x >= y) => x = m
  BY <1>1
<1>4. Max({a, b}) = m
  BY <1>2, <1>3 DEF Max
<1> QED BY <1>1, <1>4

LEMMA Quotient ==
  ASSUME NEW n \in Nat, NEW d \in Nat, d > 0
  PROVE  /\ n \div d \in Nat /\ d * (n \div d) <= n /\ n < d * (n \div d) + d
OBVIOUS

LEMMA QuotientAtLeast ==
  ASSUME NEW n \in Nat, NEW d \in Nat, d > 0, NEW q \in Nat, d * q <= n
  PROVE  q <= n \div d
<1> DEFINE z == n \div d
<1>1. z \in Nat /\ n < d * z + d
  BY Quotient
<1> HIDE DEF z
<1>2. SUFFICES ASSUME q > z PROVE FALSE
  BY <1>1
<1>3. q >= z + 1
  BY <1>1, <1>2
<1>4. d * q >= d * (z + 1)
  BY <1>1, <1>3, SMTT(30)
<1>5. d * (z + 1) = d * z + d
  BY <1>1, SMTT(30)
<1> QED BY <1>1, <1>4, <1>5

\* While nobody has bet against it, the slip's bet is accepted, unless its odds are rounded to 0.
SlipHolds ==
  slip.pc = "quoted" =>
    /\ slip.min >= 1
    /\ ~slip.against /\ Unsaturated =>
         \/ compute_odds(pool, slip.side) >= slip.min
         \/ compute_odds(pool, slip.side) = 0 /\ slip.min = 1

PoolInv == PoolTypeOK /\ SlipHolds /\ RefusedForAReason

PoolType == [Sides -> 0 .. MaxPool]

\* The odds of a side that holds a, the other one holding b, without the ends of an i128.
Ratio(a, b) == IF a + b = 0 THEN Bps \div 2 ELSE IF a = 0 THEN 1 ELSE (a * Bps) \div (a + b)

LEMMA PoolConstants ==
  /\ MaxPool \in Nat /\ MaxPool >= 1 /\ Bps \in Nat /\ Bps >= 1
  /\ \A x \in Stakes : x \in Nat /\ x >= 1 /\ x <= MaxPool
  /\ \A x \in Tolerances : x \in Nat /\ x <= 100
BY PoolAssumption

LEMMA SaturatingFacts ==
  ASSUME NEW n \in Nat
  PROVE  /\ saturating(n) \in Nat /\ saturating(n) <= MaxPool /\ saturating(n) <= n
         /\ n <= MaxPool => saturating(n) = n
         /\ n > 0 => saturating(n) > 0
         /\ \A x \in 0 .. MaxPool : x <= n => x <= saturating(n)
BY MinOfTwo, PoolConstants DEF saturating

LEMMA OddsAreBps ==
  ASSUME NEW p \in PoolType, NEW side \in Sides
  PROVE  compute_odds(p, side) \in 0 .. Bps
<1>1. /\ p["yes"] \in Nat /\ p["no"] \in Nat /\ p[side] \in Nat /\ p[side] * Bps \in Nat
  BY PoolConstants DEF PoolType, Sides
<1> DEFINE total == saturating(p["yes"] + p["no"])
           stake == saturating(p[side] * Bps)
<1>2. total \in Nat /\ stake \in Nat
  BY <1>1, SaturatingFacts
<1>3. CASE total = 0
  <2>1. Bps \div 2 \in 0 .. Bps
    BY PoolConstants
  <2> QED BY <1>3, <2>1 DEF compute_odds
<1>4. CASE total # 0 /\ p[side] = 0
  BY <1>4, PoolConstants DEF compute_odds
<1>5. CASE total # 0 /\ p[side] # 0
  <2> HIDE DEF total, stake
  <2>1. stake \div total \in Nat
    BY <1>2, <1>5, Quotient
  <2>2. Min({stake \div total, Bps}) \in 0 .. Bps
    BY <2>1, PoolConstants, MinOfTwo
  <2>3. compute_odds(p, side) = Min({stake \div total, Bps})
    BY <1>5 DEF compute_odds, total, stake
  <2> QED BY <2>2, <2>3
<1> QED BY <1>3, <1>4, <1>5

\* A part of the whole is at most Bps of it, and no less when that part grows.
LEMMA PartOfWhole ==
  ASSUME NEW a \in Nat, NEW b \in Nat, a > 0
  PROVE  (a * Bps) \div (a + b) \in 0 .. Bps
<1>1. a * Bps \in Nat /\ a + b \in Nat /\ a + b > 0 /\ Bps \in Nat
  BY PoolConstants
<1> DEFINE q == (a * Bps) \div (a + b)
<1>2. q \in Nat /\ (a + b) * q <= a * Bps
  BY <1>1, Quotient
<1> HIDE DEF q
<1>3. SUFFICES ASSUME q >= Bps + 1 PROVE FALSE
  BY <1>1, <1>2 DEF q
<1>4. (a + b) * q >= (a + b) * (Bps + 1)
  BY <1>1, <1>2, <1>3, SMTT(30)
<1>5. (a + b) * (Bps + 1) = a * Bps + b * Bps + a + b
  BY <1>1, SMTT(30)
<1>6. b * Bps >= 0
  BY <1>1, SMTT(30)
<1> QED BY <1>1, <1>2, <1>4, <1>5, <1>6

LEMMA PartGrows ==
  ASSUME NEW a \in Nat, NEW b \in Nat, NEW x \in Nat, a > 0
  PROVE  (a * Bps) \div (a + b) <= ((a + x) * Bps) \div ((a + x) + b)
<1> DEFINE q == (a * Bps) \div (a + b)
<1>1. /\ Bps \in Nat /\ a * Bps \in Nat /\ a + b \in Nat /\ a + b > 0
      /\ (a + x) * Bps \in Nat /\ (a + x) + b \in Nat /\ (a + x) + b > 0
  BY PoolConstants
<1>2. q \in Nat /\ q <= Bps /\ (a + b) * q <= a * Bps
  BY <1>1, PartOfWhole, Quotient
<1> HIDE DEF q
<1>3. x * q <= x * Bps
  BY <1>1, <1>2, SMTT(30)
<1>4. ((a + x) + b) * q = (a + b) * q + x * q
  BY <1>1, <1>2, SMTT(30)
<1>5. (a + x) * Bps = a * Bps + x * Bps
  BY <1>1, SMTT(30)
<1>6. ((a + x) + b) * q <= (a + x) * Bps
  <2>1. x * q \in Int /\ x * Bps \in Int /\ (a + b) * q \in Int
    BY <1>1, <1>2
  <2> QED BY <1>1, <1>2, <1>3, <1>4, <1>5, <2>1
<1>7. q <= ((a + x) * Bps) \div ((a + x) + b)
  BY <1>1, <1>2, <1>6, QuotientAtLeast
<1> QED BY <1>7 DEF q

other(side) == IF side = "yes" THEN "no" ELSE "yes"

LEMMA UnsaturatedOdds ==
  ASSUME NEW p \in PoolType, NEW side \in Sides,
         p["yes"] + p["no"] <= MaxPool, p[side] * Bps <= MaxPool
  PROVE  compute_odds(p, side) = Ratio(p[side], p[other(side)])
<1> DEFINE a == p[side]
           b == p[other(side)]
<1>1. a \in Nat /\ b \in Nat /\ p["yes"] + p["no"] = a + b /\ a * Bps \in Nat
  BY PoolConstants DEF PoolType, Sides, other
<1>2. saturating(p["yes"] + p["no"]) = a + b /\ saturating(p[side] * Bps) = a * Bps
  BY <1>1, SaturatingFacts
<1>3. compute_odds(p, side) = IF a + b = 0 THEN Bps \div 2 ELSE IF a = 0 THEN 1
                              ELSE Min({(a * Bps) \div (a + b), Bps})
  BY <1>2 DEF compute_odds
<1>4. ASSUME a + b # 0, a # 0
      PROVE  Min({(a * Bps) \div (a + b), Bps}) = (a * Bps) \div (a + b)
  <2>1. (a * Bps) \div (a + b) \in 0 .. Bps
    BY <1>1, <1>4, PartOfWhole
  <2> HIDE DEF a, b
  <2> QED BY <2>1, PoolConstants, MinOfTwo
<1> QED BY <1>3, <1>4 DEF Ratio

\* A bet on a side of the pool lowers its odds in one case only: the side was empty and the
\* other one was not.  Then they were 1 and become whatever the part is.
LEMMA OwnBet ==
  ASSUME NEW a \in Nat, NEW b \in Nat, NEW x \in Nat
  PROVE  /\ Ratio(a, b) \in Nat /\ Ratio(a + x, b) \in Nat
         /\ Ratio(a + x, b) >= Ratio(a, b) \/ (Ratio(a, b) = 1 /\ Ratio(a + x, b) = 0)
<1>1. Bps \in Nat /\ Bps >= 1 /\ Bps \div 2 \in Nat /\ Bps \div 2 <= Bps
  BY PoolConstants
<1>2. \A c \in Nat : c > 0 =>
        Ratio(c, b) = (c * Bps) \div (c + b) /\ Ratio(c, b) \in 0 .. Bps
  <2> SUFFICES ASSUME NEW c \in Nat, c > 0
               PROVE  Ratio(c, b) = (c * Bps) \div (c + b) /\ Ratio(c, b) \in 0 .. Bps
    OBVIOUS
  <2>1. c + b # 0 /\ c # 0
    OBVIOUS
  <2> QED BY <2>1, PartOfWhole DEF Ratio
<1>3. a + x \in Nat /\ Ratio(0, b) \in Nat
  BY <1>1 DEF Ratio
<1>4. CASE x = 0
  BY <1>2, <1>3, <1>4
<1>5. CASE x > 0 /\ a > 0
  <2>1. (a * Bps) \div (a + b) <= ((a + x) * Bps) \div ((a + x) + b)
    BY <1>5, PartGrows
  <2> QED BY <1>2, <1>3, <1>5, <2>1
<1>6. CASE x > 0 /\ a = 0 /\ b > 0
  <2>1. Ratio(a, b) = 1
    BY <1>6 DEF Ratio
  <2>2. Ratio(a + x, b) \in 0 .. Bps
    BY <1>2, <1>6
  <2> QED BY <1>1, <2>1, <2>2
<1>7. CASE x > 0 /\ a = 0 /\ b = 0
  <2>1. Ratio(a, b) = Bps \div 2
    BY <1>7 DEF Ratio
  <2>2. a + x = x /\ x + b = x /\ x * Bps \in Nat
    BY <1>1, <1>7
  <2>3. Ratio(a + x, b) = (x * Bps) \div x /\ Ratio(a + x, b) \in Nat
    BY <1>1, <1>2, <1>7, <2>2
  <2>4. Bps <= (x * Bps) \div x
    BY <1>1, <1>7, <2>2, QuotientAtLeast
  <2> QED BY <1>1, <2>1, <2>3, <2>4
<1> QED BY <1>4, <1>5, <1>6, <1>7

LEMMA PoolTypes ==
  ASSUME PoolInv
  PROVE  /\ pool \in PoolType /\ slip \in Slip /\ slip.side \in Sides /\ slip.min \in 0 .. Bps
         /\ slip.against \in BOOLEAN /\ pool["yes"] \in Nat /\ pool["no"] \in Nat
         /\ compute_odds(pool, slip.side) \in 0 .. Bps
<1>1. pool \in PoolType /\ slip \in Slip
  BY DEF PoolInv, PoolTypeOK, PoolType
<1>2. slip.side \in Sides /\ slip.min \in 0 .. Bps /\ slip.against \in BOOLEAN
  BY <1>1 DEF Slip
<1>3. pool["yes"] \in Nat /\ pool["no"] \in Nat
  BY <1>1 DEF PoolType, Sides
<1> QED BY <1>1, <1>2, <1>3, OddsAreBps

LEMMA PoolInitial == PoolInit => PoolInv
<1> SUFFICES ASSUME PoolInit PROVE PoolInv
  OBVIOUS
<1>1. pool \in [Sides -> 0 .. MaxPool]
  BY PoolConstants DEF PoolInit
<1>2. slip \in Slip /\ slip.pc = "empty"
  BY PoolConstants DEF PoolInit, EmptySlip, Slip, Sides, NoOdds
<1> QED BY <1>1, <1>2 DEF PoolInv, PoolTypeOK, SlipHolds, RefusedForAReason

\* What a bet does to the totals.
LEMMA BetFacts ==
  ASSUME PoolInv, NEW side \in Sides, NEW amount \in Stakes, Bet(side, amount)
  PROVE  /\ pool' \in PoolType /\ pool'[side] = saturating(pool[side] + amount)
         /\ \A s \in Sides : s # side => pool'[s] = pool[s]
         /\ \A s \in Sides : pool'[s] >= pool[s]
<1>1. pool \in PoolType /\ pool[side] \in 0 .. MaxPool /\ amount \in Nat
  BY PoolTypes, PoolConstants DEF PoolType
<1>2. /\ pool[side] + amount \in Nat /\ saturating(pool[side] + amount) \in 0 .. MaxPool
      /\ pool[side] <= saturating(pool[side] + amount)
  BY <1>1, SaturatingFacts, PoolConstants
<1>3. pool' = [pool EXCEPT ![side] = saturating(pool[side] + amount)]
  BY <1>1 DEF Bet
<1>4. \A s \in Sides : pool[s] \in Nat
  BY <1>1 DEF PoolType
<1> QED BY <1>1, <1>2, <1>3, <1>4 DEF PoolType

\* Totals only grow, so that pools once saturated stay so.
LEMMA UnsaturatedBefore ==
  ASSUME PoolInv, pool' \in PoolType, \A s \in Sides : pool'[s] >= pool[s], slip'.side = slip.side,
         Unsaturated'
  PROVE  Unsaturated
<1>1. \A s \in Sides : pool[s] \in Nat /\ pool'[s] \in Nat
  BY PoolTypes DEF PoolType
<1>2. slip.side \in Sides /\ "yes" \in Sides /\ "no" \in Sides
  BY PoolTypes DEF Sides
<1>3. pool'["yes"] + pool'["no"] <= MaxPool /\ pool'[slip.side] * Bps <= MaxPool
  BY DEF Unsaturated
<1>4. pool["yes"] + pool["no"] <= MaxPool
  BY <1>1, <1>2, <1>3, PoolConstants
<1>5. pool[slip.side] * Bps <= MaxPool
  <2> DEFINE old == pool[slip.side]
             d == pool'[slip.side] - old
  <2>1. old \in Nat /\ d \in Nat /\ pool'[slip.side] = old + d /\ Bps \in Nat
    BY <1>1, <1>2, PoolConstants
  <2>2. (old + d) * Bps <= MaxPool
    BY <1>3, <2>1
  <2> HIDE DEF old, d
  <2>3. (old + d) * Bps = old * Bps + d * Bps
    BY <2>1, SMTT(30)
  <2>4. d * Bps \in Nat /\ old * Bps \in Nat
    BY <2>1
  <2>5. old * Bps <= MaxPool
    BY <2>2, <2>3, <2>4, PoolConstants
  <2> QED BY <2>5 DEF old
<1> QED BY <1>4, <1>5 DEF Unsaturated

LEMMA PlaceBetStep ==
  ASSUME PoolInv, NEW side \in Sides, NEW amount \in Stakes, NEW min \in 0 .. Bps,
         place_bet(side, amount, min)
  PROVE  PoolInv'
<1>1. /\ Bet(side, amount)
      /\ slip' = [slip EXCEPT !.against = @ \/ (slip.pc = "quoted" /\ side # slip.side)]
  BY DEF place_bet
<1>2. /\ slip' \in Slip /\ slip'.pc = slip.pc /\ slip'.side = slip.side /\ slip'.min = slip.min
      /\ slip'.got = slip.got
      /\ ~slip'.against => ~slip.against /\ (slip.pc = "quoted" => side = slip.side)
      /\ slip.against => slip'.against
  <2>1. PICK ag \in BOOLEAN : /\ ag = (slip.against \/ (slip.pc = "quoted" /\ side # slip.side))
                              /\ slip' = [slip EXCEPT !.against = ag]
    BY <1>1
  <2>2. /\ slip' \in Slip /\ slip'.pc = slip.pc /\ slip'.side = slip.side /\ slip'.min = slip.min
        /\ slip'.got = slip.got /\ slip'.against = ag
    BY <2>1, PoolTypes DEF Slip
  <2> QED BY <2>1, <2>2
<1>3. /\ pool' \in PoolType /\ pool'[side] = saturating(pool[side] + amount)
      /\ \A s \in Sides : s # side => pool'[s] = pool[s]
      /\ \A s \in Sides : pool'[s] >= pool[s]
  BY <1>1, BetFacts
<1>4. Unsaturated' => Unsaturated
  BY <1>2, <1>3, UnsaturatedBefore
<1>5. PoolTypeOK'
  BY <1>2, <1>3 DEF PoolTypeOK, PoolType
<1>6. RefusedForAReason'
  BY <1>2, <1>4 DEF PoolInv, RefusedForAReason
<1>7. SlipHolds'
  <2> SUFFICES ASSUME slip.pc = "quoted"
               PROVE  /\ slip.min >= 1
                      /\ ~slip'.against /\ Unsaturated' =>
                           \/ compute_odds(pool', slip.side) >= slip.min
                           \/ compute_odds(pool', slip.side) = 0 /\ slip.min = 1
    BY <1>2 DEF SlipHolds
  <2>1. slip.min >= 1
    BY DEF PoolInv, SlipHolds
  <2>2. SUFFICES ASSUME ~slip'.against, Unsaturated'
                 PROVE  \/ compute_odds(pool', side) >= slip.min
                        \/ compute_odds(pool', side) = 0 /\ slip.min = 1
    BY <1>2, <2>1
  <2>3. side = slip.side /\ Unsaturated /\ ~slip.against
    BY <1>2, <1>4, <2>2
  <2> DEFINE a == pool[side]
             b == pool[other(side)]
  <2>4. /\ pool["yes"] + pool["no"] <= MaxPool /\ a * Bps <= MaxPool
        /\ pool'["yes"] + pool'["no"] <= MaxPool /\ pool'[side] * Bps <= MaxPool
    BY <1>2, <2>2, <2>3 DEF Unsaturated
  <2>5. other(side) \in Sides /\ other(side) # side /\ a \in Nat /\ b \in Nat
    BY PoolTypes DEF other, Sides, PoolType
  <2>6. PICK x \in Nat : pool'[side] = a + x
    <3>1. pool'[side] \in Nat /\ pool'[side] >= a
      BY <1>3 DEF PoolType
    <3>2. pool'[side] - a \in Nat /\ pool'[side] = a + (pool'[side] - a)
      BY <2>5, <3>1
    <3> QED BY <3>2
  <2>7. compute_odds(pool, side) = Ratio(a, b)
    BY <2>4, PoolTypes, UnsaturatedOdds
  <2>8. compute_odds(pool', side) = Ratio(a + x, b)
    <3>1. pool'[other(side)] = b
      BY <1>3, <2>5
    <3> HIDE DEF a, b
    <3> QED BY <1>3, <2>4, <2>6, <3>1, UnsaturatedOdds
  <2>9. \/ Ratio(a, b) >= slip.min
        \/ Ratio(a, b) = 0 /\ slip.min = 1
    BY <2>3, <2>7 DEF PoolInv, SlipHolds
  <2>10. /\ Ratio(a, b) \in Nat /\ Ratio(a + x, b) \in Nat
         /\ Ratio(a + x, b) >= Ratio(a, b) \/ (Ratio(a, b) = 1 /\ Ratio(a + x, b) = 0)
    BY <2>5, OwnBet
  <2>11. slip.min \in Nat
    BY PoolTypes, PoolConstants
  <2> HIDE DEF a, b
  <2> QED BY <2>1, <2>8, <2>9, <2>10, <2>11
<1> QED BY <1>5, <1>6, <1>7 DEF PoolInv

\* What the slip accepts is at least 1 and no more than it was quoted, unless that is 0.
LEMMA MinOddsFacts ==
  ASSUME NEW odds \in 0 .. Bps, NEW tolerance \in Tolerances,
         NEW min \in calculateMinOdds(odds, tolerance)
  PROVE  min \in 0 .. Bps /\ min >= 1 /\ (odds = 0 => min = 1) /\ (odds > 0 => min <= odds)
<1>1. odds \in Nat /\ odds <= Bps /\ tolerance \in Nat /\ 100 - tolerance \in Nat
  BY PoolConstants
<1>2. CASE odds = 0
  BY <1>1, <1>2, PoolConstants DEF calculateMinOdds
<1>3. CASE odds > 0
  <2> DEFINE exact == (odds * (100 - tolerance)) \div 100
  <2>1. odds * (100 - tolerance) \in Nat
    BY <1>1
  <2>2. exact \in Int
    BY <2>1, Quotient
  <2> HIDE DEF exact
  <2>3. PICK m \in {exact, exact - 1} : min = Max({1, Min({m, odds})})
    <3>1. ~(odds <= 0)
      BY <1>1, <1>3
    <3>2. PICK S \in SUBSET {exact, exact - 1} : min \in {Max({1, Min({m, odds})}) : m \in S}
      BY <3>1 DEF calculateMinOdds, exact
    <3> QED BY <3>2
  <2>4. m \in Int
    BY <2>2
  <2>5. Min({m, odds}) \in Int /\ Min({m, odds}) <= odds
    BY <1>1, <2>4, MinOfTwo
  <2>6. min = IF 1 >= Min({m, odds}) THEN 1 ELSE Min({m, odds})
    <3> DEFINE low == Min({m, odds})
    <3>1. low \in Int /\ 1 \in Int
      BY <2>5
    <3> HIDE DEF low
    <3>2. Max({1, low}) = IF 1 >= low THEN 1 ELSE low
      BY <3>1, MaxOfTwo
    <3> QED BY <2>3, <3>2 DEF low
  <2> QED BY <1>1, <1>3, <2>5, <2>6, PoolConstants
<1> QED BY <1>1, <1>2, <1>3

LEMMA QuoteStep ==
  ASSUME PoolInv, NEW side \in Sides, NEW tolerance \in Tolerances, Quote(side, tolerance)
  PROVE  PoolInv'
<1> DEFINE odds == compute_odds(pool, side)
<1>1. odds \in 0 .. Bps
  BY PoolTypes, OddsAreBps
<1>2. PICK min \in calculateMinOdds(odds, tolerance) :
        /\ slip' = [EmptySlip EXCEPT !.pc = "quoted", !.side = side, !.quoted = odds, !.min = min]
        /\ pool' = pool
  BY DEF Quote
<1>3. min \in 0 .. Bps /\ min >= 1 /\ (odds = 0 => min = 1) /\ (odds > 0 => min <= odds)
  BY <1>1, MinOddsFacts
<1> HIDE DEF odds
<1>4. /\ slip' \in Slip /\ slip'.pc = "quoted" /\ slip'.side = side /\ slip'.min = min
  BY <1>1, <1>2, <1>3 DEF EmptySlip, Slip, NoOdds
<1>5. PoolTypeOK' /\ RefusedForAReason'
  BY <1>2, <1>4 DEF PoolInv, PoolTypeOK, RefusedForAReason
<1>6. compute_odds(pool', slip'.side) = odds
  BY <1>2, <1>4 DEF odds
<1>7. SlipHolds'
  BY <1>1, <1>3, <1>4, <1>6, PoolConstants DEF SlipHolds
<1> QED BY <1>5, <1>7 DEF PoolInv

LEMMA ProtectedBetStep ==
  ASSUME PoolInv, NEW amount \in Stakes, PlaceProtectedBet(amount)
  PROVE  PoolInv'
<1> DEFINE odds == compute_odds(pool, slip.side)
<1>1. odds \in 0 .. Bps /\ slip \in Slip /\ slip.side \in Sides /\ slip.min \in 0 .. Bps
  BY PoolTypes
<1>2. CASE /\ odds < slip.min
           /\ slip' = [slip EXCEPT !.pc = "refused", !.got = odds] /\ UNCHANGED pool
  <2> HIDE DEF odds
  <2>1. /\ slip' \in Slip /\ slip'.pc = "refused" /\ slip'.got = odds /\ slip'.side = slip.side
        /\ slip'.against = slip.against
    BY <1>1, <1>2 DEF Slip
  <2>2. ~slip.against /\ Unsaturated => odds >= slip.min \/ odds = 0
    BY DEF PlaceProtectedBet, PoolInv, SlipHolds, odds
  <2>3. Unsaturated' => Unsaturated
    BY <1>2, <2>1 DEF Unsaturated
  <2>4. ~(odds >= slip.min)
    BY <1>1, <1>2, PoolConstants
  <2>5. RefusedForAReason'
    BY <2>1, <2>2, <2>3, <2>4 DEF RefusedForAReason
  <2>6. PoolTypeOK' /\ SlipHolds'
    BY <1>2, <2>1 DEF PoolInv, PoolTypeOK, SlipHolds
  <2> QED BY <2>5, <2>6 DEF PoolInv
<1>3. CASE slip' = [slip EXCEPT !.pc = "placed", !.got = odds] /\ Bet(slip.side, amount)
  <2> HIDE DEF odds
  <2>1. slip' \in Slip /\ slip'.pc = "placed"
    BY <1>1, <1>3 DEF Slip
  <2>2. pool' \in PoolType
    BY <1>1, <1>3, BetFacts
  <2> QED BY <2>1, <2>2 DEF PoolInv, PoolTypeOK, PoolType, SlipHolds, RefusedForAReason
<1> QED BY <1>2, <1>3 DEF PlaceProtectedBet

LEMMA PoolStep == PoolInv /\ [PoolNext]_poolVars => PoolInv'
<1> SUFFICES ASSUME PoolInv, [PoolNext]_poolVars PROVE PoolInv'
  OBVIOUS
<1>1. CASE UNCHANGED poolVars
  BY <1>1 DEF poolVars, PoolInv, PoolTypeOK, SlipHolds, RefusedForAReason, Unsaturated
<1>2. CASE NextBet
  <2>1. slip' \in Slip /\ slip'.pc = "empty" /\ pool' = pool
    BY <1>2, PoolConstants DEF NextBet, EmptySlip, Slip, Sides, NoOdds
  <2> QED BY <2>1 DEF PoolInv, PoolTypeOK, SlipHolds, RefusedForAReason
<1> QED BY <1>1, <1>2, PlaceBetStep, QuoteStep, ProtectedBetStep DEF PoolNext

\* place_bet and slippage.ts: a protected bet that nobody has bet against is accepted, whatever
\* the stakes, the tolerance and the width of the integers; the two exceptions are the odds that
\* are rounded down to 0 and a pool at the end of its range.
THEOREM ProtectedBetHolds == PoolSpec => []RefusedForAReason
<1>1. PoolInv => RefusedForAReason
  BY DEF PoolInv
<1> QED BY <1>1, PoolInitial, PoolStep, PTL DEF PoolSpec

\* Both sides of the pool stay within their range, and the slip has its type.
THEOREM PoolTypeCorrect == PoolSpec => []PoolTypeOK
<1>1. PoolInv => PoolTypeOK
  BY DEF PoolInv
<1> QED BY <1>1, PoolInitial, PoolStep, PTL DEF PoolSpec

============================================================================
