----------------------------- MODULE SpendProofs -----------------------------
(***************************************************************************)
(* Proofs about the spend ledger and what runs over it, for every set of   *)
(* issues, workspaces, requests, bodies, handlers and syncers.             *)
(***************************************************************************)
EXTENDS LensSpend, TLAPS

(***************************************************************************)
(* SpendLedger.  LedgerInv is inductive: it needs LedgerMatchesCost beside *)
(* RequestLandsOnce because a statement that finds no row credits a counter *)
(* that must then stand at zero.                                           *)
(***************************************************************************)

LedgerInv ==
    /\ LedgerTypeOK
    /\ LedgerMatchesCost
    /\ RequestLandsOnce
    /\ RowsStayInWorkspace

-----------------------------------------------------------------------------
(* Lemmas on the operators.                                                *)

\* A lookup by identifier within one workspace finds at most one issue.
LEMMA TargetUnique ==
    ASSUME NEW f \in Labels, NEW ident \in Labels, NEW w \in Workspaces,
           issues \in SUBSET Issues,
           NEW i \in Target(f, ident, w), NEW j \in Target(f, ident, w)
    PROVE  i = j
BY IssueRows DEF Target

\* Crediting keeps the shape of the totals.
LEMMA CreditedType ==
    ASSUME cost \in [Issues -> [EventKeys -> Nat]], NEW S \in SUBSET Issues, NEW k \in EventKeys
    PROVE  Credited(S, k) \in [Issues -> [EventKeys -> Nat]]
<1> SUFFICES ASSUME NEW i \in Issues
             PROVE  (IF i \in S THEN [cost[i] EXCEPT ![k] = @ + 1] ELSE cost[i])
                       \in [EventKeys -> Nat]
    BY DEF Credited
<1>1. cost[i] \in [EventKeys -> Nat]
    OBVIOUS
<1>2. cost[i][k] + 1 \in Nat
    BY <1>1
<1> QED
    BY <1>1, <1>2

\* ... and adds one to exactly the issues and the key named.
LEMMA CreditedValue ==
    ASSUME cost \in [Issues -> [EventKeys -> Nat]], NEW S \in SUBSET Issues, NEW k \in EventKeys,
           NEW i \in Issues, NEW q \in EventKeys
    PROVE  Credited(S, k)[i][q] = IF i \in S /\ q = k THEN cost[i][q] + 1 ELSE cost[i][q]
<1>1. cost[i] \in [EventKeys -> Nat]
    OBVIOUS
<1>2. Credited(S, k)[i] = IF i \in S THEN [cost[i] EXCEPT ![k] = @ + 1] ELSE cost[i]
    BY DEF Credited
<1> QED
    BY <1>1, <1>2

\* A request that is landed leaves a single new row: the one issue it names, or none.
LEMMA LandingShape ==
    ASSUME LedgerTypeOK, NEW r \in Requests, NEW f \in Labels, NEW ident \in Labels,
           NEW w \in Workspaces, RecordRequestSpend(r, f, ident, w), ~ Landed(r)
    PROVE  \E i \in Issues \cup {NoIssue} :
              /\ ledger' = ledger \cup {Row(r, w, i)}
              /\ Target(f, ident, w) = IF i = NoIssue THEN {} ELSE {i}
              /\ i # NoIssue => i \in issues /\ WorkspaceOf[i] = w
<1>1. CASE Target(f, ident, w) = {}
    <2>1. ledger' = ledger \cup {Row(r, w, NoIssue)}
        BY <1>1 DEF RecordRequestSpend
    <2> QED
        BY <1>1, <2>1
<1>2. CASE Target(f, ident, w) # {}
    <2>1. PICK i \in Target(f, ident, w) : ledger' = ledger \cup {Row(r, w, i)}
        BY <1>2 DEF RecordRequestSpend
    <2>2. issues \in SUBSET Issues
        BY DEF LedgerTypeOK
    <2>3. Target(f, ident, w) = {i}
        BY <2>1, <2>2, TargetUnique
    <2>4. i \in Issues /\ i # NoIssue /\ i \in issues /\ WorkspaceOf[i] = w
        BY <2>1, <2>2, IssueRows DEF Target
    <2> QED
        BY <2>1, <2>3, <2>4
<1> QED
    BY <1>1, <1>2

-----------------------------------------------------------------------------
(* One lemma per statement, then the invariant.                            *)

LEMMA RecordSpendEventKeepsInv ==
    ASSUME LedgerInv, NEW k \in Bodies, NEW f \in Labels, NEW w \in Workspaces,
           RecordSpendEvent(k, f, w)
    PROVE  LedgerInv'
<1> USE DEF EventKeys
<1> DEFINE S == Inserted(k, f, w)
<1>1. /\ ledger' = ledger \cup {Row(k, w, i) : i \in S}
      /\ cost' = Credited(S, k)
      /\ UNCHANGED <<issues, lensFeature>>
    BY DEF RecordSpendEvent
<1>2. S \in SUBSET issues /\ S \in SUBSET Issues /\ \A i \in S : WorkspaceOf[i] = w
    BY DEF Inserted, Matched, LedgerInv, LedgerTypeOK
<1>3. NoIssue \notin S /\ k \notin Requests
    BY <1>2, IssueRows, KeyPrefixes
<1>4. cost \in [Issues -> [EventKeys -> Nat]]
    BY DEF LedgerInv, LedgerTypeOK
<1>5. LedgerTypeOK'
    <2>1. cost' \in [Issues -> [EventKeys -> Nat]]
        BY <1>1, <1>2, <1>4, CreditedType
    <2>2. \A i \in S : Row(k, w, i) \in [key : EventKeys, workspace : Workspaces,
                                          issue : Issues \cup {NoIssue}]
        BY <1>2 DEF Row
    <2> QED
        BY <1>1, <2>1, <2>2 DEF LedgerInv, LedgerTypeOK
<1>6. LedgerMatchesCost'
    <2> SUFFICES ASSUME NEW i \in Issues, NEW q \in EventKeys
                 PROVE  cost'[i][q] =
                          IF \E row \in ledger' : row.key = q /\ row.issue = i THEN 1 ELSE 0
        BY DEF LedgerMatchesCost
    <2>1. cost'[i][q] = IF i \in S /\ q = k THEN cost[i][q] + 1 ELSE cost[i][q]
        <3>1. Credited(S, k)[i][q] = IF i \in S /\ q = k THEN cost[i][q] + 1 ELSE cost[i][q]
            <4>1. k \in EventKeys
                OBVIOUS
            <4> HIDE DEF S, EventKeys
            <4> QED
                BY <1>2, <1>4, <4>1, CreditedValue
        <3> QED
            BY <1>1, <3>1
    <2>2. cost[i][q] = IF \E row \in ledger : row.key = q /\ row.issue = i THEN 1 ELSE 0
        BY DEF LedgerInv, LedgerMatchesCost
    <2>3. (\E row \in ledger' : row.key = q /\ row.issue = i)
             <=> \/ \E row \in ledger : row.key = q /\ row.issue = i
                 \/ i \in S /\ q = k
        <3>1. ASSUME NEW row \in ledger', row.key = q, row.issue = i, row \notin ledger
              PROVE  i \in S /\ q = k
            <4>1. PICK x \in S : row = Row(k, w, x)
                BY <1>1, <3>1
            <4> QED
                BY <3>1, <4>1 DEF Row
        <3>2. ASSUME i \in S, q = k
              PROVE  \E row \in ledger' : row.key = q /\ row.issue = i
            <4>1. Row(k, w, i) \in ledger'
                BY <1>1, <3>2
            <4> QED
                BY <3>2, <4>1 DEF Row
        <3> QED
            BY <1>1, <3>1, <3>2
    <2>4. i \in S /\ q = k => ~ \E row \in ledger : row.key = q /\ row.issue = i
        BY DEF Inserted
    <2> QED
        BY <2>1, <2>2, <2>3, <2>4
<1>7. RequestLandsOnce'
    <2>1. \A row \in ledger' : row.key \in Requests => row \in ledger
        BY <1>1, <1>3 DEF Row
    <2> QED
        BY <2>1 DEF LedgerInv, RequestLandsOnce
<1>8. RowsStayInWorkspace'
    BY <1>1, <1>2 DEF LedgerInv, RowsStayInWorkspace, Row
<1> QED
    BY <1>5, <1>6, <1>7, <1>8 DEF LedgerInv

LEMMA UnchangedKeepsInv == LedgerInv /\ UNCHANGED ledgerVars => LedgerInv'
BY DEF ledgerVars, LedgerInv, LedgerTypeOK, LedgerMatchesCost, RequestLandsOnce,
       RowsStayInWorkspace

LEMMA RecordRequestSpendKeepsInv ==
    ASSUME LedgerInv, NEW r \in Requests, NEW f \in Labels, NEW ident \in Labels,
           NEW w \in Workspaces, RecordRequestSpend(r, f, ident, w)
    PROVE  LedgerInv'
<1>0. r \in EventKeys
    BY DEF EventKeys
<1>1. CASE Landed(r)
    <2>1. UNCHANGED ledgerVars
        BY <1>1 DEF RecordRequestSpend, ledgerVars
    <2> QED
        BY <2>1, UnchangedKeepsInv
<1>2. CASE ~ Landed(r)
    <2> DEFINE S == Target(f, ident, w)
    <2>1. PICK j \in Issues \cup {NoIssue} :
             /\ ledger' = ledger \cup {Row(r, w, j)}
             /\ S = IF j = NoIssue THEN {} ELSE {j}
             /\ j # NoIssue => j \in issues /\ WorkspaceOf[j] = w
        BY <1>2, LandingShape DEF LedgerInv
    <2>2. cost' = Credited(S, r) /\ UNCHANGED <<issues, lensFeature>>
        BY <1>2 DEF RecordRequestSpend
    <2>3. S \in SUBSET Issues
        BY <2>1
    <2>4. cost \in [Issues -> [EventKeys -> Nat]]
        BY DEF LedgerInv, LedgerTypeOK
    <2>5. \A row \in ledger : row.key # r
        BY <1>2 DEF Landed
    <2>6. LedgerTypeOK'
        <3>1. cost' \in [Issues -> [EventKeys -> Nat]]
            BY <1>0, <2>2, <2>3, <2>4, CreditedType
        <3>2. Row(r, w, j) \in [key : EventKeys, workspace : Workspaces,
                                issue : Issues \cup {NoIssue}]
            BY <1>0 DEF Row
        <3> QED
            BY <2>1, <2>2, <3>1, <3>2 DEF LedgerInv, LedgerTypeOK
    <2>7. LedgerMatchesCost'
        <3> SUFFICES ASSUME NEW i \in Issues, NEW q \in EventKeys
                     PROVE  cost'[i][q] =
                              IF \E row \in ledger' : row.key = q /\ row.issue = i THEN 1 ELSE 0
            BY DEF LedgerMatchesCost
        <3>1. cost'[i][q] = IF i \in S /\ q = r THEN cost[i][q] + 1 ELSE cost[i][q]
            <4> HIDE DEF S
            <4>2. Credited(S, r)[i][q] =
                    IF i \in S /\ q = r THEN cost[i][q] + 1 ELSE cost[i][q]
                BY <1>0, <2>3, <2>4, CreditedValue
            <4> QED
                BY <2>2, <4>2
        <3>2. cost[i][q] = IF \E row \in ledger : row.key = q /\ row.issue = i THEN 1 ELSE 0
            BY DEF LedgerInv, LedgerMatchesCost
        <3>3. (\E row \in ledger' : row.key = q /\ row.issue = i)
                 <=> \/ \E row \in ledger : row.key = q /\ row.issue = i
                     \/ i = j /\ q = r
            <4>1. Row(r, w, j).key = r /\ Row(r, w, j).issue = j
                BY DEF Row
            <4>2. \A row \in ledger' : row \in ledger \/ row = Row(r, w, j)
                BY <2>1
            <4>3. Row(r, w, j) \in ledger' /\ ledger \subseteq ledger'
                BY <2>1
            <4> HIDE DEF S
            <4>4. ASSUME i = j, q = r
                  PROVE  \E row \in ledger' : row.key = q /\ row.issue = i
                BY <4>1, <4>3, <4>4
            <4>5. ASSUME NEW row \in ledger', row.key = q, row.issue = i, row \notin ledger
                  PROVE  i = j /\ q = r
                BY <4>1, <4>2, <4>5
            <4> QED
                BY <4>3, <4>4, <4>5
        <3>4. i = j <=> i \in S
            BY <2>1, IssueRows
        <3>5. i \in S /\ q = r => ~ \E row \in ledger : row.key = q /\ row.issue = i
            BY <2>5
        <3> QED
            BY <3>1, <3>2, <3>3, <3>4, <3>5
    <2>8. RequestLandsOnce'
        BY <2>1, <2>5 DEF LedgerInv, RequestLandsOnce, Row
    <2>9. RowsStayInWorkspace'
        BY <2>1, <2>2 DEF LedgerInv, RowsStayInWorkspace, Row
    <2> QED
        BY <2>6, <2>7, <2>8, <2>9 DEF LedgerInv
<1> QED
    BY <1>1, <1>2

\* The two statements on issues leave ledger and totals alone.
LEMMA EditKeepsInv ==
    ASSUME LedgerInv, NEW i \in Issues, NEW f \in Features,
           CreateIssue(i, f) \/ SetLensFeature(i, f)
    PROVE  LedgerInv'
<1>1. /\ UNCHANGED <<cost, ledger>>
      /\ issues \subseteq issues' /\ issues' \subseteq issues \cup {i}
      /\ lensFeature' = [lensFeature EXCEPT ![i] = f]
    BY DEF CreateIssue, SetLensFeature
<1>2. LedgerTypeOK'
    BY <1>1 DEF LedgerInv, LedgerTypeOK
<1>3. LedgerMatchesCost' /\ RequestLandsOnce'
    BY <1>1 DEF LedgerInv, LedgerMatchesCost, RequestLandsOnce
<1>4. RowsStayInWorkspace'
    BY <1>1 DEF LedgerInv, RowsStayInWorkspace
<1> QED
    BY <1>2, <1>3, <1>4 DEF LedgerInv

LEMMA LedgerInvInit == LedgerInit => LedgerInv
BY IssueRows DEF LedgerInit, LedgerInv, LedgerTypeOK, LedgerMatchesCost, RequestLandsOnce,
                 RowsStayInWorkspace

LEMMA LedgerInvStep == LedgerInv /\ [LedgerNext]_ledgerVars => LedgerInv'
<1> SUFFICES ASSUME LedgerInv, [LedgerNext]_ledgerVars PROVE LedgerInv'
    OBVIOUS
<1>1. CASE \E i \in Issues, f \in Features : CreateIssue(i, f) \/ SetLensFeature(i, f)
    BY <1>1, EditKeepsInv
<1>2. CASE \E k \in Bodies, f \in Labels, w \in Workspaces : RecordSpendEvent(k, f, w)
    BY <1>2, RecordSpendEventKeepsInv
<1>3. CASE \E r \in Requests, f, ident \in Labels, w \in Workspaces :
              RecordRequestSpend(r, f, ident, w)
    BY <1>3, RecordRequestSpendKeepsInv
<1>4. CASE UNCHANGED ledgerVars
    BY <1>4, UnchangedKeepsInv
<1> QED
    BY <1>1, <1>2, <1>3, <1>4 DEF LedgerNext

\* The type invariant with the three facts the statements maintain together.
THEOREM LedgerInvariant == LedgerSpec => []LedgerInv
BY LedgerInvInit, LedgerInvStep, PTL DEF LedgerSpec

\* An issue's ai_cost_usd equals the sum of its ledger rows, always.
THEOREM CostIsSumOfRows == LedgerSpec => []LedgerMatchesCost
<1>1. LedgerInv => LedgerMatchesCost
    BY DEF LedgerInv
<1> QED
    BY <1>1, LedgerInvariant, PTL

\* A request has one row, on one issue or none: no fan-out, no re-credit.
THEOREM RequestsLandOnce == LedgerSpec => []RequestLandsOnce
<1>1. LedgerInv => RequestLandsOnce
    BY DEF LedgerInv
<1> QED
    BY <1>1, LedgerInvariant, PTL

\* A row's issue is in the row's workspace.
THEOREM SpendStaysInWorkspace == LedgerSpec => []RowsStayInWorkspace
<1>1. LedgerInv => RowsStayInWorkspace
    BY DEF LedgerInv
<1> QED
    BY <1>1, LedgerInvariant, PTL

-----------------------------------------------------------------------------
(* The ledger implements the abstract account.                             *)

\* The mapped variables of SpendAccount, as they stand in a state.
PostedMap == [r \in Requests |-> PostedAt(r)]
TotalMap  == [i \in Issues |-> [r \in Requests |-> cost[i][r]]]

LEMMA ChooseTheRow ==
    ASSUME NEW L, NEW r, NEW row \in L, row.key = r, \A x \in L : x.key = r => x = row
    PROVE  (CHOOSE x \in L : x.key = r) = row
OBVIOUS

\* A statement that leaves every request's row and credit alone is a stutter.
LEMMA WebhookStutters ==
    ASSUME LedgerInv, NEW k \in Bodies, NEW f \in Labels, NEW w \in Workspaces,
           RecordSpendEvent(k, f, w)
    PROVE  UNCHANGED <<PostedMap, TotalMap>>
<1> DEFINE S == Inserted(k, f, w)
<1>1. /\ ledger' = ledger \cup {Row(k, w, i) : i \in S}
      /\ cost' = Credited(S, k)
    BY DEF RecordSpendEvent
<1>2. S \in SUBSET Issues /\ k \in EventKeys /\ k \notin Requests
    BY KeyPrefixes DEF Inserted, Matched, LedgerInv, LedgerTypeOK, EventKeys
<1>3. ASSUME NEW r \in Requests PROVE PostedAt(r)' = PostedAt(r)
    <2>1. \A x : x \in ledger' /\ x.key = r <=> x \in ledger /\ x.key = r
        BY <1>1, <1>2 DEF Row
    <2>2. (CHOOSE x \in ledger' : x.key = r) = (CHOOSE x \in ledger : x.key = r)
        BY <2>1
    <2>3. Landed(r)' <=> Landed(r)
        BY <2>1 DEF Landed
    <2> QED
        BY <2>2, <2>3 DEF PostedAt
<1>4. ASSUME NEW i \in Issues, NEW r \in Requests PROVE cost'[i][r] = cost[i][r]
    <2> HIDE DEF S
    <2>1. cost \in [Issues -> [EventKeys -> Nat]] /\ r \in EventKeys
        BY DEF LedgerInv, LedgerTypeOK, EventKeys
    <2>2. Credited(S, k)[i][r] = IF i \in S /\ r = k THEN cost[i][r] + 1 ELSE cost[i][r]
        BY <1>2, <2>1, CreditedValue
    <2> QED
        BY <1>1, <1>2, <2>2
<1>5. PostedMap' = PostedMap
    BY <1>3 DEF PostedMap
<1>6. TotalMap' = TotalMap
    BY <1>4 DEF TotalMap
<1> QED
    BY <1>5, <1>6

\* Landing a request is one Post of it.
LEMMA LandingPosts ==
    ASSUME LedgerInv, NEW r \in Requests, NEW f \in Labels, NEW ident \in Labels,
           NEW w \in Workspaces, RecordRequestSpend(r, f, ident, w), ~ Landed(r)
    PROVE  \E i \in Issues \cup {NoIssue} :
              /\ PostedMap[r] = Unposted
              /\ PostedMap' = [PostedMap EXCEPT ![r] = [workspace |-> w, issue |-> i]]
              /\ TotalMap' = IF i = NoIssue THEN TotalMap
                             ELSE [TotalMap EXCEPT ![i][r] = @ + 1]
<1> DEFINE S == Target(f, ident, w)
<1>1. PICK j \in Issues \cup {NoIssue} :
         /\ ledger' = ledger \cup {Row(r, w, j)}
         /\ S = IF j = NoIssue THEN {} ELSE {j}
    BY LandingShape DEF LedgerInv
<1>2. cost' = Credited(S, r)
    BY DEF RecordRequestSpend
<1>3. cost \in [Issues -> [EventKeys -> Nat]] /\ S \in SUBSET Issues /\ r \in EventKeys
    BY <1>1 DEF LedgerInv, LedgerTypeOK, EventKeys
<1>4. Row(r, w, j).key = r /\ Row(r, w, j).workspace = w /\ Row(r, w, j).issue = j
    BY DEF Row
<1>5. PostedMap[r] = Unposted
    BY DEF PostedMap, PostedAt
<1>6. ASSUME NEW q \in Requests
      PROVE  PostedAt(q)' = IF q = r THEN [workspace |-> w, issue |-> j] ELSE PostedAt(q)
    <2>1. CASE q = r
        <3>1. Row(r, w, j) \in ledger' /\ \A x \in ledger' : x.key = r => x = Row(r, w, j)
            BY <1>1 DEF Landed
        <3>2. (CHOOSE x \in ledger' : x.key = r) = Row(r, w, j)
            BY <1>4, <3>1, ChooseTheRow
        <3>3. Landed(r)'
            BY <1>4, <3>1 DEF Landed
        <3> QED
            BY <1>4, <2>1, <3>2, <3>3 DEF PostedAt
    <2>2. CASE q # r
        <3>1. \A x : x \in ledger' /\ x.key = q <=> x \in ledger /\ x.key = q
            BY <1>1, <1>4, <2>2
        <3>2. (CHOOSE x \in ledger' : x.key = q) = (CHOOSE x \in ledger : x.key = q)
            BY <3>1
        <3>3. Landed(q)' <=> Landed(q)
            BY <3>1 DEF Landed
        <3> QED
            BY <2>2, <3>2, <3>3 DEF PostedAt
    <2> QED
        BY <2>1, <2>2
<1>7. PostedMap' = [PostedMap EXCEPT ![r] = [workspace |-> w, issue |-> j]]
    BY <1>6 DEF PostedMap
<1>8. ASSUME NEW i \in Issues, NEW q \in Requests
      PROVE  cost'[i][q] = IF i = j /\ q = r THEN cost[i][q] + 1 ELSE cost[i][q]
    <2> HIDE DEF S
    <2>1. q \in EventKeys
        BY DEF EventKeys
    <2>2. Credited(S, r)[i][q] = IF i \in S /\ q = r THEN cost[i][q] + 1 ELSE cost[i][q]
        BY <1>3, <2>1, CreditedValue
    <2>3. i = j <=> i \in S
        BY <1>1, IssueRows
    <2> QED
        BY <1>2, <2>2, <2>3
<1>9. TotalMap' = IF j = NoIssue THEN TotalMap ELSE [TotalMap EXCEPT ![j][r] = @ + 1]
    <2>1. CASE j = NoIssue
        BY <1>8, <2>1, IssueRows DEF TotalMap
    <2>2. CASE j # NoIssue
        <3>1. j \in Issues
            BY <1>1, <2>2
        <3>2. TotalMap' = [i \in Issues |-> [q \in Requests |->
                             IF i = j /\ q = r THEN cost[i][q] + 1 ELSE cost[i][q]]]
            BY <1>8 DEF TotalMap
        <3>3. [TotalMap EXCEPT ![j][r] = @ + 1] =
                [i \in Issues |-> [q \in Requests |->
                   IF i = j /\ q = r THEN cost[i][q] + 1 ELSE cost[i][q]]]
            BY <3>1 DEF TotalMap
        <3> QED
            BY <2>2, <3>2, <3>3
    <2> QED
        BY <2>1, <2>2
<1> QED
    BY <1>5, <1>7, <1>9

\* Every step of the ledger is a step of the account or leaves it alone.
LEMMA AccountStep ==
    LedgerInv /\ [LedgerNext]_ledgerVars => [AccountOf!Next]_<<PostedMap, TotalMap>>
<1> SUFFICES ASSUME LedgerInv, [LedgerNext]_ledgerVars
             PROVE  [AccountOf!Next]_<<PostedMap, TotalMap>>
    OBVIOUS
<1>1. ASSUME UNCHANGED <<ledger, cost>> PROVE UNCHANGED <<PostedMap, TotalMap>>
    BY <1>1 DEF PostedMap, TotalMap, PostedAt, Landed
<1>2. CASE \E i \in Issues, f \in Features : CreateIssue(i, f) \/ SetLensFeature(i, f)
    BY <1>1, <1>2 DEF CreateIssue, SetLensFeature
<1>3. CASE \E k \in Bodies, f \in Labels, w \in Workspaces : RecordSpendEvent(k, f, w)
    BY <1>3, WebhookStutters
<1>4. CASE \E r \in Requests, f, ident \in Labels, w \in Workspaces :
              RecordRequestSpend(r, f, ident, w)
    <2>1. PICK r \in Requests, f \in Labels, ident \in Labels, w \in Workspaces :
             RecordRequestSpend(r, f, ident, w)
        BY <1>4
    <2>2. CASE Landed(r)
        BY <1>1, <2>1, <2>2 DEF RecordRequestSpend
    <2>3. CASE ~ Landed(r)
        <3>1. PICK i \in Issues \cup {NoIssue} :
                /\ PostedMap[r] = Unposted
                /\ PostedMap' = [PostedMap EXCEPT ![r] = [workspace |-> w, issue |-> i]]
                /\ TotalMap' = IF i = NoIssue THEN TotalMap
                               ELSE [TotalMap EXCEPT ![i][r] = @ + 1]
            BY <2>1, <2>3, LandingPosts
        <3>2. AccountOf!Post(r, w, i)
            BY <3>1 DEF AccountOf!Post, AccountOf!Posting, PostedMap, TotalMap
        <3> QED
            BY <3>2 DEF AccountOf!Next
    <2> QED
        BY <2>2, <2>3
<1>5. CASE UNCHANGED ledgerVars
    BY <1>1, <1>5 DEF ledgerVars
<1> QED
    BY <1>2, <1>3, <1>4, <1>5 DEF LedgerNext

\* The ledger implements the exactly-once account of requests.
THEOREM LedgerImplementsAccount == LedgerSpec => ImplementsAccount
<1>1. LedgerInit => AccountOf!Init
    BY DEF LedgerInit, AccountOf!Init, PostedAt, Landed, EventKeys
<1>2. LedgerInv /\ [LedgerNext]_ledgerVars => [AccountOf!Next]_<<PostedMap, TotalMap>>
    BY AccountStep
<1> QED
    BY <1>1, <1>2, LedgerInvariant, PTL
       DEF LedgerSpec, ImplementsAccount, AccountOf!Spec, PostedMap, TotalMap

-----------------------------------------------------------------------------
(***************************************************************************)
(* LensSpend.  Its handlers and syncers touch the tables through the       *)
(* ledger's statements only, so everything proved of the ledger holds of the *)
(* composition.  TypeOK is what the argument needs: the arguments a handler *)
(* or a syncer carries between two statements are of the right sort.       *)
(***************************************************************************)

\* The local states, and how they move: the step of one process is typed by
\* the new value it gives its own entry.
LEMMA HandlerMoves ==
    ASSUME TypeOK, NEW h \in Handlers, NEW v \in HandlerState
    PROVE  [handler EXCEPT ![h] = v] \in [Handlers -> HandlerState]
BY DEF TypeOK

LEMMA SyncerMoves ==
    ASSUME TypeOK, NEW s \in Syncers, NEW v \in SyncerState
    PROVE  [syncer EXCEPT ![s] = v] \in [Syncers -> SyncerState]
BY DEF TypeOK

\* A handler that is not idle carries a body and a set of issues.
LEMMA HandlerBusy ==
    ASSUME TypeOK, NEW h \in Handlers, handler[h].pc # "idle"
    PROVE  handler[h] \in [pc : {"claim", "record", "lookup", "notify"},
                           body : Bodies, todo : SUBSET Issues]
BY DEF TypeOK, HandlerState, Idle

LEMMA GotoType ==
    ASSUME TypeOK, NEW h \in Handlers, handler[h].pc # "idle",
           NEW p \in {"claim", "record", "lookup", "notify"}, Goto(h, p)
    PROVE  handler' \in [Handlers -> HandlerState]
<1>1. handler[h] \in [pc : {"claim", "record", "lookup", "notify"},
                      body : Bodies, todo : SUBSET Issues]
    BY HandlerBusy
<1>2. [handler[h] EXCEPT !.pc = p] \in [pc : {"claim", "record", "lookup", "notify"},
                                        body : Bodies, todo : SUBSET Issues]
    BY <1>1
<1>3. handler' = [handler EXCEPT ![h] = [handler[h] EXCEPT !.pc = p]]
    BY DEF Goto
<1> QED
    BY <1>2, <1>3, HandlerMoves DEF HandlerState

LEMMA AnswerType ==
    ASSUME TypeOK, NEW h \in Handlers, Answer(h)
    PROVE  handler' \in [Handlers -> HandlerState]
BY HandlerMoves DEF Answer, HandlerState

\* A ledger step keeps the ledger's types.
LEMMA LedgerTypes ==
    ASSUME LedgerInv, [LedgerNext]_ledgerVars
    PROVE  LedgerTypeOK'
BY LedgerInvStep DEF LedgerInv

-----------------------------------------------------------------------------
(* Every step is a ledger step or leaves the tables alone.                 *)

LEMMA WebhookLedgerStep ==
    ASSUME TypeOK, WebhookNext
    PROVE  [LedgerNext]_ledgerVars
<1>1. CASE \E h \in Handlers : Record(h)
    <2>1. PICK h \in Handlers : Record(h)
        BY <1>1
    <2>2. handler[h].pc # "idle"
        BY <2>1 DEF Record
    <2>3. handler[h].body \in Bodies
        BY <2>2, HandlerBusy
    <2>4. /\ AlertFeature[AlertIn(h)] \in Labels
          /\ AlertWorkspace[AlertIn(h)] \in Workspaces
        BY <2>3, LensSide DEF AlertIn
    <2>5. \/ UNCHANGED ledgerVars
          \/ RecordSpendEvent(handler[h].body, AlertFeature[AlertIn(h)],
                              AlertWorkspace[AlertIn(h)])
        BY <2>1 DEF Record
    <2> QED
        BY <2>3, <2>4, <2>5 DEF LedgerNext
<1>2. CASE \E a \in Alerts : GoStale(a)
    BY <1>2 DEF GoStale
<1>3. CASE \E h \in Handlers :
              \/ \E b \in Bodies : Deliver(h, b)
              \/ Claim(h) \/ LookUp(h) \/ Notified(h) \/ CutOff(h)
              \/ \E i \in Issues : Notify(h, i)
    BY <1>3 DEF Deliver, Claim, LookUp, Notified, CutOff, Notify
<1> QED
    BY <1>1, <1>2, <1>3 DEF WebhookNext

LEMMA SyncLedgerStep ==
    ASSUME TypeOK, SyncNext
    PROVE  [LedgerNext]_ledgerVars
<1>1. CASE \E s \in Syncers : Land(s)
    <2>1. PICK s \in Syncers : Land(s)
        BY <1>1
    <2>2. syncer[s] \in SyncerState /\ syncer[s].pc = "land"
        BY <2>1 DEF TypeOK, Land
    <2>3. syncer[s].at \in Placement
        BY <2>2 DEF SyncerState, Idle
    <2>4. \/ UNCHANGED ledgerVars
          \/ RecordRequestSpend(syncer[s].at.request, syncer[s].at.feature,
                                syncer[s].at.ident, syncer[s].at.workspace)
        BY <2>1 DEF Land
    <2> QED
        BY <2>3, <2>4 DEF LedgerNext, Placement
<1>2. CASE \E s \in Syncers :
              \/ BeginRun(s) \/ EndRun(s) \/ NextLens(s) \/ Restart(s)
              \/ \E l \in LensWorkspaces : Fetch(s, l)
              \/ \E r \in Requests : Locate(s, r)
    BY <1>2 DEF BeginRun, EndRun, NextLens, Restart, Fetch, Locate
<1>3. CASE \/ \E r \in Requests : LogRequest(r) \/ ExpireRequest(r)
           \/ \E l \in LensWorkspaces, w \in Workspaces :
                 RecordLensBilling(l, w) \/ OwnerLeaves(l, w)
    BY <1>3 DEF LogRequest, ExpireRequest, RecordLensBilling, OwnerLeaves
<1> QED
    BY <1>1, <1>2, <1>3 DEF SyncNext, Sync

LEMMA LedgerStep == TypeOK /\ [Next]_vars => [LedgerNext]_ledgerVars
<1> SUFFICES ASSUME TypeOK, [Next]_vars PROVE [LedgerNext]_ledgerVars
    OBVIOUS
<1>1. CASE WebhookNext
    BY <1>1, WebhookLedgerStep
<1>2. CASE SyncNext
    BY <1>2, SyncLedgerStep
<1>3. CASE EditIssue
    BY <1>3 DEF EditIssue, LedgerNext
<1>4. CASE UNCHANGED vars
    BY <1>4 DEF vars
<1> QED
    BY <1>1, <1>2, <1>3, <1>4 DEF Next

-----------------------------------------------------------------------------
(* Types.                                                                  *)

\* A fault is counted, within its bound, or there is none.
LEMMA FaultType ==
    ASSUME TypeOK, Fault \/ UNCHANGED faults
    PROVE  faults' \in 0 .. MaxFaults
BY LensSide DEF TypeOK, Fault

\* A webhook step leaves the sync's variables alone, and the other way round.
LEMMA WebhookTypes ==
    ASSUME TypeOK, WebhookNext, LedgerTypeOK'
    PROVE  TypeOK'
<1> DEFINE Frame == UNCHANGED syncVars /\ (Fault \/ UNCHANGED faults)
           Webhook == /\ delivered' \in [Bodies -> Nat]
                      /\ stale' \in SUBSET Identified
                      /\ claims' \in SUBSET Alerts
                      /\ handler' \in [Handlers -> HandlerState]
                      /\ notices' \in [Alerts -> [Issues -> Nat]]
                      /\ claimFaulted' \in SUBSET Alerts
<1>0. /\ delivered \in [Bodies -> Nat]
      /\ stale \in SUBSET Identified
      /\ claims \in SUBSET Alerts
      /\ handler \in [Handlers -> HandlerState]
      /\ notices \in [Alerts -> [Issues -> Nat]]
      /\ claimFaulted \in SUBSET Alerts
    BY DEF TypeOK
<1>1. ASSUME NEW a \in Alerts, GoStale(a) PROVE Frame /\ Webhook
    BY <1>0, <1>1 DEF GoStale
<1>2. ASSUME NEW h \in Handlers, NEW b \in Bodies, Deliver(h, b) PROVE Frame /\ Webhook
    <2>1. delivered' \in [Bodies -> Nat]
        BY <1>0, <1>2 DEF Deliver
    <2>2. handler' \in [Handlers -> HandlerState]
        BY <1>0, <1>2 DEF Deliver, HandlerState
    <2> QED
        BY <1>0, <1>2, <2>1, <2>2 DEF Deliver
<1>3. ASSUME NEW h \in Handlers, Claim(h) PROVE Frame /\ Webhook
    <2>1. handler[h].pc # "idle"
        BY <1>3 DEF Claim
    <2>2. AlertIn(h) \in Alerts
        BY <2>1, HandlerBusy, LensSide DEF AlertIn
    <2>3. handler' \in [Handlers -> HandlerState]
        BY <1>3, <2>1, GotoType, AnswerType DEF Claim
    <2> QED
        BY <1>0, <1>3, <2>2, <2>3 DEF Claim
<1>4. ASSUME NEW h \in Handlers, Record(h) PROVE Frame /\ Webhook
    <2>1. handler[h].pc # "idle"
        BY <1>4 DEF Record
    <2>2. handler' \in [Handlers -> HandlerState]
        BY <1>4, <2>1, GotoType, AnswerType DEF Record
    <2> QED
        BY <1>0, <1>4, <2>2 DEF Record
<1>5. ASSUME NEW h \in Handlers, LookUp(h) PROVE Frame /\ Webhook
    <2>1. handler[h].pc # "idle"
        BY <1>5 DEF LookUp
    <2>2. AlertTargets(AlertIn(h)) \in SUBSET Issues
        BY DEF AlertTargets, Matched, Target, TypeOK, LedgerTypeOK
    <2>3. [handler[h] EXCEPT !.pc = "notify", !.todo = AlertTargets(AlertIn(h))] \in HandlerState
        BY <2>1, <2>2, HandlerBusy DEF HandlerState
    <2>4. handler' \in [Handlers -> HandlerState]
        <3>1. CASE handler' = [handler EXCEPT ![h].pc = "notify",
                                              ![h].todo = AlertTargets(AlertIn(h))]
            <4>1. handler' = [handler EXCEPT ![h] =
                        [handler[h] EXCEPT !.pc = "notify", !.todo = AlertTargets(AlertIn(h))]]
                BY <3>1
            <4> QED
                BY <2>3, <4>1, HandlerMoves
        <3>2. CASE Answer(h)
            BY <3>2, AnswerType
        <3> QED
            BY <1>5, <3>1, <3>2 DEF LookUp
    <2> QED
        BY <1>0, <1>5, <2>4 DEF LookUp
<1>6. ASSUME NEW h \in Handlers, NEW i \in Issues, Notify(h, i) PROVE Frame /\ Webhook
    <2>1. handler[h].pc # "idle"
        BY <1>6 DEF Notify
    <2>2. [handler[h] EXCEPT !.todo = @ \ {i}] \in HandlerState
        BY <2>1, HandlerBusy DEF HandlerState
    <2>3. handler' \in [Handlers -> HandlerState]
        BY <1>6, <2>2, HandlerMoves DEF Notify
    <2>4. AlertIn(h) \in Alerts
        BY <2>1, HandlerBusy, LensSide DEF AlertIn
    <2>5. notices' \in [Alerts -> [Issues -> Nat]]
        BY <1>0, <1>6, <2>4 DEF Notify
    <2> QED
        BY <1>0, <1>6, <2>3, <2>5 DEF Notify
<1>7. ASSUME NEW h \in Handlers, Notified(h) \/ CutOff(h) PROVE Frame /\ Webhook
    BY <1>0, <1>7, AnswerType DEF Notified, CutOff
<1>8. Frame /\ Webhook
    BY <1>1, <1>2, <1>3, <1>4, <1>5, <1>6, <1>7 DEF WebhookNext
<1>9. faults' \in 0 .. MaxFaults
    BY <1>8, FaultType
<1> QED
    BY <1>8, <1>9 DEF TypeOK, syncVars

LEMMA SyncTypes ==
    ASSUME TypeOK, SyncNext, LedgerTypeOK'
    PROVE  TypeOK'
<1> DEFINE Frame == UNCHANGED webhookVars /\ (Fault \/ UNCHANGED faults)
           Tables == /\ window' \in SUBSET logged'
                     /\ logged' \in SUBSET Requests
                     /\ billing' \in SUBSET (LensWorkspaces \X Workspaces)
           Moved == syncer' \in [Syncers -> SyncerState]
<1>0. /\ window \in SUBSET logged
      /\ logged \in SUBSET Requests
      /\ billing \in SUBSET (LensWorkspaces \X Workspaces)
      /\ syncer \in [Syncers -> SyncerState]
    BY DEF TypeOK
<1>1. ASSUME NEW s \in Syncers, BeginRun(s) PROVE Frame /\ Tables /\ Moved
    <2>1. PICK b \in {billing, {}} :
             syncer' = [syncer EXCEPT ![s] =
                          [pc |-> "lenses", billing |-> b, lenses |-> Lenses(b)]]
        BY <1>1 DEF BeginRun
    <2>2. Lenses(b) \in SUBSET LensWorkspaces
        BY LensSide DEF Lenses
    <2>3. [pc |-> "lenses", billing |-> b, lenses |-> Lenses(b)] \in SyncerState
        BY <1>0, <2>2 DEF SyncerState
    <2> QED
        BY <1>0, <1>1, <2>1, <2>3, SyncerMoves DEF BeginRun
<1>2. ASSUME NEW s \in Syncers, NEW l \in LensWorkspaces, Fetch(s, l)
      PROVE  Frame /\ Tables /\ Moved
    <2>1. syncer[s] \in [pc : {"lenses"}, billing : SUBSET (LensWorkspaces \X Workspaces),
                         lenses : SUBSET LensWorkspaces]
        BY <1>0, <1>2 DEF Fetch, SyncerState, Idle
    <2>2. [pc |-> "rows", billing |-> syncer[s].billing,
           lenses |-> syncer[s].lenses \ {l}, lens |-> l,
           rows |-> {r \in window : RequestLens[r] = l}] \in SyncerState
        BY <1>0, <2>1 DEF SyncerState
    <2>3. [syncer[s] EXCEPT !.lenses = @ \ {l}] \in SyncerState
        BY <2>1 DEF SyncerState
    <2> QED
        BY <1>0, <1>2, <2>2, <2>3, SyncerMoves DEF Fetch
<1>3. ASSUME NEW s \in Syncers, EndRun(s) \/ Restart(s) PROVE Frame /\ Tables /\ Moved
    BY <1>0, <1>3, SyncerMoves DEF EndRun, Restart, SyncerState
<1>4. ASSUME NEW s \in Syncers, NEW r \in Requests, Locate(s, r)
      PROVE  Frame /\ Tables /\ Moved
    <2>1. syncer[s] \in [pc : {"rows"}, billing : SUBSET (LensWorkspaces \X Workspaces),
                         lenses : SUBSET LensWorkspaces, lens : LensWorkspaces,
                         rows : SUBSET Requests]
        BY <1>0, <1>4 DEF Locate, SyncerState, Idle
    <2>2. Placements(s, r) \subseteq Placement
        <3>1. /\ RequestFeature[r] \in Labels /\ RequestIssue[r] \in Labels
              /\ Empty \in Labels
            BY LensSide, IssueRows
        <3>2. \A tws, name : Holders(tws, name) \in SUBSET Issues
            BY DEF Holders, TypeOK, LedgerTypeOK
        <3>3. \A i \in Issues : WorkspaceOf[i] \in Workspaces
            BY IssueRows
        <3>4. TargetsOf(syncer[s].billing, syncer[s].lens) \subseteq Workspaces
            BY DEF TargetsOf, BilledTo
        <3>5. ASSUME NEW p \in Placements(s, r) PROVE p \in Placement
            <4> DEFINE tws == TargetsOf(syncer[s].billing, syncer[s].lens)
                       name == Named(RequestFeature[r], RequestIssue[r])
                       held == IF name = Empty THEN {} ELSE Holders(tws, name)
            <4>1. held \in SUBSET Issues
                BY <3>2
            <4>2. \E w \in Workspaces :
                     \/ p = [request |-> r, workspace |-> w, feature |-> RequestFeature[r],
                             ident |-> RequestIssue[r], saw |-> held]
                     \/ p = [request |-> r, workspace |-> w, feature |-> Empty,
                             ident |-> Empty, saw |-> held]
                BY <3>3, <3>4, <3>5, <4>1 DEF Placements
            <4> QED
                BY <3>1, <4>1, <4>2 DEF Placement
        <3> QED
            BY <3>5
    <2>3. ASSUME NEW p \in Placements(s, r)
          PROVE  [pc |-> "land", billing |-> syncer[s].billing,
                  lenses |-> syncer[s].lenses, lens |-> syncer[s].lens,
                  rows |-> syncer[s].rows \ {r}, at |-> p] \in SyncerState
        BY <2>1, <2>2, <2>3 DEF SyncerState
    <2>4. [syncer[s] EXCEPT !.rows = @ \ {r}] \in SyncerState
        BY <2>1 DEF SyncerState
    <2> QED
        BY <1>0, <1>4, <2>3, <2>4, SyncerMoves DEF Locate
<1>5. ASSUME NEW s \in Syncers, Land(s) PROVE Frame /\ Tables /\ Moved
    <2>1. syncer[s] \in [pc : {"land"}, billing : SUBSET (LensWorkspaces \X Workspaces),
                         lenses : SUBSET LensWorkspaces, lens : LensWorkspaces,
                         rows : SUBSET Requests, at : Placement]
        BY <1>0, <1>5 DEF Land, SyncerState, Idle
    <2>2. [pc |-> "rows", billing |-> syncer[s].billing, lenses |-> syncer[s].lenses,
           lens |-> syncer[s].lens, rows |-> syncer[s].rows] \in SyncerState
        BY <2>1 DEF SyncerState
    <2> QED
        BY <1>0, <1>5, <2>2, SyncerMoves DEF Land
<1>6. ASSUME NEW s \in Syncers, NextLens(s) PROVE Frame /\ Tables /\ Moved
    <2>1. syncer[s] \in [pc : {"rows"}, billing : SUBSET (LensWorkspaces \X Workspaces),
                         lenses : SUBSET LensWorkspaces, lens : LensWorkspaces,
                         rows : SUBSET Requests]
        BY <1>0, <1>6 DEF NextLens, SyncerState, Idle
    <2>2. [pc |-> "lenses", billing |-> syncer[s].billing, lenses |-> syncer[s].lenses]
             \in SyncerState
        BY <2>1 DEF SyncerState
    <2> QED
        BY <1>0, <1>6, <2>2, SyncerMoves DEF NextLens
<1>7. ASSUME NEW r \in Requests, LogRequest(r) \/ ExpireRequest(r)
      PROVE  Frame /\ Tables /\ Moved
    BY <1>0, <1>7 DEF LogRequest, ExpireRequest
<1>8. ASSUME NEW l \in LensWorkspaces, NEW w \in Workspaces,
             RecordLensBilling(l, w) \/ OwnerLeaves(l, w)
      PROVE  Frame /\ Tables /\ Moved
    BY <1>0, <1>8 DEF RecordLensBilling, OwnerLeaves
<1>9. Frame /\ Tables /\ Moved
    BY <1>1, <1>2, <1>3, <1>4, <1>5, <1>6, <1>7, <1>8 DEF SyncNext, Sync
<1>10. faults' \in 0 .. MaxFaults
    BY <1>9, FaultType
<1> QED
    BY <1>9, <1>10 DEF TypeOK, webhookVars

-----------------------------------------------------------------------------

\* TypeOK and the ledger's invariant hold together: each step is typed because
\* the tables are, and the tables are because the arguments are.
LensInv == TypeOK /\ LedgerInv

LEMMA LensInvInit == Init => LensInv
<1> SUFFICES ASSUME Init PROVE LensInv
    OBVIOUS
<1>1. LedgerInv
    BY LedgerInvInit DEF Init
<1>2. TypeOK
    BY <1>1, LensSide DEF Init, TypeOK, LedgerInv, HandlerState, SyncerState
<1> QED
    BY <1>1, <1>2 DEF LensInv

LEMMA LensInvStep == LensInv /\ [Next]_vars => LensInv'
<1> SUFFICES ASSUME LensInv, [Next]_vars PROVE LensInv'
    OBVIOUS
<1>1. LedgerInv' /\ LedgerTypeOK'
    BY LedgerStep, LedgerInvStep DEF LensInv, LedgerInv
<1>2. CASE WebhookNext
    BY <1>1, <1>2, WebhookTypes DEF LensInv
<1>3. CASE SyncNext
    BY <1>1, <1>3, SyncTypes DEF LensInv
<1>4. CASE EditIssue
    BY <1>1, <1>4 DEF EditIssue, LensInv, TypeOK, webhookVars, syncVars
<1>5. CASE UNCHANGED vars
    BY <1>1, <1>5 DEF vars, LensInv, TypeOK, webhookVars, syncVars
<1> QED
    BY <1>2, <1>3, <1>4, <1>5 DEF Next

\* The composition is well typed.
THEOREM LensTypes == Spec => []TypeOK
<1>1. LensInv => TypeOK
    BY DEF LensInv
<1> QED
    BY <1>1, LensInvInit, LensInvStep, PTL DEF Spec

\* Webhook and syncer together only ever take the ledger's own steps, ...
THEOREM LensImplementsLedger == Spec => ImplementsLedger
<1>1. Init => LedgerInit
    BY DEF Init
<1>2. LensInv /\ [Next]_vars => [LedgerNext]_ledgerVars
    BY LedgerStep DEF LensInv
<1> QED
    BY <1>1, <1>2, LensInvInit, LensInvStep, PTL DEF Spec, ImplementsLedger, LedgerSpec

\* ... so under every interleaving, redelivery, re-pull and crash an issue's
\* cost is the sum of its rows, ...
THEOREM LensCostIsSumOfRows == Spec => []LedgerMatchesCost
BY LensImplementsLedger, CostIsSumOfRows, PTL DEF ImplementsLedger

\* ... a request lands once, ...
THEOREM LensRequestsLandOnce == Spec => []RequestLandsOnce
BY LensImplementsLedger, RequestsLandOnce, PTL DEF ImplementsLedger

\* ... and what is posted stays posted.
THEOREM LensImplementsAccount == Spec => ImplementsAccount
BY LensImplementsLedger, LedgerImplementsAccount, PTL DEF ImplementsLedger

-----------------------------------------------------------------------------
(* The claim.  ClaimedAlertChargedOnce is not inductive: that no second     *)
(* body is recorded rests on there being one delivery between the claim and *)
(* the record, on nothing being recorded before it, and on the claim        *)
(* outliving it.                                                            *)

\* The handler has let alert a through and not recorded it yet.
Holds(h, a) == handler[h].pc = "record" /\ AlertIn(h) = a

\* A row of the alert is in the ledger.
ChargedFor(a, row) == row \in ledger /\ row.key \in Bodies /\ AlertOf[row.key] = a

ClaimInv ==
    \A a \in Identified \ claimFaulted :
        /\ \A g, h \in Handlers : Holds(g, a) /\ Holds(h, a) => g = h
        /\ \A h \in Handlers : Holds(h, a) => a \in claims /\ \A row : ~ ChargedFor(a, row)
        /\ \A row : ChargedFor(a, row) => a \in claims
        /\ \A row1, row2 : ChargedFor(a, row1) /\ ChargedFor(a, row2) => row1.key = row2.key

\* A step that records no alert and lets none through.
LEMMA ClaimInvKept ==
    ASSUME ClaimInv, claims \subseteq claims', claimFaulted \subseteq claimFaulted',
           \A row \in ledger' : row.key \in Bodies => row \in ledger,
           \A h \in Handlers, a \in Identified \ claimFaulted' : Holds(h, a)' => Holds(h, a)
    PROVE  ClaimInv'
BY DEF ClaimInv, ChargedFor

LEMMA GotoEntry ==
    ASSUME TypeOK, NEW h \in Handlers, handler[h].pc # "idle", NEW p, Goto(h, p)
    PROVE  /\ handler'[h].pc = p /\ handler'[h].body = handler[h].body
           /\ \A g \in Handlers \ {h} : handler'[g] = handler[g]
<1>1. handler[h] \in [pc : {"claim", "record", "lookup", "notify"},
                      body : Bodies, todo : SUBSET Issues]
    BY HandlerBusy
<1>2. handler' = [handler EXCEPT ![h] = [handler[h] EXCEPT !.pc = p]]
    BY DEF Goto
<1>3. handler'[h] = [handler[h] EXCEPT !.pc = p]
    BY <1>2 DEF TypeOK
<1> QED
    BY <1>1, <1>2, <1>3 DEF TypeOK

LEMMA AnswerEntry ==
    ASSUME TypeOK, NEW h \in Handlers, Answer(h)
    PROVE  /\ handler'[h] = Idle /\ handler'[h].pc = "idle"
           /\ \A g \in Handlers \ {h} : handler'[g] = handler[g]
BY DEF Answer, TypeOK, Idle

LEMMA ClaimStep ==
    ASSUME TypeOK, ClaimInv, NEW h \in Handlers, Claim(h)
    PROVE  ClaimInv'
<1>0. handler[h].pc = "claim" /\ UNCHANGED ledger
    BY DEF Claim, ledgerVars
<1>a. Goto(h, "record") \/ Answer(h)
    BY DEF Claim
<1>1. /\ UNCHANGED ledger
      /\ AlertIn(h)' = AlertIn(h) \/ handler'[h] = Idle
    BY <1>0, <1>a, GotoEntry, AnswerEntry DEF AlertIn
<1>2. \A g \in Handlers \ {h} : handler'[g] = handler[g]
    BY <1>0, <1>a, GotoEntry, AnswerEntry
<1>3. \A g \in Handlers \ {h} : \A a : Holds(g, a)' <=> Holds(g, a)
    BY <1>2 DEF Holds, AlertIn
<1>4. CASE AlertIn(h) \notin claims /\ claims' = claims \cup {AlertIn(h)} /\ UNCHANGED claimFaulted
    <2>1. ASSUME NEW a \in Identified \ claimFaulted, Holds(h, a)'
          PROVE  a = AlertIn(h)
        BY <1>1, <2>1 DEF Holds, Idle
    <2>2. ASSUME NEW a \in Identified \ claimFaulted, a = AlertIn(h)
          PROVE  /\ \A g \in Handlers \ {h} : ~ Holds(g, a)'
                 /\ \A row : ~ ChargedFor(a, row)
        BY <1>3, <1>4, <2>2 DEF ClaimInv
    <2>3. \A a, row : ChargedFor(a, row)' <=> ChargedFor(a, row)
        BY <1>1 DEF ChargedFor
    <2> QED
        BY <1>3, <1>4, <2>1, <2>2, <2>3 DEF ClaimInv
<1>5. CASE AlertIn(h) \in claims /\ Answer(h) /\ UNCHANGED <<claims, claimFaulted>>
    <2>1. ~ \E a : Holds(h, a)'
        BY <1>5 DEF Answer, Holds, Idle, TypeOK
    <2> QED
        BY <1>1, <1>3, <1>5, <2>1, ClaimInvKept
<1>6. CASE /\ claims \subseteq claims'
           /\ claimFaulted' = claimFaulted \cup {AlertIn(h)}
    <2>1. \A a \in Identified \ claimFaulted' : ~ Holds(h, a)'
        BY <1>1, <1>6 DEF Holds, Idle
    <2> QED
        BY <1>1, <1>3, <1>6, <2>1, ClaimInvKept
<1> QED
    BY <1>4, <1>5, <1>6 DEF Claim

LEMMA RecordStep ==
    ASSUME TypeOK, ClaimInv, NEW h \in Handlers, Record(h)
    PROVE  ClaimInv'
<1> DEFINE b == handler[h].body
<1>1. /\ UNCHANGED <<claims, claimFaulted>> /\ Holds(h, AlertIn(h))
      /\ b \in Bodies /\ AlertIn(h) = AlertOf[b]
    BY HandlerBusy DEF Record, Holds, AlertIn
<1>a. handler[h].pc = "record" /\ (Goto(h, "lookup") \/ Answer(h))
    BY DEF Record
<1>b. handler'[h].pc # "record" /\ \A g \in Handlers \ {h} : handler'[g] = handler[g]
    BY <1>a, GotoEntry, AnswerEntry
<1>2. \A g \in Handlers : \A a : Holds(g, a)' => g # h /\ Holds(g, a)
    BY <1>b DEF Holds, AlertIn
<1>3. CASE UNCHANGED ledger
    BY <1>1, <1>2, <1>3, ClaimInvKept
<1>4. CASE RecordSpendEvent(b, AlertFeature[AlertIn(h)], AlertWorkspace[AlertIn(h)])
    <2>1. \A row \in ledger' : row \in ledger \/ row.key = b
        BY <1>4 DEF RecordSpendEvent, Row
    <2>2. \A a, row : ChargedFor(a, row)' => ChargedFor(a, row) \/ (a = AlertIn(h) /\ row.key = b)
        BY <1>1, <2>1 DEF ChargedFor
    <2>3. ASSUME NEW a \in Identified \ claimFaulted, a = AlertIn(h)
          PROVE  /\ a \in claims /\ \A row : ~ ChargedFor(a, row)
                 /\ \A g \in Handlers : ~ Holds(g, a)'
        BY <1>1, <1>2, <2>3 DEF ClaimInv
    <2> QED
        BY <1>1, <1>2, <2>2, <2>3 DEF ClaimInv
<1> QED
    BY <1>3, <1>4 DEF Record, ledgerVars

LEMMA ClaimInvStep == LensInv /\ ClaimInv /\ [Next]_vars => ClaimInv'
<1> SUFFICES ASSUME LensInv, ClaimInv, [Next]_vars PROVE ClaimInv'
    OBVIOUS
<1>0. TypeOK
    BY DEF LensInv
<1>1. ASSUME NEW h \in Handlers, Claim(h) PROVE ClaimInv'
    BY <1>0, <1>1, ClaimStep
<1>2. ASSUME NEW h \in Handlers, Record(h) PROVE ClaimInv'
    BY <1>0, <1>2, RecordStep
<1>3. ASSUME NEW h \in Handlers, NEW b \in Bodies, Deliver(h, b) PROVE ClaimInv'
    <2>1. UNCHANGED <<claims, claimFaulted, ledger>>
        BY <1>3 DEF Deliver, ledgerVars
    <2>2. ASSUME NEW g \in Handlers, NEW a \in Identified, Holds(g, a)'
          PROVE  Holds(g, a)
        BY <1>0, <1>3, <2>2 DEF Deliver, Holds, AlertIn, TypeOK, Idle
    <2> QED
        BY <2>1, <2>2, ClaimInvKept
<1>4. ASSUME NEW h \in Handlers,
             LookUp(h) \/ Notified(h) \/ CutOff(h) \/ \E i \in Issues : Notify(h, i)
      PROVE  ClaimInv'
    <2>1. UNCHANGED <<claims, claimFaulted, ledger>>
        BY <1>4 DEF LookUp, Notified, CutOff, Notify, ledgerVars
    <2>2. ASSUME NEW g \in Handlers, NEW a, Holds(g, a)'
          PROVE  Holds(g, a)
        <3>1. CASE Answer(h)
            BY <1>0, <2>2, <3>1, AnswerEntry DEF Holds, AlertIn
        <3>2. CASE LookUp(h) /\ ~ Answer(h)
            <4>1. /\ handler[h].pc # "idle"
                  /\ handler' = [handler EXCEPT ![h] =
                        [handler[h] EXCEPT !.pc = "notify", !.todo = AlertTargets(AlertIn(h))]]
                BY <3>2 DEF LookUp
            <4>2. handler'[h].pc = "notify" /\ \A k \in Handlers \ {h} : handler'[k] = handler[k]
                BY <1>0, <4>1, HandlerBusy DEF TypeOK
            <4> QED
                BY <2>2, <4>2 DEF Holds, AlertIn
        <3>3. CASE \E i \in Issues : Notify(h, i)
            <4>1. PICK i \in Issues :
                     /\ handler[h].pc = "notify"
                     /\ handler' = [handler EXCEPT ![h] = [handler[h] EXCEPT !.todo = @ \ {i}]]
                BY <3>3 DEF Notify
            <4>2. handler'[h].pc = "notify" /\ \A k \in Handlers \ {h} : handler'[k] = handler[k]
                BY <1>0, <4>1, HandlerBusy DEF TypeOK
            <4> QED
                BY <2>2, <4>2 DEF Holds, AlertIn
        <3> QED
            BY <1>4, <3>1, <3>2, <3>3 DEF Notified, CutOff
    <2> QED
        BY <2>1, <2>2, ClaimInvKept
<1>5. CASE (\E a \in Alerts : GoStale(a)) \/ UNCHANGED vars
    <2>1. UNCHANGED <<claims, claimFaulted, ledger, handler>>
        BY <1>5 DEF GoStale, vars, ledgerVars, webhookVars
    <2> QED
        BY <2>1, ClaimInvKept DEF Holds, AlertIn
<1>6. CASE SyncNext \/ EditIssue
    <2>1. UNCHANGED <<claims, claimFaulted, handler>>
        BY <1>6 DEF SyncNext, Sync, EditIssue, BeginRun, EndRun, Land, NextLens, Fetch, Locate,
                    Restart, LogRequest, ExpireRequest, RecordLensBilling, OwnerLeaves,
                    webhookVars
    <2>2. \A row \in ledger' : row.key \in Bodies => row \in ledger
        <3>1. CASE EditIssue
            BY <3>1 DEF EditIssue, CreateIssue, SetLensFeature
        <3>2. CASE \E s \in Syncers : Land(s)
            <4>1. PICK s \in Syncers : Land(s)
                BY <3>2
            <4>2. syncer[s].at.request \in Requests
                BY <1>0, <4>1 DEF TypeOK, Land, SyncerState, Idle, Placement
            <4>3. \A row \in ledger' : row \in ledger \/ row.key = syncer[s].at.request
                BY <4>1 DEF Land, RecordRequestSpend, Row, ledgerVars
            <4> QED
                BY <4>2, <4>3, KeyPrefixes
        <3>3. CASE SyncNext /\ ~ \E s \in Syncers : Land(s)
            BY <3>3 DEF SyncNext, Sync, BeginRun, EndRun, NextLens, Fetch, Locate,
                        Restart, LogRequest, ExpireRequest, RecordLensBilling, OwnerLeaves,
                        ledgerVars
        <3> QED
            BY <1>6, <3>1, <3>2, <3>3
    <2> QED
        BY <2>1, <2>2, ClaimInvKept DEF Holds, AlertIn
<1> QED
    BY <1>1, <1>2, <1>3, <1>4, <1>5, <1>6 DEF Next, WebhookNext

\* However often, in however many encodings and to however many handlers an
\* identified alert is delivered, it is charged under one key, as long as no
\* claim of it came back with an error.
THEOREM ClaimedAlertsChargedOnce == Spec => []ClaimedAlertChargedOnce
<1>1. Init => ClaimInv
    BY DEF Init, LedgerInit, ClaimInv, Holds, ChargedFor, Idle
<1>2. ClaimInv => ClaimedAlertChargedOnce
    BY DEF ClaimInv, ClaimedAlertChargedOnce, ChargedFor
<1> QED
    BY <1>1, <1>2, LensInvInit, LensInvStep, ClaimInvStep, PTL DEF Spec

-----------------------------------------------------------------------------
(***************************************************************************)
(* The syncer's guess.  What Land attributes was decided by the statement  *)
(* before it, from rows that others change in between; the decision is     *)
(* carried in the syncer's state, and issues keep their identifier and     *)
(* their workspace, so it cannot come to mean another issue.               *)
(***************************************************************************)

\* Why a row may keep its labels: its Lens workspace pays for one workspace,
\* or one issue alone was seen to hold the identifier; else they are cleared.
Placed(st) ==
    \/ \E w \in Workspaces : TargetsOf(st.billing, st.lens) = {w}
    \/ st.at.feature = Empty /\ st.at.ident = Empty
    \/ \E i \in Issues : /\ st.at.saw = {i}
                         /\ Identifier[i] = Named(st.at.feature, st.at.ident)
                         /\ WorkspaceOf[i] = st.at.workspace

PlacedInv == \A s \in Syncers : syncer[s].pc = "land" => Placed(syncer[s])

LEMMA PlacementIsPlaced ==
    ASSUME LensInv, NEW s \in Syncers, NEW r \in Requests, NEW p \in Placements(s, r),
           NEW st, st.billing = syncer[s].billing, st.lens = syncer[s].lens, st.at = p
    PROVE  Placed(st)
<1> DEFINE tws == TargetsOf(syncer[s].billing, syncer[s].lens)
           name == Named(RequestFeature[r], RequestIssue[r])
           held == IF name = Empty THEN {} ELSE Holders(tws, name)
<1>1. tws \subseteq Workspaces
  BY DEF TargetsOf, BilledTo
<1>2. \A i \in held : i \in Issues /\ Identifier[i] = name
  BY DEF Holders, LensInv, LedgerInv, LedgerTypeOK
<1>3. \/ \E w \in tws : tws = {w}
      \/ p.feature = Empty /\ p.ident = Empty
      \/ \E i \in held : /\ held = {i} /\ p.saw = held /\ p.workspace = WorkspaceOf[i]
                         /\ p.feature = RequestFeature[r] /\ p.ident = RequestIssue[r]
  BY DEF Placements
<1> HIDE DEF held
<1>4. CASE \E w \in tws : tws = {w}
  BY <1>1, <1>4 DEF Placed
<1>5. CASE p.feature = Empty /\ p.ident = Empty
  BY <1>5 DEF Placed
<1>6. CASE \E i \in held : /\ held = {i} /\ p.saw = held /\ p.workspace = WorkspaceOf[i]
                           /\ p.feature = RequestFeature[r] /\ p.ident = RequestIssue[r]
  BY <1>2, <1>6 DEF Placed
<1> QED
  BY <1>3, <1>4, <1>5, <1>6

\* A step of the syncers is one syncer's, and only Locate leads to Land.
LEMMA SyncerGoes ==
    ASSUME LensInv, NEW s \in Syncers, Sync(s) \/ Restart(s)
    PROVE  /\ \A t \in Syncers : t # s => syncer'[t] = syncer[t]
           /\ syncer'[s].pc = "land" => Placed(syncer'[s])
<1>1. syncer \in [Syncers -> SyncerState]
  BY DEF LensInv, TypeOK
<1>2. ASSUME NEW v, v.pc # "land", syncer' = [syncer EXCEPT ![s] = v]
      PROVE  /\ \A t \in Syncers : t # s => syncer'[t] = syncer[t]
             /\ syncer'[s].pc = "land" => Placed(syncer'[s])
  BY <1>1, <1>2
<1>3. CASE BeginRun(s)
  BY <1>2, <1>3 DEF BeginRun
<1>4. CASE EndRun(s) \/ Restart(s)
  BY <1>2, <1>4 DEF EndRun, Restart, Idle
<1>5. CASE Land(s)
  BY <1>2, <1>5 DEF Land
<1>6. CASE NextLens(s)
  BY <1>2, <1>6 DEF NextLens
<1>7. ASSUME NEW l \in LensWorkspaces, Fetch(s, l)
      PROVE  /\ \A t \in Syncers : t # s => syncer'[t] = syncer[t]
             /\ syncer'[s].pc = "land" => Placed(syncer'[s])
  <2>1. CASE syncer' = [syncer EXCEPT ![s].lenses = @ \ {l}]
    <3>1. syncer[s] \in [pc : {"lenses"}, billing : SUBSET (LensWorkspaces \X Workspaces),
                         lenses : SUBSET LensWorkspaces]
      BY <1>1, <1>7 DEF Fetch, SyncerState, Idle
    <3>2. [syncer[s] EXCEPT !.lenses = @ \ {l}].pc = "lenses"
      BY <3>1
    <3> QED
      BY <1>2, <2>1, <3>2
  <2> QED
    BY <1>2, <1>7, <2>1 DEF Fetch
<1>8. ASSUME NEW r \in Requests, Locate(s, r)
      PROVE  /\ \A t \in Syncers : t # s => syncer'[t] = syncer[t]
             /\ syncer'[s].pc = "land" => Placed(syncer'[s])
  <2>1. CASE syncer' = [syncer EXCEPT ![s].rows = @ \ {r}]
    <3>1. syncer[s] \in [pc : {"rows"}, billing : SUBSET (LensWorkspaces \X Workspaces),
                         lenses : SUBSET LensWorkspaces, lens : LensWorkspaces,
                         rows : SUBSET Requests]
      BY <1>1, <1>8 DEF Locate, SyncerState, Idle
    <3>2. [syncer[s] EXCEPT !.rows = @ \ {r}].pc = "rows"
      BY <3>1
    <3> QED
      BY <1>2, <2>1, <3>2
  <2>2. CASE \E p \in Placements(s, r) :
               syncer' = [syncer EXCEPT ![s] =
                 [pc |-> "land", billing |-> syncer[s].billing,
                  lenses |-> syncer[s].lenses, lens |-> syncer[s].lens,
                  rows |-> syncer[s].rows \ {r}, at |-> p]]
    <3>1. PICK p \in Placements(s, r) :
            syncer'[s] = [pc |-> "land", billing |-> syncer[s].billing,
                          lenses |-> syncer[s].lenses, lens |-> syncer[s].lens,
                          rows |-> syncer[s].rows \ {r}, at |-> p]
      BY <1>1, <2>2
    <3>2. /\ syncer'[s].billing = syncer[s].billing
          /\ syncer'[s].lens = syncer[s].lens /\ syncer'[s].at = p
      BY <3>1
    <3>3. Placed(syncer'[s])
      BY <3>2, PlacementIsPlaced
    <3> QED
      BY <1>1, <2>2, <3>3
  <2> QED
    BY <1>8, <2>1, <2>2 DEF Locate
<1> QED
  BY <1>3, <1>4, <1>5, <1>6, <1>7, <1>8 DEF Sync

LEMMA PlacedInvStep == LensInv /\ PlacedInv /\ [Next]_vars => PlacedInv'
<1> SUFFICES ASSUME LensInv, PlacedInv, [Next]_vars
             PROVE  PlacedInv'
  OBVIOUS
<1>1. CASE UNCHANGED syncer
  BY <1>1 DEF PlacedInv
<1>2. CASE \E s \in Syncers : Sync(s) \/ Restart(s)
  <2>1. PICK s \in Syncers : Sync(s) \/ Restart(s)
    BY <1>2
  <2>2. \A t \in Syncers : syncer'[t].pc = "land" => Placed(syncer'[t])
    BY <2>1, SyncerGoes DEF PlacedInv
  <2> QED
    BY <2>2 DEF PlacedInv
<1>3. CASE \/ \E r \in Requests : LogRequest(r) \/ ExpireRequest(r)
           \/ \E l \in LensWorkspaces, w \in Workspaces :
                 RecordLensBilling(l, w) \/ OwnerLeaves(l, w)
  BY <1>1, <1>3 DEF LogRequest, ExpireRequest, RecordLensBilling, OwnerLeaves
<1>4. CASE WebhookNext
  BY <1>1, <1>4 DEF WebhookNext, GoStale, Deliver, Claim, Record, LookUp, Notify, Notified,
                    CutOff, syncVars
<1>5. CASE EditIssue \/ UNCHANGED vars
  BY <1>1, <1>5 DEF EditIssue, syncVars, vars
<1> QED
  BY <1>2, <1>3, <1>4, <1>5 DEF Next, SyncNext

\* What is landed as placed goes where its labels led, or on no issue.
LEMMA LandsAsPlaced ==
    ASSUME LensInv, NEW st, st.at \in Placement, Placed(st),
           RecordRequestSpend(st.at.request, st.at.feature, st.at.ident, st.at.workspace),
           NEW row \in ledger' \ ledger
    PROVE  \/ row.issue = NoIssue
           \/ st.at.saw = {row.issue}
           \/ \E w \in Workspaces : TargetsOf(st.billing, st.lens) = {w}
<1> DEFINE r == st.at.request
           w == st.at.workspace
           aimed == Target(st.at.feature, st.at.ident, w)
<1>1. PICK i \in aimed \cup {NoIssue} : row = Row(r, w, i)
  BY DEF RecordRequestSpend
<1>2. row.issue = i
  BY <1>1 DEF Row
<1>3. CASE i \in aimed
  <2>1. /\ i \in Issues /\ Named(st.at.feature, st.at.ident) # Empty
        /\ Identifier[i] = Named(st.at.feature, st.at.ident)
        /\ WorkspaceOf[i] = w
    BY <1>3 DEF Target, LensInv, LedgerInv, LedgerTypeOK
  <2>2. CASE st.at.feature = Empty /\ st.at.ident = Empty
    BY <2>1, <2>2 DEF Named
  <2>3. CASE \E j \in Issues : /\ st.at.saw = {j}
                               /\ Identifier[j] = Named(st.at.feature, st.at.ident)
                               /\ WorkspaceOf[j] = st.at.workspace
    BY <1>2, <2>1, <2>3, IssueRows
  <2> QED
    BY <2>2, <2>3 DEF Placed
<1> QED
  BY <1>1, <1>2, <1>3

LEMMA GuessStep ==
    ASSUME LensInv, PlacedInv, [Next]_vars, NEW s \in Syncers,
           syncer[s].pc = "land", syncer'[s] # syncer[s],
           NEW row \in ledger' \ ledger
    PROVE  \/ row.issue = NoIssue
           \/ syncer[s].at.saw = {row.issue}
           \/ \E w \in Workspaces : TargetsOf(syncer[s].billing, syncer[s].lens) = {w}
<1>1. PICK t \in Syncers : Sync(t) \/ Restart(t)
  <2>1. ~ UNCHANGED syncer
    OBVIOUS
  <2>2. ~ WebhookNext
    BY <2>1 DEF WebhookNext, GoStale, Deliver, Claim, Record, LookUp, Notify, Notified,
                CutOff, syncVars
  <2>3. ~ EditIssue /\ ~ UNCHANGED vars
    BY <2>1 DEF EditIssue, syncVars, vars
  <2>4. ~ \E r \in Requests : LogRequest(r) \/ ExpireRequest(r)
    BY <2>1 DEF LogRequest, ExpireRequest
  <2>5. ~ \E l \in LensWorkspaces, w \in Workspaces :
              RecordLensBilling(l, w) \/ OwnerLeaves(l, w)
    BY <2>1 DEF RecordLensBilling, OwnerLeaves
  <2> QED
    BY <2>2, <2>3, <2>4, <2>5 DEF Next, SyncNext
<1>2. t = s
  BY <1>1, SyncerGoes
<1>3. ledger' # ledger
  OBVIOUS
<1>4. Land(s)
  BY <1>1, <1>2, <1>3 DEF Sync, Restart, BeginRun, EndRun, NextLens, Fetch, Locate, ledgerVars
<1>5. syncer[s] \in SyncerState
  BY DEF LensInv, TypeOK
<1>6. syncer[s].at \in Placement
  BY <1>5 DEF SyncerState, Idle
<1>7. Placed(syncer[s])
  BY DEF PlacedInv
<1>8. RecordRequestSpend(syncer[s].at.request, syncer[s].at.feature,
                         syncer[s].at.ident, syncer[s].at.workspace)
  BY <1>3, <1>4 DEF Land, ledgerVars
<1> QED
  BY <1>6, <1>7, <1>8, LandsAsPlaced

\* A request of a Lens workspace that pays for several Track workspaces is put
\* on an issue only if WorkspaceOfIdentifier saw that issue and no other holder
\* of the identifier, whatever is created or relabelled before the insert.
THEOREM SyncerNeverGuesses == Spec => NeverGuessed
<1>1. Init => PlacedInv
  BY DEF Init, PlacedInv, Idle
<1>2. LensInv /\ PlacedInv /\ [Next]_vars =>
        \A s \in Syncers :
          syncer[s].pc = "land" /\ syncer'[s] # syncer[s] =>
            \A row \in ledger' \ ledger :
              \/ row.issue = NoIssue
              \/ syncer[s].at.saw = {row.issue}
              \/ \E w \in Workspaces :
                   TargetsOf(syncer[s].billing, syncer[s].lens) = {w}
  BY GuessStep
<1> QED
  BY <1>1, <1>2, LensInvInit, LensInvStep, PlacedInvStep, PTL DEF Spec, NeverGuessed

-----------------------------------------------------------------------------
(***************************************************************************)
(* Notifications.  Nothing in the tables keeps a handler from notifying    *)
(* twice; what does is that an alert is let through once, and that its     *)
(* handler takes an issue off its list with the notification.              *)
(***************************************************************************)

\* The handler has let alert a through and not answered yet.
Past(h, a) == handler[h].pc \in {"record", "lookup", "notify"} /\ AlertIn(h) = a

\* Its loop has had its turn for issue i.
Turned(h, i) == handler[h].pc = "notify" /\ i \notin handler[h].todo

NoticeInv ==
    \A a \in Identified \ claimFaulted :
        /\ \A g, h \in Handlers : Past(g, a) /\ Past(h, a) => g = h
        /\ \A h \in Handlers : Past(h, a) => a \in claims
        /\ \A i \in Issues :
             /\ notices[a][i] # 0 => a \in claims /\ \A h \in Handlers : Past(h, a) => Turned(h, i)
             /\ notices[a][i] <= 1

\* An assignee hears once of an identified alert for an issue, however often
\* and in however many encodings Lens delivers it, unless a claim of it came
\* back with an error.
AlertNotifiesOnce ==
    \A a \in Identified \ claimFaulted, i \in Issues : notices[a][i] <= 1

\* A step that notifies nobody and lets no alert through.
LEMMA NoticeInvKept ==
    ASSUME NoticeInv, claims \subseteq claims', claimFaulted \subseteq claimFaulted',
           UNCHANGED notices,
           \A h \in Handlers, a \in Identified \ claimFaulted' :
              Past(h, a)' => /\ Past(h, a)
                             /\ \A i \in Issues : Turned(h, i) => Turned(h, i)'
    PROVE  NoticeInv'
BY DEF NoticeInv

LEMMA ClaimKeepsNotices ==
    ASSUME TypeOK, NoticeInv, NEW h \in Handlers, Claim(h)
    PROVE  NoticeInv'
<1>1. /\ handler[h].pc = "claim" /\ UNCHANGED notices
      /\ Goto(h, "record") \/ Answer(h)
  BY DEF Claim
<1>2. /\ AlertIn(h)' = AlertIn(h) \/ handler'[h] = Idle
      /\ \A g \in Handlers \ {h} : handler'[g] = handler[g]
  BY <1>1, GotoEntry, AnswerEntry DEF AlertIn
<1>3. \A g \in Handlers \ {h} :
        /\ \A a : Past(g, a)' <=> Past(g, a)
        /\ \A i : Turned(g, i)' <=> Turned(g, i)
  BY <1>2 DEF Past, Turned, AlertIn
<1>4. \A a : Past(h, a)' => a = AlertIn(h)
  BY <1>2 DEF Past, Idle
<1>5. CASE AlertIn(h) \notin claims /\ claims' = claims \cup {AlertIn(h)} /\ UNCHANGED claimFaulted
  <2>1. ASSUME NEW a \in Identified \ claimFaulted, a = AlertIn(h)
        PROVE  /\ \A g \in Handlers \ {h} : ~ Past(g, a)'
               /\ \A i \in Issues : notices[a][i] = 0
    BY <1>3, <1>5, <2>1 DEF NoticeInv
  <2> QED
    BY <1>1, <1>3, <1>4, <1>5, <2>1 DEF NoticeInv
<1>6. CASE AlertIn(h) \in claims /\ Answer(h) /\ UNCHANGED <<claims, claimFaulted>>
  <2>1. \A a : ~ Past(h, a)'
    BY <1>6, AnswerEntry DEF Past
  <2> QED
    BY <1>1, <1>3, <1>6, <2>1, NoticeInvKept
<1>7. CASE claims \subseteq claims' /\ claimFaulted' = claimFaulted \cup {AlertIn(h)}
  BY <1>1, <1>3, <1>4, <1>7, NoticeInvKept
<1> QED
  BY <1>5, <1>6, <1>7 DEF Claim

LEMMA NotifyKeepsNotices ==
    ASSUME TypeOK, NoticeInv, NEW h \in Handlers, NEW i \in Issues, Notify(h, i)
    PROVE  NoticeInv'
<1>1. /\ handler[h].pc = "notify" /\ i \in handler[h].todo
      /\ UNCHANGED <<claims, claimFaulted>>
      /\ handler' = [handler EXCEPT ![h] = [handler[h] EXCEPT !.todo = @ \ {i}]]
  BY DEF Notify
<1>2. /\ handler'[h].pc = "notify" /\ handler'[h].body = handler[h].body
      /\ handler'[h].todo = handler[h].todo \ {i}
      /\ \A g \in Handlers \ {h} : handler'[g] = handler[g]
  BY <1>1, HandlerBusy DEF TypeOK
<1>3. /\ \A g \in Handlers : \A a : Past(g, a)' <=> Past(g, a)
      /\ \A g \in Handlers : \A j : Turned(g, j)' <=> Turned(g, j) \/ (g = h /\ j = i)
  BY <1>1, <1>2 DEF Past, Turned, AlertIn
<1>4. CASE UNCHANGED notices
  BY <1>1, <1>3, <1>4, NoticeInvKept
<1>5. CASE notices' = [notices EXCEPT ![AlertIn(h)][i] = @ + 1]
  <2>1. Past(h, AlertIn(h)) /\ ~ Turned(h, i)
    BY <1>1 DEF Past, Turned
  <2>2. \A a \in Alerts, j \in Issues :
          notices'[a][j] = IF a = AlertIn(h) /\ j = i THEN notices[a][j] + 1 ELSE notices[a][j]
    BY <1>5 DEF TypeOK
  <2>3. Identified \subseteq Alerts
    BY LensSide
  <2>4. AlertIn(h) \in Identified \ claimFaulted =>
          notices[AlertIn(h)][i] = 0 /\ AlertIn(h) \in claims
    BY <2>1 DEF NoticeInv
  <2>5. ASSUME NEW a \in Identified \ claimFaulted, NEW j \in Issues
        PROVE  /\ notices'[a][j] # 0 =>
                     a \in claims /\ \A g \in Handlers : Past(g, a)' => Turned(g, j)'
               /\ notices'[a][j] <= 1
    <3>1. CASE a = AlertIn(h) /\ j = i
      <4>1. notices'[a][j] = 1
        BY <2>2, <2>3, <2>4, <3>1
      <4>2. \A g \in Handlers : Past(g, a)' => g = h
        BY <1>3, <2>1, <3>1 DEF NoticeInv
      <4>3. Turned(h, j)' /\ a \in claims
        BY <1>3, <2>4, <3>1
      <4> QED
        BY <4>1, <4>2, <4>3
    <3>2. CASE ~ (a = AlertIn(h) /\ j = i)
      BY <1>3, <2>2, <2>3, <3>2 DEF NoticeInv
    <3> QED
      BY <3>1, <3>2
  <2>6. \A a \in Identified \ claimFaulted :
          /\ \A f, g \in Handlers : Past(f, a)' /\ Past(g, a)' => f = g
          /\ \A g \in Handlers : Past(g, a)' => a \in claims
    BY <1>3 DEF NoticeInv
  <2> QED
    BY <1>1, <2>5, <2>6 DEF NoticeInv
<1> QED
  BY <1>4, <1>5 DEF Notify

LEMMA NoticeInvStep == LensInv /\ NoticeInv /\ [Next]_vars => NoticeInv'
<1> SUFFICES ASSUME LensInv, NoticeInv, [Next]_vars
             PROVE  NoticeInv'
  OBVIOUS
<1>0. TypeOK
  BY DEF LensInv
<1>1. ASSUME NEW h \in Handlers, NEW b \in Bodies, Deliver(h, b)
      PROVE  NoticeInv'
  <2>1. UNCHANGED <<claims, claimFaulted, notices>>
    BY <1>1 DEF Deliver
  <2>2. handler[h].pc = "idle" /\ \A g \in Handlers \ {h} : handler'[g] = handler[g]
    BY <1>0, <1>1 DEF Deliver, TypeOK, Idle
  <2>3. \A a \in Identified : ~ Past(h, a)'
    BY <1>0, <1>1 DEF Deliver, Past, AlertIn, TypeOK, Idle
  <2> QED
    BY <2>1, <2>2, <2>3, NoticeInvKept DEF Past, Turned, AlertIn
<1>2. ASSUME NEW h \in Handlers, Record(h)
      PROVE  NoticeInv'
  <2>1. /\ UNCHANGED <<claims, claimFaulted, notices>>
        /\ handler[h].pc = "record" /\ (Goto(h, "lookup") \/ Answer(h))
    BY <1>2 DEF Record
  <2>2. /\ \A g \in Handlers \ {h} : handler'[g] = handler[g]
        /\ handler'[h].pc = "idle" \/ handler'[h].body = handler[h].body
    BY <1>0, <2>1, GotoEntry, AnswerEntry
  <2>3. \A g \in Handlers : \A a : Past(g, a)' => Past(g, a)
    BY <2>1, <2>2 DEF Past, AlertIn
  <2>4. \A g \in Handlers : \A i : Turned(g, i) => Turned(g, i)'
    BY <2>1, <2>2 DEF Turned
  <2> QED
    BY <2>1, <2>3, <2>4, NoticeInvKept
<1>3. ASSUME NEW h \in Handlers, LookUp(h), ~ Answer(h)
      PROVE  NoticeInv'
  <2>1. /\ UNCHANGED <<claims, claimFaulted, notices>> /\ handler[h].pc = "lookup"
        /\ handler' = [handler EXCEPT ![h] =
             [handler[h] EXCEPT !.pc = "notify", !.todo = AlertTargets(AlertIn(h))]]
    BY <1>3 DEF LookUp
  <2>2. /\ handler'[h].body = handler[h].body
        /\ \A g \in Handlers \ {h} : handler'[g] = handler[g]
    BY <1>0, <2>1, HandlerBusy DEF TypeOK
  <2>3. \A g \in Handlers : \A a : Past(g, a)' => Past(g, a)
    BY <2>1, <2>2 DEF Past, AlertIn
  <2>4. \A g \in Handlers : \A i : Turned(g, i) => Turned(g, i)'
    BY <2>1, <2>2 DEF Turned
  <2> QED
    BY <2>1, <2>3, <2>4, NoticeInvKept
<1>4. ASSUME NEW h \in Handlers, Answer(h), LookUp(h) \/ Notified(h) \/ CutOff(h)
      PROVE  NoticeInv'
  <2>1. UNCHANGED <<claims, claimFaulted, notices>>
    BY <1>4 DEF LookUp, Notified, CutOff
  <2>2. /\ \A g \in Handlers \ {h} : handler'[g] = handler[g]
        /\ handler'[h].pc = "idle"
    BY <1>0, <1>4, AnswerEntry
  <2> QED
    BY <2>1, <2>2, NoticeInvKept DEF Past, Turned, AlertIn
<1>5. CASE \/ (\E a \in Alerts : GoStale(a)) \/ UNCHANGED vars
           \/ SyncNext \/ EditIssue
  <2>1. UNCHANGED <<claims, claimFaulted, notices, handler>>
    BY <1>5 DEF GoStale, vars, SyncNext, Sync, EditIssue, BeginRun, EndRun, Land, NextLens,
                Fetch, Locate, Restart, LogRequest, ExpireRequest, RecordLensBilling,
                OwnerLeaves, webhookVars
  <2> QED
    BY <2>1, NoticeInvKept DEF Past, Turned, AlertIn
<1> QED
  BY <1>0, <1>1, <1>2, <1>3, <1>4, <1>5, ClaimKeepsNotices, NotifyKeepsNotices
     DEF Next, WebhookNext, Notified, CutOff

\* Repeats, other encodings and deliveries handled at once notify an assignee
\* of an identified alert once per issue (ServeHTTP's claim and its loop over
\* the targets).
THEOREM AlertsNotifyOnce == Spec => []AlertNotifiesOnce
<1>1. Init => NoticeInv
  BY LensSide DEF Init, NoticeInv, Past, Idle
<1>2. NoticeInv => AlertNotifiesOnce
  BY DEF NoticeInv, AlertNotifiesOnce
<1> QED
  BY <1>1, <1>2, LensInvInit, LensInvStep, NoticeInvStep, PTL DEF Spec
=============================================================================
