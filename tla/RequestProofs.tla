---------------------------- MODULE RequestProofs ----------------------------
(***************************************************************************)
(* Proofs about requests that run their statements between each other's:   *)
(* IssueStore, for every set of teams, prefixes and callers and every scan *)
(* bound, MemberRoles and Timers, for every set of rows and of requests.   *)
(***************************************************************************)
EXTENDS IssueStore, MemberRoles, Timers, FiniteSetTheorems, TLAPS

(***************************************************************************)
(* IssueStore.  AllocationUsable is strengthened to a statement about the  *)
(* issues a caller saw, which later inserts cannot disturb: rows never leave, *)
(* and those seen keep their team and number.                              *)
(***************************************************************************)

\* What a caller chose was free among the issues it saw, and those are still there.
ChosenWasFree ==
    \A c \in Callers : caller[c].pc = "insert" =>
        /\ caller[c].seen \subseteq Taken
        /\ caller[c].free \notin caller[c].seen
        /\ \A k \in caller[c].seen :
             issues[k].team = caller[c].team => issues[k].number # caller[c].number

StoreInv == TypeOK /\ ChosenWasFree /\ CompletedIsDelivered

\* Rows stay, with their identity.
RowsKept == \A k \in Taken : k \in Taken' /\ Identity(issues'[k]) = Identity(issues[k])

-----------------------------------------------------------------------------

\* A function given by an expression has the domain it says.
LEMMA WithRow ==
    ASSUME TypeOK, NEW k \in Keys, NEW row \in Row, k \notin Taken, issues' = With(k, row)
    PROVE  /\ Taken' = Taken \cup {k} /\ Taken' \subseteq Keys
           /\ issues' \in [Taken' -> Row] /\ issues'[k] = row
           /\ \A x \in Taken : issues'[x] = issues[x]
BY DEF TypeOK, With, Taken

LEMMA NewRowIsRow ==
    ASSUME NEW s, s.team \in Teams, s.number \in 1 .. MaxNumber, s.native \in BOOLEAN,
           NEW status \in Statuses, NEW completed \in BOOLEAN
    PROVE  NewRow(s, status, completed) \in Row
BY DEF NewRow, Row

LEMMA InsertLocal ==
    ASSUME TypeOK, NEW c \in Callers, caller[c].pc = "insert"
    PROVE  caller[c] \in [pc : {"insert"}, team : Teams, native : BOOLEAN, key : Keys,
                          number : 1 .. MaxNumber, free : Keys, seen : SUBSET Keys]
BY DEF TypeOK, CallerState, Idle

LEMMA NumberLocal ==
    ASSUME TypeOK, NEW c \in Callers, caller[c].pc = "number"
    PROVE  caller[c] \in [pc : {"number"}, team : Teams, prefix : Prefixes,
                          native : BOOLEAN, key : Keys]
BY DEF TypeOK, CallerState, Idle

\* While rows are kept, so is what the callers that do not move chose.
LEMMA ChoiceKept ==
    ASSUME StoreInv, RowsKept, NEW c \in Callers, caller[c].pc = "insert", caller'[c] = caller[c]
    PROVE  /\ caller'[c].seen \subseteq Taken'
           /\ caller'[c].free \notin caller'[c].seen
           /\ \A k \in caller'[c].seen :
                issues'[k].team = caller'[c].team => issues'[k].number # caller'[c].number
BY DEF StoreInv, RowsKept, ChosenWasFree, Identity

LEMMA InitStore == Init => StoreInv
<1> SUFFICES ASSUME Init PROVE StoreInv
  OBVIOUS
<1>1. Taken = {}
  BY DEF Init, Taken
<1>2. TypeOK
  BY <1>1 DEF Init, TypeOK, CallerState, Idle, Taken
<1>3. ChosenWasFree
  BY DEF Init, ChosenWasFree, Idle
<1> QED
  BY <1>1, <1>2, <1>3 DEF StoreInv, CompletedIsDelivered

-----------------------------------------------------------------------------
(* Steps that leave the rows alone.                                        *)

LEMMA SameRows ==
    ASSUME TypeOK, issues' = issues
    PROVE  RowsKept
BY DEF RowsKept, Taken

\* A caller moves to a state that chose nothing.
LEMMA UnchosenStep ==
    ASSUME StoreInv, NEW c \in Callers, issues' = issues, retired' = retired, TypeOK',
           caller'[c].pc # "insert",
           \A d \in Callers : d # c => caller'[d] = caller[d]
    PROVE  StoreInv'
<1>1. ChosenWasFree'
  BY SameRows, ChoiceKept DEF StoreInv, ChosenWasFree
<1>2. CompletedIsDelivered'
  BY DEF StoreInv, CompletedIsDelivered, Taken
<1> QED
  BY <1>1, <1>2 DEF StoreInv

LEMMA BeginKeeps ==
    ASSUME StoreInv, NEW c \in Callers, NEW t \in Teams, NEW native \in BOOLEAN, NEW k \in Keys,
           Begin(c, t, native, k)
    PROVE  StoreInv'
<1>1. TypeOK' /\ caller'[c].pc = "number" /\ \A d \in Callers : d # c => caller'[d] = caller[d]
  BY DEF StoreInv, TypeOK, Begin, Becomes, CallerState, Taken
<1> QED
  BY <1>1, UnchosenStep DEF Begin

LEMMA GiveUpKeeps ==
    ASSUME StoreInv, NEW c \in Callers, GiveUp(c)
    PROVE  StoreInv'
<1>1. TypeOK' /\ caller'[c] = Idle /\ \A d \in Callers : d # c => caller'[d] = caller[d]
  BY DEF StoreInv, TypeOK, GiveUp, Becomes, CallerState, Taken
<1> QED
  BY <1>1, UnchosenStep DEF GiveUp, Idle

LEMMA AllocateKeeps ==
    ASSUME StoreInv, NEW c \in Callers, Allocate(c)
    PROVE  StoreInv'
<1> DEFINE s == caller[c]
<1>1. PICK n \in 1 .. MaxNumber :
        /\ nextIssueNumber(s.team, s.prefix, n)
        /\ caller' = [caller EXCEPT ![c] =
             [pc |-> "insert", team |-> s.team, native |-> s.native,
              key |-> IF s.native THEN <<s.prefix, n>> ELSE s.key,
              number |-> n, free |-> <<s.prefix, n>>, seen |-> Taken]]
  BY DEF Allocate, Becomes
<1>2. s \in [pc : {"number"}, team : Teams, prefix : Prefixes, native : BOOLEAN, key : Keys]
  BY NumberLocal DEF StoreInv, Allocate
<1>3. issues' = issues /\ prefix' = prefix /\ retired' = retired
  BY DEF Allocate
<1>4. <<s.prefix, n>> \in Keys
  BY <1>2 DEF Keys
<1>5. TypeOK'
  BY <1>1, <1>2, <1>3, <1>4 DEF StoreInv, TypeOK, CallerState, Taken
<1>6. \A k \in Taken : issues[k].team = s.team => issues[k].number < n
  BY <1>1 DEF nextIssueNumber
<1>7. <<s.prefix, n>> \notin Taken
  BY <1>1 DEF nextIssueNumber
<1>8. \A k \in Taken : issues[k].number \in 1 .. MaxNumber
  BY DEF StoreInv, TypeOK, Row
<1>9. /\ caller'[c].seen = Taken /\ caller'[c].free = <<s.prefix, n>>
      /\ caller'[c].number = n /\ caller'[c].team = s.team
      /\ \A d \in Callers : d # c => caller'[d] = caller[d]
  BY <1>1 DEF StoreInv, TypeOK
<1>10. ChosenWasFree'
  <2> SUFFICES ASSUME NEW d \in Callers, caller'[d].pc = "insert"
               PROVE  /\ caller'[d].seen \subseteq Taken'
                      /\ caller'[d].free \notin caller'[d].seen
                      /\ \A k \in caller'[d].seen :
                           issues'[k].team = caller'[d].team => issues'[k].number # caller'[d].number
    BY DEF ChosenWasFree
  <2>1. CASE d = c
    <3>1. \A k \in Taken : issues[k].team = s.team => issues[k].number # n
      BY <1>6, <1>8, StoreSide
    <3> QED
      BY <1>3, <1>7, <1>9, <2>1, <3>1 DEF Taken
  <2>2. CASE d # c
    BY <1>3, <1>9, <2>2, SameRows, ChoiceKept DEF StoreInv
  <2> QED
    BY <2>1, <2>2
<1>11. CompletedIsDelivered'
  BY <1>3 DEF StoreInv, CompletedIsDelivered, Taken
<1> QED
  BY <1>5, <1>10, <1>11 DEF StoreInv

-----------------------------------------------------------------------------
(* Steps that write rows.                                                  *)

\* A new row, by Create or by an import.
LEMMA InsertRow ==
    ASSUME StoreInv, NEW c \in Callers, caller[c].pc = "insert", NEW status \in Statuses,
           NEW supplied \in BOOLEAN, caller[c].key \notin Taken, UNCHANGED <<prefix, retired>>,
           issues' = With(caller[c].key, NewRow(caller[c], status, supplied /\ status = "done")),
           Becomes(c, Idle)
    PROVE  StoreInv' /\ RowsKept
<1> DEFINE s == caller[c]
           row == NewRow(s, status, supplied /\ status = "done")
<1>1. row \in Row /\ s.key \in Keys
  BY InsertLocal, NewRowIsRow DEF StoreInv
<1>2. /\ Taken' = Taken \cup {s.key} /\ Taken' \subseteq Keys
      /\ issues' \in [Taken' -> Row] /\ issues'[s.key] = row
      /\ \A x \in Taken : issues'[x] = issues[x]
  BY <1>1, WithRow DEF StoreInv
<1>3. RowsKept
  BY <1>2 DEF RowsKept
<1>4. TypeOK' /\ caller'[c] = Idle /\ \A d \in Callers : d # c => caller'[d] = caller[d]
  BY <1>2 DEF StoreInv, TypeOK, Becomes, CallerState
<1>5. ChosenWasFree'
  BY <1>3, <1>4, ChoiceKept DEF ChosenWasFree, Idle
<1>6. row.completed => row.status = "done"
  BY DEF NewRow
<1>7. CompletedIsDelivered'
  BY <1>2, <1>6 DEF StoreInv, CompletedIsDelivered
<1> QED
  BY <1>3, <1>4, <1>5, <1>7 DEF StoreInv

LEMMA InsertNothing ==
    ASSUME StoreInv, NEW c \in Callers, Becomes(c, Idle),
           UNCHANGED <<prefix, issues, retired>>
    PROVE  StoreInv' /\ RowsKept
<1>1. TypeOK' /\ caller'[c] = Idle /\ \A d \in Callers : d # c => caller'[d] = caller[d]
  BY DEF StoreInv, TypeOK, Becomes, CallerState, Taken
<1> QED
  BY <1>1, UnchosenStep, SameRows DEF Idle, StoreInv

LEMMA InsertNativeKeeps ==
    ASSUME StoreInv, NEW c \in Callers, InsertNative(c)
    PROVE  StoreInv' /\ RowsKept
<1>1. CASE caller[c].key \in Taken \/ NumberTaken(caller[c].team, caller[c].number)
  BY <1>1, InsertNothing DEF InsertNative
<1>2. CASE ~ (caller[c].key \in Taken \/ NumberTaken(caller[c].team, caller[c].number))
  BY <1>2, InsertRow DEF InsertNative
<1> QED
  BY <1>1, <1>2

LEMMA UpsertKeeps ==
    ASSUME StoreInv, NEW c \in Callers, Upsert(c)
    PROVE  StoreInv' /\ RowsKept
<1>1. CASE caller[c].key \in Taken \/ NumberTaken(caller[c].team, caller[c].number)
  BY <1>1, InsertNothing DEF Upsert
<1>2. CASE ~ (caller[c].key \in Taken \/ NumberTaken(caller[c].team, caller[c].number))
  BY <1>2, InsertRow DEF Upsert
<1> QED
  BY <1>1, <1>2

\* Rows rewritten where they are, callers untouched.
LEMMA RewriteKeeps ==
    ASSUME StoreInv, UNCHANGED <<prefix, caller>>, issues' \in [Taken -> Row],
           retired' \in SUBSET Taken,
           \A k \in Taken : Identity(issues'[k]) = Identity(issues[k]),
           \A k \in Taken :
             issues'[k].completed => issues'[k].status = "done" \/ k \in retired'
    PROVE  StoreInv' /\ RowsKept
<1>1. Taken' = Taken
  BY DEF Taken
<1>2. RowsKept
  BY <1>1 DEF RowsKept
<1>3. TypeOK'
  BY <1>1 DEF StoreInv, TypeOK
<1>4. ChosenWasFree'
  BY <1>2, ChoiceKept DEF ChosenWasFree
<1>5. CompletedIsDelivered'
  BY <1>1 DEF CompletedIsDelivered
<1> QED
  BY <1>2, <1>3, <1>4, <1>5 DEF StoreInv

LEMMA MovedRow ==
    ASSUME NEW row \in Row, NEW status \in Statuses
    PROVE  /\ Moved(row, status) \in Row /\ Identity(Moved(row, status)) = Identity(row)
           /\ Moved(row, status).completed => Moved(row, status).status = "done"
BY DEF Moved, Row, Identity

LEMMA UpdateKeeps ==
    ASSUME StoreInv, NEW k \in Keys, NEW status \in Statuses, Update(k, status)
    PROVE  StoreInv' /\ RowsKept
<1>1. issues \in [Taken -> Row] /\ k \in Taken /\ UNCHANGED <<prefix, caller>>
      /\ issues' = [issues EXCEPT ![k] = Moved(issues[k], status)]
  BY DEF StoreInv, TypeOK, Update
<1>2. issues' \in [Taken -> Row]
  BY <1>1, MovedRow
<1>3. \A x \in Taken : issues'[x] = IF x = k THEN Moved(issues[k], status) ELSE issues[x]
  BY <1>1
<1>4. \A x \in Taken : Identity(issues'[x]) = Identity(issues[x])
  BY <1>1, <1>3, MovedRow
<1>5. retired' = retired \ {k} /\ retired' \in SUBSET Taken
  BY DEF StoreInv, TypeOK, Update
<1>6. \A x \in Taken : issues'[x].completed => issues'[x].status = "done" \/ x \in retired'
  BY <1>1, <1>3, <1>5, MovedRow DEF StoreInv, CompletedIsDelivered
<1> QED
  BY <1>1, <1>2, <1>4, <1>5, <1>6, RewriteKeeps

LEMMA BulkUpdateKeeps ==
    ASSUME StoreInv, BulkUpdate
    PROVE  StoreInv' /\ RowsKept
<1>1. PICK S \in SUBSET Taken : \E to \in [S -> Statuses] :
        /\ issues' = [k \in Taken |-> IF k \in S THEN Moved(issues[k], to[k]) ELSE issues[k]]
        /\ retired' = retired \ S
  BY DEF BulkUpdate
<1>2. PICK to \in [S -> Statuses] :
        /\ issues' = [k \in Taken |-> IF k \in S THEN Moved(issues[k], to[k]) ELSE issues[k]]
        /\ retired' = retired \ S
  BY <1>1
<1>3. issues \in [Taken -> Row] /\ UNCHANGED <<prefix, caller>>
  BY DEF StoreInv, TypeOK, BulkUpdate
<1>4. ASSUME NEW k \in Taken
      PROVE  /\ issues'[k] \in Row /\ Identity(issues'[k]) = Identity(issues[k])
             /\ issues'[k].completed => issues'[k].status = "done" \/ k \in retired'
  <2>1. CASE k \in S
    <3>1. to[k] \in Statuses /\ issues[k] \in Row /\ issues'[k] = Moved(issues[k], to[k])
      BY <1>2, <1>3, <2>1
    <3> QED
      BY <3>1, MovedRow
  <2>2. CASE k \notin S
    BY <1>2, <1>3, <2>2 DEF StoreInv, CompletedIsDelivered
  <2> QED
    BY <2>1, <2>2
<1>5. issues' \in [Taken -> Row]
  BY <1>2, <1>4
<1>6. retired' \in SUBSET Taken
  BY <1>2 DEF StoreInv, TypeOK
<1> QED
  BY <1>3, <1>4, <1>5, <1>6, RewriteKeeps

LEMMA DeleteKeeps ==
    ASSUME StoreInv, NEW k \in Keys, Delete(k)
    PROVE  StoreInv' /\ RowsKept
<1>1. issues \in [Taken -> Row] /\ k \in Taken /\ UNCHANGED <<prefix, caller>>
      /\ issues' = [issues EXCEPT ![k] = [issues[k] EXCEPT !.status = "cancelled"]]
  BY DEF StoreInv, TypeOK, Delete
<1>2. issues' \in [Taken -> Row]
  BY <1>1 DEF Row, Statuses
<1>3. \A x \in Taken : issues'[x] =
        IF x = k THEN [issues[k] EXCEPT !.status = "cancelled"] ELSE issues[x]
  BY <1>1
<1>4. issues[k] \in Row
  BY <1>1
<1>5. \A x \in Taken : Identity(issues'[x]) = Identity(issues[x])
  BY <1>3, <1>4 DEF Identity, Row
<1>6. /\ retired' = IF issues[k].status = "done" THEN retired \cup {k} ELSE retired
      /\ retired' \in SUBSET Taken
  BY DEF StoreInv, TypeOK, Delete
<1>7. \A x \in Taken : issues'[x].completed => issues'[x].status = "done" \/ x \in retired'
  <2>1. ASSUME NEW x \in Taken, issues'[x].completed
        PROVE  issues[x].completed
    BY <1>3, <1>4, <2>1 DEF Row
  <2>2. \A x \in Taken : issues[x].completed => issues[x].status = "done" \/ x \in retired
    BY DEF StoreInv, CompletedIsDelivered
  <2> QED
    BY <1>3, <1>6, <2>1, <2>2
<1> QED
  BY <1>1, <1>2, <1>5, <1>6, <1>7, RewriteKeeps

LEMMA RenameTeamKeeps ==
    ASSUME StoreInv, NEW t \in Teams, NEW p \in Prefixes, RenameTeam(t, p)
    PROVE  StoreInv' /\ RowsKept
<1>1. /\ issues' = issues /\ caller' = caller /\ retired' = retired
      /\ prefix' \in [Teams -> Prefixes]
  BY DEF StoreInv, TypeOK, RenameTeam
<1> QED
  BY <1>1 DEF StoreInv, TypeOK, ChosenWasFree, CompletedIsDelivered, RowsKept, Taken

-----------------------------------------------------------------------------

LEMMA StoreStep == StoreInv /\ [Next]_vars => StoreInv' /\ RowsKept
<1> SUFFICES ASSUME StoreInv, [Next]_vars PROVE StoreInv' /\ RowsKept
  OBVIOUS
<1>1. CASE UNCHANGED vars
  BY <1>1 DEF vars, StoreInv, TypeOK, ChosenWasFree, CompletedIsDelivered, RowsKept, Taken
<1>2. ASSUME NEW c \in Callers, NEW t \in Teams, BeginCreate(c, t)
      PROVE  StoreInv' /\ RowsKept
  <2>1. <<prefix[t], 1>> \in Keys
    BY StoreSide DEF StoreInv, TypeOK, Keys
  <2> QED
    BY <1>2, <2>1, BeginKeeps, SameRows DEF BeginCreate, Begin, StoreInv
<1>3. ASSUME NEW c \in Callers, NEW t \in Teams, NEW k \in ProviderKeys, BeginUpsert(c, t, k)
      PROVE  StoreInv' /\ RowsKept
  BY <1>3, StoreSide, BeginKeeps, SameRows DEF BeginUpsert, Begin, StoreInv
<1>4. ASSUME NEW c \in Callers, Allocate(c) \/ GiveUp(c)
      PROVE  StoreInv' /\ RowsKept
  BY <1>4, AllocateKeeps, GiveUpKeeps, SameRows DEF Allocate, GiveUp, StoreInv
<1>5. ASSUME NEW c \in Callers, InsertNative(c) \/ Upsert(c)
      PROVE  StoreInv' /\ RowsKept
  BY <1>5, InsertNativeKeeps, UpsertKeeps
<1>6. ASSUME NEW k \in Keys, Delete(k) \/ \E s \in Statuses : Update(k, s)
      PROVE  StoreInv' /\ RowsKept
  BY <1>6, DeleteKeeps, UpdateKeeps
<1>7. ASSUME NEW t \in Teams, NEW p \in Prefixes, RenameTeam(t, p)
      PROVE  StoreInv' /\ RowsKept
  BY <1>7, RenameTeamKeeps
<1> QED
  BY <1>1, <1>2, <1>3, <1>4, <1>5, <1>6, <1>7, BulkUpdateKeeps DEF Next

THEOREM StoreInvariant == Spec => []StoreInv
BY InitStore, StoreStep, PTL DEF Spec

\* Rows and callers stay in the states the code has, whatever the instance.
THEOREM StoreTypeCorrect == Spec => []TypeOK
BY StoreInvariant, PTL DEF StoreInv

\* nextIssueNumber: no mixture of imports, native issues, renames and races
\* leads it to a number that cannot be used.
THEOREM AllocationsAreUsable == Spec => []AllocationUsable
<1>1. StoreInv => AllocationUsable
  BY DEF StoreInv, ChosenWasFree, AllocationUsable, NumberTaken
<1> QED
  BY <1>1, StoreInvariant, PTL

\* A completion time is only on a row that is done, or on one that was done when
\* it was deleted and whose status nobody wrote since.
THEOREM CompletedAreDelivered == Spec => []CompletedIsDelivered
BY StoreInvariant, PTL DEF StoreInv

\* No step removes a row or changes its team, its number or where it came from.
THEOREM IdentitiesArePermanent == Spec => IdentityIsPermanent
<1>1. StoreInv /\ [Next]_vars =>
        [\A k \in Taken : k \in Taken' /\ Identity(issues'[k]) = Identity(issues[k])]_vars
  BY StoreStep DEF RowsKept
<1> QED
  BY <1>1, StoreInvariant, PTL DEF Spec, IdentityIsPermanent

-----------------------------------------------------------------------------
(***************************************************************************)
(* MemberRoles.  The inductive invariant says what the locks are worth: the *)
(* owners a transaction counted are owners still, because it holds their   *)
(* rows, and the member an add is about to insert is still missing, because *)
(* it holds the workspace's row.                                           *)
(***************************************************************************)

Pcs(c, S) == tx[c].pc \in S

\* A counted owner is locked and still one; two were counted.
OwnersHeld ==
    \A c \in Clients : Pcs(c, {"count", "write"}) =>
        \A m \in tx[c].owners : rowLock[m] = c /\ role[m] = "owner"

TwoCounted ==
    \A c \in Clients : Pcs(c, {"write"}) /\ tx[c].owners # {} =>
        \E m, n \in tx[c].owners : m # n

\* One add at a time past the workspace's lock, and nobody took its place.
SpaceHeld ==
    Seated => \A c \in Clients : Pcs(c, {"seats", "check", "insert"}) => spaceLock = c

StillMissing ==
    Seated => \A c \in Clients : Pcs(c, {"check", "insert"}) =>
        /\ SameAddress(tx[c].target) = {}
        /\ Cardinality(Present) < SeatLimit

RolesInv ==
    /\ RolesTypeOK /\ OwnersHeld /\ TwoCounted /\ SpaceHeld /\ StillMissing
    /\ OneMemberPerAddress /\ WithinSeats

-----------------------------------------------------------------------------

\* Rows that only leave cannot break what is said of those present.
LEMMA FewerPresent ==
    ASSUME NEW S, NEW T, T \subseteq S, S \subseteq Members
    PROVE  Cardinality(T) <= Cardinality(S)
           /\ Cardinality(T) \in Nat /\ Cardinality(S) \in Nat
<1>1. IsFiniteSet(S)
  BY MemberSide, FS_Subset
<1>2. IsFiniteSet(T) /\ Cardinality(T) <= Cardinality(S)
  BY <1>1, FS_Subset
<1> QED
  BY <1>1, <1>2, FS_CardinalityType

\* What every transaction's end does to the locks of the others.
LEMMA EndKeeps ==
    ASSUME RolesTypeOK, NEW c \in Clients, End(c)
    PROVE  /\ tx' \in [Clients -> TxState] /\ tx'[c] = NoTx
           /\ \A d \in Clients : d # c => tx'[d] = tx[d]
           /\ rowLock' \in [Members -> Clients \cup {None}]
           /\ \A m \in Members, d \in Clients : d # c /\ rowLock[m] = d => rowLock'[m] = d
           /\ spaceLock' \in Clients \cup {None}
           /\ \A d \in Clients : d # c /\ spaceLock = d => spaceLock' = d
BY DEF RolesTypeOK, End, Does, TxState, NoTx

LEMMA InitRoles == RolesInit => RolesInv
<1> SUFFICES ASSUME RolesInit PROVE RolesInv
  OBVIOUS
<1>1. RolesTypeOK
  BY MemberSide DEF RolesInit, RolesTypeOK, TxState, NoTx, Outcomes
<1>2. OwnersHeld /\ TwoCounted /\ SpaceHeld /\ StillMissing
  BY DEF RolesInit, OwnersHeld, TwoCounted, SpaceHeld, StillMissing, Pcs, NoTx
<1>3. Present = {Founder}
  BY MemberSide DEF RolesInit, Present
<1>4. Cardinality(Present) = 1
  BY <1>3, FS_Singleton
<1>5. OneMemberPerAddress /\ WithinSeats
  BY <1>3, <1>4, MemberSide DEF OneMemberPerAddress, WithinSeats
<1> QED
  BY <1>1, <1>2, <1>5 DEF RolesInv


\* A step that changes no role and ends no transaction: what is to show is the
\* new local state, and the locks it took.
LEMMA QuietStep ==
    ASSUME RolesInv, NEW c \in Clients, role' = role, RolesTypeOK',
           \A d \in Clients : d # c => tx'[d] = tx[d],
           \A m \in Members, d \in Clients : d # c /\ rowLock[m] = d => rowLock'[m] = d,
           \A d \in Clients : d # c /\ spaceLock = d => spaceLock' = d,
           Pcs(c, {"count", "write"})' =>
             \A m \in tx'[c].owners : rowLock'[m] = c /\ role[m] = "owner",
           Pcs(c, {"write"})' /\ tx'[c].owners # {} => \E m, n \in tx'[c].owners : m # n,
           Seated /\ Pcs(c, {"seats", "check", "insert"})' => spaceLock' = c,
           Seated /\ Pcs(c, {"check", "insert"})' =>
             SameAddress(tx'[c].target) = {} /\ Cardinality(Present) < SeatLimit
    PROVE  RolesInv'
<1>1. Present' = Present
  BY DEF Present
<1>2. \A m : SameAddress(m)' = SameAddress(m)
  BY <1>1 DEF SameAddress
<1>3. OwnersHeld'
  <2> SUFFICES ASSUME NEW d \in Clients, Pcs(d, {"count", "write"})', NEW m \in tx'[d].owners
               PROVE  rowLock'[m] = d /\ role[m] = "owner"
    BY DEF OwnersHeld
  <2>1. CASE d = c
    BY <2>1
  <2>2. CASE d # c
    <3>1. tx'[d] = tx[d]
      BY <2>2
    <3>2. rowLock[m] = d /\ role[m] = "owner"
      BY <3>1 DEF RolesInv, OwnersHeld, Pcs
    <3>3. m \in Members
      BY <3>1, MemberSide DEF RolesInv, RolesTypeOK, TxState, NoTx, Pcs
    <3> QED
      BY <2>2, <3>2, <3>3
  <2> QED
    BY <2>1, <2>2
<1>4. TwoCounted'
  BY DEF RolesInv, TwoCounted, Pcs
<1>5. SpaceHeld'
  BY DEF RolesInv, SpaceHeld, Pcs
<1>6. StillMissing'
  BY <1>1, <1>2 DEF RolesInv, StillMissing, Pcs
<1>7. OneMemberPerAddress' /\ WithinSeats'
  BY <1>1 DEF RolesInv, OneMemberPerAddress, WithinSeats
<1> QED
  BY <1>3, <1>4, <1>5, <1>6, <1>7 DEF RolesInv

\* A transaction that ends and wrote nothing.
LEMMA EndStep ==
    ASSUME RolesInv, NEW c \in Clients, End(c), role' = role
    PROVE  RolesInv'
<1>1. RolesTypeOK
  BY DEF RolesInv
<1>2. RolesTypeOK'
  BY <1>1, EndKeeps DEF RolesTypeOK
<1> QED
  BY <1>1, <1>2, EndKeeps, QuietStep DEF Pcs, NoTx

LEMMA BeginStep ==
    ASSUME RolesInv, NEW c \in Clients, NEW m \in Members, NEW to \in Outcomes, BeginChange(c, m, to)
    PROVE  RolesInv'
<1>1. RolesTypeOK'
  BY DEF RolesInv, RolesTypeOK, BeginChange, Does, TxState
<1>2. tx'[c].pc = "load" /\ \A d \in Clients : d # c => tx'[d] = tx[d]
  BY DEF RolesInv, RolesTypeOK, BeginChange, Does
<1> QED
  BY <1>1, <1>2, QuietStep DEF BeginChange, Pcs

LEMMA LoadStep ==
    ASSUME RolesInv, NEW c \in Clients, Load(c)
    PROVE  RolesInv'
<1> DEFINE m == tx[c].target
           to == tx[c].to
<1>1. tx[c] \in [pc : {"load"}, target : Members, to : Outcomes]
  BY DEF RolesInv, RolesTypeOK, TxState, Load, NoTx
<1>2. CASE m \notin Present
  BY <1>2, EndStep DEF Load
<1>3. CASE m \in Present /\ role[m] = "owner" /\ to # "owner"
  <2>1. tx' = [tx EXCEPT ![c] = [pc |-> "count", target |-> m, to |-> to,
                                 todo |-> Owners, owners |-> {}]]
    BY <1>3 DEF Load, Does
  <2>2. UNCHANGED <<role, rowLock, spaceLock>>
    BY <1>3 DEF Load
  <2>3. RolesTypeOK'
    BY <1>1, <2>1, <2>2 DEF RolesInv, RolesTypeOK, TxState, Owners
  <2>4. tx'[c].pc = "count" /\ tx'[c].owners = {}
    BY <2>1 DEF RolesInv, RolesTypeOK
  <2> QED
    BY <2>1, <2>2, <2>3, <2>4, QuietStep DEF Pcs, RolesInv, RolesTypeOK
<1>4. CASE m \in Present /\ ~ (role[m] = "owner" /\ to # "owner")
  <2>1. tx' = [tx EXCEPT ![c] = [pc |-> "write", target |-> m, to |-> to, owners |-> {}]]
    BY <1>4 DEF Load, Does, Continue
  <2>2. UNCHANGED <<role, rowLock, spaceLock>>
    BY <1>4 DEF Load
  <2>3. RolesTypeOK'
    BY <1>1, <2>1, <2>2 DEF RolesInv, RolesTypeOK, TxState
  <2>4. tx'[c].pc = "write" /\ tx'[c].owners = {}
    BY <2>1 DEF RolesInv, RolesTypeOK
  <2> QED
    BY <2>1, <2>2, <2>3, <2>4, QuietStep DEF Pcs, RolesInv, RolesTypeOK
<1> QED
  BY <1>2, <1>3, <1>4

LEMMA LockOwnerStep ==
    ASSUME RolesInv, NEW c \in Clients, NEW m \in Members, LockOwner(c, m)
    PROVE  RolesInv'
<1>1. tx[c] \in [pc : {"count"}, target : Members, to : Outcomes,
                 todo : SUBSET Members, owners : SUBSET Members]
  BY DEF RolesInv, RolesTypeOK, TxState, LockOwner, NoTx
<1>2. \A n \in tx[c].owners : rowLock[n] = c /\ role[n] = "owner"
  BY <1>1 DEF RolesInv, OwnersHeld, Pcs
<1>3. CASE role[m] = "owner"
  <2>1. tx' = [tx EXCEPT ![c] = [tx[c] EXCEPT !.todo = @ \ {m}, !.owners = @ \cup {m}]]
        /\ rowLock' = [rowLock EXCEPT ![m] = c]
        /\ UNCHANGED <<role, spaceLock>> /\ rowLock[m] \in {None, c}
    BY <1>3 DEF LockOwner, Does
  <2>2. RolesTypeOK'
    BY <1>1, <2>1 DEF RolesInv, RolesTypeOK, TxState
  <2>3. tx'[c].pc = "count" /\ tx'[c].owners = tx[c].owners \cup {m}
    BY <1>1, <2>1 DEF RolesInv, RolesTypeOK
  <2>4. \A n \in tx'[c].owners : rowLock'[n] = c /\ role[n] = "owner"
    BY <1>1, <1>2, <1>3, <2>1, <2>3 DEF RolesInv, RolesTypeOK
  <2>5. \A n \in Members, d \in Clients : d # c /\ rowLock[n] = d => rowLock'[n] = d
    BY <2>1, MemberSide DEF RolesInv, RolesTypeOK
  <2> QED
    BY <2>1, <2>2, <2>3, <2>4, <2>5, QuietStep DEF Pcs, RolesInv, RolesTypeOK
<1>4. CASE role[m] # "owner"
  <2>1. tx' = [tx EXCEPT ![c] = [tx[c] EXCEPT !.todo = @ \ {m}]]
        /\ UNCHANGED <<role, rowLock, spaceLock>>
    BY <1>4 DEF LockOwner, Does
  <2>2. RolesTypeOK'
    BY <1>1, <2>1 DEF RolesInv, RolesTypeOK, TxState
  <2>3. tx'[c].pc = "count" /\ tx'[c].owners = tx[c].owners
    BY <1>1, <2>1 DEF RolesInv, RolesTypeOK
  <2> QED
    BY <1>2, <2>1, <2>2, <2>3, QuietStep DEF Pcs, RolesInv, RolesTypeOK
<1> QED
  BY <1>3, <1>4

LEMMA CountedStep ==
    ASSUME RolesInv, NEW c \in Clients, Counted(c)
    PROVE  RolesInv'
<1>1. tx[c] \in [pc : {"count"}, target : Members, to : Outcomes,
                 todo : SUBSET Members, owners : SUBSET Members]
  BY DEF RolesInv, RolesTypeOK, TxState, Counted, NoTx
<1>2. CASE \A m, n \in tx[c].owners : m = n
  BY <1>2, EndStep DEF Counted
<1>3. CASE ~ \A m, n \in tx[c].owners : m = n
  <2>1. tx' = [tx EXCEPT ![c] = [pc |-> "write", target |-> tx[c].target,
                                 to |-> tx[c].to, owners |-> tx[c].owners]]
        /\ UNCHANGED <<role, rowLock, spaceLock>>
    BY <1>3 DEF Counted, Does
  <2>2. RolesTypeOK'
    BY <1>1, <2>1 DEF RolesInv, RolesTypeOK, TxState
  <2>3. tx'[c].pc = "write" /\ tx'[c].owners = tx[c].owners
    BY <2>1 DEF RolesInv, RolesTypeOK
  <2>4. \A n \in tx[c].owners : rowLock[n] = c /\ role[n] = "owner"
    BY <1>1 DEF RolesInv, OwnersHeld, Pcs
  <2> QED
    BY <1>3, <2>1, <2>2, <2>3, <2>4, QuietStep DEF Pcs, RolesInv, RolesTypeOK
<1> QED
  BY <1>2, <1>3

LEMMA BeginAddStep ==
    ASSUME RolesInv, NEW c \in Clients, NEW m \in Members, NEW to \in {"owner", "member"},
           BeginAdd(c, m, to)
    PROVE  RolesInv'
<1>1. \A d \in Clients : d # c => tx'[d] = tx[d]
  BY DEF RolesInv, RolesTypeOK, BeginAdd, Does
<1>2. CASE Seated
  <2>1. RolesTypeOK'
    BY <1>2 DEF RolesInv, RolesTypeOK, BeginAdd, Does, TxState
  <2>2. tx'[c].pc = "lock"
    BY <1>2 DEF RolesInv, RolesTypeOK, BeginAdd, Does
  <2> QED
    BY <1>1, <2>1, <2>2, QuietStep DEF BeginAdd, Pcs
<1>3. CASE ~ Seated
  <2>1. RolesTypeOK'
    BY <1>3 DEF RolesInv, RolesTypeOK, BeginAdd, Does, TxState
  <2>2. tx'[c].pc = "check"
    BY <1>3 DEF RolesInv, RolesTypeOK, BeginAdd, Does
  <2> QED
    BY <1>1, <1>3, <2>1, <2>2, QuietStep DEF BeginAdd, Pcs
<1> QED
  BY <1>2, <1>3

\* The local state of an add.
AddState(c) == tx[c] \in [pc : {"lock", "seats", "check", "insert"}, target : Members,
                          to : {"owner", "member"}]

LEMMA AddLocal ==
    ASSUME RolesTypeOK, NEW c \in Clients, Pcs(c, {"lock", "seats", "check", "insert"})
    PROVE  AddState(c)
BY DEF RolesTypeOK, TxState, NoTx, Pcs, AddState

LEMMA LockSpaceStep ==
    ASSUME RolesInv, NEW c \in Clients, LockSpace(c)
    PROVE  RolesInv'
<1>1. AddState(c)
  BY AddLocal DEF LockSpace, RolesInv, Pcs
<1>2. tx' = [tx EXCEPT ![c] = [tx[c] EXCEPT !.pc = "seats"]] /\ spaceLock' = c
      /\ spaceLock = None /\ UNCHANGED <<role, rowLock>>
  BY DEF LockSpace, Does
<1>3. RolesTypeOK'
  BY <1>1, <1>2 DEF RolesInv, RolesTypeOK, TxState, AddState
<1>4. tx'[c].pc = "seats" /\ \A d \in Clients : d # c => tx'[d] = tx[d]
  BY <1>1, <1>2 DEF RolesInv, RolesTypeOK, AddState
<1> QED
  BY <1>2, <1>3, <1>4, MemberSide, QuietStep DEF Pcs

LEMMA SeatsStep ==
    ASSUME RolesInv, NEW c \in Clients, Seats(c)
    PROVE  RolesInv'
<1>1. AddState(c)
  BY AddLocal DEF Seats, RolesInv, Pcs
<1>2. CASE ~ (SameAddress(tx[c].target) = {} /\ Cardinality(Present) < SeatLimit)
  BY <1>2, EndStep DEF Seats
<1>3. CASE SameAddress(tx[c].target) = {} /\ Cardinality(Present) < SeatLimit
  <2>1. tx' = [tx EXCEPT ![c] = [tx[c] EXCEPT !.pc = "check"]]
        /\ UNCHANGED <<role, rowLock, spaceLock>>
    BY <1>3 DEF Seats, Does
  <2>2. RolesTypeOK'
    BY <1>1, <2>1 DEF RolesInv, RolesTypeOK, TxState, AddState
  <2>3. tx'[c].pc = "check" /\ tx'[c].target = tx[c].target
        /\ \A d \in Clients : d # c => tx'[d] = tx[d]
    BY <1>1, <2>1 DEF RolesInv, RolesTypeOK, AddState
  <2>4. Seated => spaceLock = c
    BY DEF Seats, RolesInv, SpaceHeld, Pcs
  <2> QED
    BY <1>3, <2>1, <2>2, <2>3, <2>4, QuietStep DEF Pcs
<1> QED
  BY <1>2, <1>3

LEMMA CheckStep ==
    ASSUME RolesInv, NEW c \in Clients, Check(c)
    PROVE  RolesInv'
<1>1. AddState(c)
  BY AddLocal DEF Check, RolesInv, Pcs
<1>2. CASE SameAddress(tx[c].target) # {}
  BY <1>2, EndStep DEF Check
<1>3. CASE SameAddress(tx[c].target) = {}
  <2>1. tx' = [tx EXCEPT ![c] = [tx[c] EXCEPT !.pc = "insert"]]
        /\ UNCHANGED <<role, rowLock, spaceLock>>
    BY <1>3 DEF Check, Does
  <2>2. RolesTypeOK'
    BY <1>1, <2>1 DEF RolesInv, RolesTypeOK, TxState, AddState
  <2>3. tx'[c].pc = "insert" /\ tx'[c].target = tx[c].target
        /\ \A d \in Clients : d # c => tx'[d] = tx[d]
    BY <1>1, <2>1 DEF RolesInv, RolesTypeOK, AddState
  <2>4. Seated => spaceLock = c /\ Cardinality(Present) < SeatLimit
    BY DEF Check, RolesInv, SpaceHeld, StillMissing, Pcs
  <2> QED
    BY <1>3, <2>1, <2>2, <2>3, <2>4, QuietStep DEF Pcs
<1> QED
  BY <1>2, <1>3

-----------------------------------------------------------------------------
(* The steps that change a role.                                           *)

\* Another transaction's counted owners are not the row this one writes.
LEMMA WriteElsewhere ==
    ASSUME RolesInv, NEW c \in Clients, Write(c), NEW d \in Clients, d # c,
           Pcs(d, {"count", "write"}), NEW m \in tx[d].owners
    PROVE  rowLock'[m] = d /\ role'[m] = "owner"
<1>1. m \in Members
  BY DEF RolesInv, RolesTypeOK, TxState, NoTx, Pcs
<1>2. rowLock[m] = d /\ role[m] = "owner"
  BY DEF RolesInv, OwnersHeld
<1>3. m # tx[c].target
  BY <1>2, MemberSide DEF Write
<1>4. role'[m] = role[m]
  BY <1>1, <1>3 DEF Write, RolesInv, RolesTypeOK
<1>5. rowLock'[m] = d
  BY <1>1, <1>2, EndKeeps DEF Write, RolesInv
<1> QED
  BY <1>2, <1>4, <1>5

LEMMA WriteState ==
    ASSUME RolesTypeOK, NEW c \in Clients, tx[c].pc = "write"
    PROVE  tx[c] \in [pc : {"write"}, target : Members, to : Outcomes, owners : SUBSET Members]
BY DEF RolesTypeOK, TxState, NoTx

LEMMA WriteStep ==
    ASSUME RolesInv, NEW c \in Clients, Write(c)
    PROVE  RolesInv'
<1>1. /\ tx' \in [Clients -> TxState] /\ tx'[c] = NoTx
      /\ \A d \in Clients : d # c => tx'[d] = tx[d]
      /\ rowLock' \in [Members -> Clients \cup {None}]
      /\ spaceLock' \in Clients \cup {None}
      /\ \A d \in Clients : d # c /\ spaceLock = d => spaceLock' = d
  BY EndKeeps DEF Write, RolesInv
<1>2. tx[c].target \in Members /\ tx[c].to \in Outcomes
  BY WriteState DEF Write, RolesInv
<1>3. RolesTypeOK'
  BY <1>1, <1>2 DEF Write, RolesInv, RolesTypeOK
<1>4. Present' \subseteq Present
  BY <1>2 DEF Write, Present, RolesInv, RolesTypeOK
<1>5. Cardinality(Present') <= Cardinality(Present)
      /\ Cardinality(Present') \in Nat /\ Cardinality(Present) \in Nat
  BY <1>4, FewerPresent DEF Present
<1>6. OwnersHeld'
  <2> SUFFICES ASSUME NEW d \in Clients, Pcs(d, {"count", "write"})', NEW m \in tx'[d].owners
               PROVE  rowLock'[m] = d /\ role'[m] = "owner"
    BY DEF OwnersHeld
  <2>1. d # c
    BY <1>1 DEF Pcs, NoTx
  <2> QED
    BY <1>1, <2>1, WriteElsewhere DEF Pcs
<1>7. TwoCounted'
  BY <1>1 DEF RolesInv, TwoCounted, Pcs, NoTx
<1>8. SpaceHeld'
  BY <1>1 DEF RolesInv, SpaceHeld, Pcs, NoTx
<1>9. StillMissing'
  <2> SUFFICES ASSUME Seated, NEW d \in Clients, Pcs(d, {"check", "insert"})'
               PROVE  SameAddress(tx[d].target)' = {} /\ Cardinality(Present') < SeatLimit
    BY DEF StillMissing
  <2>1. d # c /\ tx'[d] = tx[d]
    BY <1>1 DEF Pcs, NoTx
  <2>2. SameAddress(tx[d].target) = {} /\ Cardinality(Present) < SeatLimit
    BY <2>1 DEF RolesInv, StillMissing, Pcs
  <2>3. SameAddress(tx[d].target)' = {}
    BY <1>4, <2>1, <2>2 DEF SameAddress
  <2> QED
    BY <1>5, <2>2, <2>3, MemberSide
<1>10. OneMemberPerAddress'
  BY <1>4 DEF RolesInv, OneMemberPerAddress
<1>11. WithinSeats'
  BY <1>5, MemberSide DEF RolesInv, WithinSeats
<1> QED
  BY <1>3, <1>6, <1>7, <1>8, <1>9, <1>10, <1>11 DEF RolesInv

LEMMA InsertStep ==
    ASSUME RolesInv, NEW c \in Clients, Insert(c)
    PROVE  RolesInv'
<1> DEFINE t == tx[c].target
<1>1. /\ tx' \in [Clients -> TxState] /\ tx'[c] = NoTx
      /\ \A d \in Clients : d # c => tx'[d] = tx[d]
      /\ rowLock' \in [Members -> Clients \cup {None}]
      /\ \A m \in Members, d \in Clients : d # c /\ rowLock[m] = d => rowLock'[m] = d
      /\ spaceLock' \in Clients \cup {None}
      /\ \A d \in Clients : d # c /\ spaceLock = d => spaceLock' = d
  BY EndKeeps DEF Insert, RolesInv
<1>2. t \in Members /\ tx[c].to \in {"owner", "member"}
  BY AddLocal DEF Insert, RolesInv, Pcs, AddState
<1>3. RolesTypeOK'
  BY <1>1, <1>2 DEF Insert, RolesInv, RolesTypeOK, Outcomes
<1>4. OwnersHeld'
  <2> SUFFICES ASSUME NEW d \in Clients, Pcs(d, {"count", "write"})', NEW m \in tx'[d].owners
               PROVE  rowLock'[m] = d /\ role'[m] = "owner"
    BY DEF OwnersHeld
  <2>1. d # c /\ tx'[d] = tx[d]
    BY <1>1 DEF Pcs, NoTx
  <2>2. m \in Members
    BY <2>1 DEF RolesInv, RolesTypeOK, TxState, NoTx, Pcs
  <2>3. rowLock[m] = d /\ role[m] = "owner"
    BY <2>1 DEF RolesInv, OwnersHeld, Pcs
  <2>4. role'[m] = "owner"
    BY <1>2, <2>2, <2>3 DEF Insert, RolesInv, RolesTypeOK
  <2> QED
    BY <1>1, <2>1, <2>2, <2>3, <2>4
<1>5. TwoCounted'
  BY <1>1 DEF RolesInv, TwoCounted, Pcs, NoTx
<1>6. SpaceHeld'
  BY <1>1 DEF RolesInv, SpaceHeld, Pcs, NoTx
<1>7. Seated => spaceLock = c
  BY DEF Insert, RolesInv, SpaceHeld, Pcs
<1>8. StillMissing'
  <2> SUFFICES ASSUME Seated, NEW d \in Clients, Pcs(d, {"check", "insert"})' PROVE FALSE
    BY DEF StillMissing
  <2>1. d # c /\ tx'[d] = tx[d]
    BY <1>1 DEF Pcs, NoTx
  <2> QED
    BY <1>7, <2>1 DEF RolesInv, SpaceHeld, Pcs
<1>9. Present' \subseteq Present \cup {t}
  BY <1>2 DEF Insert, Present, RolesInv, RolesTypeOK
<1>10. Seated => SameAddress(t) = {} /\ Cardinality(Present) < SeatLimit
  BY DEF Insert, RolesInv, StillMissing, Pcs
<1>11. OneMemberPerAddress'
  BY <1>2, <1>9, <1>10 DEF RolesInv, OneMemberPerAddress, SameAddress
<1>12. WithinSeats'
  <2>1. IsFiniteSet(Present)
    BY MemberSide, FS_Subset DEF Present
  <2>2. Cardinality(Present \cup {t}) <= Cardinality(Present) + 1
        /\ Cardinality(Present \cup {t}) \in Nat /\ Cardinality(Present) \in Nat
    <3>1. IsFiniteSet(Present \cup {t})
      BY <2>1, FS_AddElement
    <3>2. Cardinality(Present \cup {t}) \in Nat /\ Cardinality(Present) \in Nat
      BY <2>1, <3>1, FS_CardinalityType
    <3>3. Cardinality(Present \cup {t})
            = IF t \in Present THEN Cardinality(Present) ELSE Cardinality(Present) + 1
      BY <2>1, FS_AddElement
    <3> QED
      BY <3>2, <3>3
  <2>3. Present \cup {t} \subseteq Members
    BY <1>2 DEF Present
  <2>4. Cardinality(Present') <= Cardinality(Present \cup {t}) /\ Cardinality(Present') \in Nat
    BY <1>9, <2>3, FewerPresent
  <2> QED
    BY <1>10, <2>2, <2>4, MemberSide DEF WithinSeats
<1> QED
  BY <1>3, <1>4, <1>5, <1>6, <1>8, <1>11, <1>12 DEF RolesInv

-----------------------------------------------------------------------------

LEMMA RolesStep == RolesInv /\ [RolesNext]_rolesVars => RolesInv'
<1> SUFFICES ASSUME RolesInv, [RolesNext]_rolesVars PROVE RolesInv'
  OBVIOUS
<1>1. CASE UNCHANGED rolesVars
  BY <1>1 DEF rolesVars, RolesInv, RolesTypeOK, OwnersHeld, TwoCounted, SpaceHeld, StillMissing,
              OneMemberPerAddress, WithinSeats, Pcs, SameAddress, Present
<1>2. ASSUME NEW c \in Clients, Abort(c) PROVE RolesInv'
  BY <1>2, EndStep DEF Abort
<1>3. ASSUME NEW c \in Clients, Load(c) \/ Counted(c) \/ Write(c) PROVE RolesInv'
  BY <1>3, LoadStep, CountedStep, WriteStep
<1>4. ASSUME NEW c \in Clients, NEW m \in Members, LockOwner(c, m) PROVE RolesInv'
  BY <1>4, LockOwnerStep
<1>5. ASSUME NEW c \in Clients, NEW m \in Members, NEW to \in Outcomes, BeginChange(c, m, to)
      PROVE  RolesInv'
  BY <1>5, BeginStep
<1>6. ASSUME NEW c \in Clients, NEW m \in Members, NEW to \in {"owner", "member"},
             BeginAdd(c, m, to)
      PROVE  RolesInv'
  BY <1>6, BeginAddStep
<1>7. ASSUME NEW c \in Clients, LockSpace(c) \/ Seats(c) \/ Check(c) \/ Insert(c)
      PROVE  RolesInv'
  BY <1>7, LockSpaceStep, SeatsStep, CheckStep, InsertStep
<1> QED
  BY <1>1, <1>2, <1>3, <1>4, <1>5, <1>6, <1>7 DEF RolesNext

THEOREM RolesInvariant == RolesSpec => []RolesInv
BY InitRoles, RolesStep, PTL DEF RolesSpec

\* Requests and transactions stay in the states the code has, for any number of
\* rows and of concurrent requests.
THEOREM RolesTypeCorrect == RolesSpec => []RolesTypeOK
BY RolesInvariant, PTL DEF RolesInv

\* AddMember with seats: however many adds race, one address is one member, and
\* the plan's seats are kept - the lock on the workspace's row is enough.
THEOREM AddressesAreMembers == RolesSpec => []OneMemberPerAddress
BY RolesInvariant, PTL DEF RolesInv

THEOREM SeatsAreKept == RolesSpec => []WithinSeats
BY RolesInvariant, PTL DEF RolesInv

\* A transaction that counted two owners still has both when it writes, and it
\* writes only one row.
LEMMA CountedStepLeavesOwner ==
    ASSUME RolesInv, [RolesNext]_rolesVars, NEW c \in Clients, tx[c].pc = "write",
           tx[c].owners # {}, tx'[c] # tx[c]
    PROVE  Owners' # {}
<1>1. PICK m \in tx[c].owners, n \in tx[c].owners : m # n
  BY DEF RolesInv, TwoCounted, Pcs
<1>2. tx[c] \in [pc : {"write"}, target : Members, to : Outcomes, owners : SUBSET Members]
  BY WriteState DEF RolesInv
<1>3. m \in Members /\ n \in Members /\ role[m] = "owner" /\ role[n] = "owner"
  BY <1>2 DEF RolesInv, OwnersHeld, Pcs
<1>4. role' = role \/ \E x \in Members : \A y \in Members : y # x => role'[y] = role[y]
  <2>1. CASE UNCHANGED rolesVars
    BY <2>1 DEF rolesVars
  <2>2. ASSUME NEW d \in Clients, Write(d) PROVE <1>4!2
    BY <2>2, WriteState DEF Write, RolesInv, RolesTypeOK
  <2>3. ASSUME NEW d \in Clients, Insert(d) PROVE <1>4!2
    BY <2>3, AddLocal DEF Insert, RolesInv, RolesTypeOK, Pcs, AddState
  <2> QED
    BY <2>1, <2>2, <2>3 DEF RolesNext, Abort, Load, Counted, LockOwner, BeginChange, BeginAdd,
                            LockSpace, Seats, Check
<1> QED
  BY <1>1, <1>3, <1>4 DEF Owners

\* The promise of lockedOwnerCount, for any number of concurrent demotions and
\* removals: one that counted never leaves the workspace without an owner.
THEOREM CountedWritesAreSafe == RolesSpec => CountedWriteLeavesOwner
<1>1. RolesInv /\ [RolesNext]_rolesVars =>
        [\A c \in Clients :
           tx[c].pc = "write" /\ tx[c].owners # {} /\ tx'[c] # tx[c] => Owners' # {}]_rolesVars
  BY CountedStepLeavesOwner
<1> QED
  BY <1>1, RolesInvariant, PTL DEF RolesSpec, CountedWriteLeavesOwner

-----------------------------------------------------------------------------
(***************************************************************************)
(* Timers.  An UPDATE never sees the entries committed after it began, so  *)
(* the invariant accounts for every running entry in every open request:   *)
(* the request has yet to look at it, has stopped it, or began before the  *)
(* entry was inserted.                                                     *)
(***************************************************************************)

TimersTypeOK ==
    /\ entry \in [Entries -> {"none", "running", "stopped", "deleted"}]
    /\ heldBy \in [Entries -> Starters \cup {Nobody}]
    /\ timer \in [Starters -> TimerState]
    /\ rivals \in [Entries -> SUBSET Entries]

Open(c) == timer[c] # NoRequest

\* Every running entry is accounted for in every open request.
AccountedFor ==
    \A c \in Starters : Open(c) =>
        Running \subseteq timer[c].todo \cup timer[c].stopped \cup timer[c].rivals

TimersInv ==
    /\ TimersTypeOK
    /\ AccountedFor
    /\ RunningTogetherStartedTogether

\* What an open request holds.
LEMMA OpenRequest ==
    ASSUME TimersTypeOK, NEW c \in Starters, Open(c)
    PROVE  /\ timer[c] \in [pc : {"stop"}, starts : BOOLEAN, todo : SUBSET Entries,
                            stopped : SUBSET Entries, rivals : SUBSET Entries]
           /\ timer[c].pc = "stop" /\ timer[c].starts \in BOOLEAN
           /\ timer[c].todo \subseteq Entries /\ timer[c].stopped \subseteq Entries
           /\ timer[c].rivals \subseteq Entries
BY DEF TimersTypeOK, TimerState, Open, NoRequest

\* A step that starts no entry keeps the pairs: what runs ran before.
LEMMA FewerRun ==
    ASSUME RunningTogetherStartedTogether, UNCHANGED rivals,
           \A e \in Entries : entry'[e] = "running" => entry[e] = "running"
    PROVE  RunningTogetherStartedTogether' /\ Running' \subseteq Running
BY DEF RunningTogetherStartedTogether, Running

\* Requests that are not touched still account for what runs.
LEMMA StillAccounted ==
    ASSUME AccountedFor, Running' \subseteq Running, UNCHANGED timer
    PROVE  AccountedFor'
BY DEF AccountedFor, Open

LEMMA InitTimers == TimersInit => TimersInv
BY DEF TimersInit, TimersInv, TimersTypeOK, TimerState, AccountedFor, Open, Running,
       RunningTogetherStartedTogether

LEMMA StopPreviousKeeps ==
    ASSUME TimersInv, NEW c \in Starters, NEW starts \in BOOLEAN, StopPrevious(c, starts)
    PROVE  TimersInv'
<1> DEFINE new == [pc |-> "stop", starts |-> starts, todo |-> Running,
                   stopped |-> {}, rivals |-> {}]
<1>1. timer' = [timer EXCEPT ![c] = new] /\ UNCHANGED <<entry, heldBy, rivals>>
  BY DEF StopPrevious
<1>2. new \in TimerState /\ new.todo = Running
  BY DEF TimerState, Running
<1> HIDE DEF new
<1>3. TimersTypeOK'
  BY <1>1, <1>2 DEF TimersInv, TimersTypeOK
<1>4. Running' = Running
  BY <1>1 DEF Running
<1>5. AccountedFor'
  BY <1>1, <1>2, <1>4 DEF TimersInv, TimersTypeOK, AccountedFor, Open
<1> QED
  BY <1>1, <1>3, <1>5, FewerRun DEF TimersInv

LEMMA RowTaken ==
    ASSUME NEW t \in [pc : {"stop"}, starts : BOOLEAN, todo : SUBSET Entries,
                      stopped : SUBSET Entries, rivals : SUBSET Entries],
           NEW todo, NEW stopped
    PROVE  [t EXCEPT !.todo = todo, !.stopped = stopped] =
             [pc |-> "stop", starts |-> t.starts, todo |-> todo,
              stopped |-> stopped, rivals |-> t.rivals]
<1>1. [t EXCEPT !.todo = todo] = [pc |-> "stop", starts |-> t.starts, todo |-> todo,
                                  stopped |-> t.stopped, rivals |-> t.rivals]
  OBVIOUS
<1>2. [t EXCEPT !.todo = todo, !.stopped = stopped] =
        [[t EXCEPT !.todo = todo] EXCEPT !.stopped = stopped]
  OBVIOUS
<1>3. [[pc |-> "stop", starts |-> t.starts, todo |-> todo, stopped |-> t.stopped,
        rivals |-> t.rivals] EXCEPT !.stopped = stopped] =
        [pc |-> "stop", starts |-> t.starts, todo |-> todo, stopped |-> stopped,
         rivals |-> t.rivals]
  OBVIOUS
<1> QED
  BY <1>1, <1>2, <1>3, Zenon

\* One request loses an entry from its todo that has stopped running, or that
\* it stops.
LEMMA StopRowKeeps ==
    ASSUME TimersInv, NEW c \in Starters, NEW e \in Entries, StopRow(c, e)
    PROVE  TimersInv'
<1> DEFINE HoldsNow(stopped) ==
             [pc |-> "stop", starts |-> timer[c].starts, todo |-> timer[c].todo \ {e},
              stopped |-> stopped, rivals |-> timer[c].rivals]
           stopped == timer[c].stopped \cup {x \in {e} : entry[e] = "running"}
<1>1. Open(c) /\ UNCHANGED <<entry, rivals>>
  BY DEF StopRow, Open
<1>2. /\ timer[c] \in [pc : {"stop"}, starts : BOOLEAN, todo : SUBSET Entries,
                       stopped : SUBSET Entries, rivals : SUBSET Entries]
      /\ timer \in [Starters -> TimerState]
  BY <1>1, OpenRequest DEF TimersInv, TimersTypeOK
<1>3. /\ timer' = [timer EXCEPT ![c] = HoldsNow(stopped)]
      /\ heldBy' \in [Entries -> Starters \cup {Nobody}]
  <2>1. CASE entry[e] = "running"
    <3>1. /\ heldBy' = [heldBy EXCEPT ![e] = c]
          /\ timer' = [timer EXCEPT ![c].todo = @ \ {e}, ![c].stopped = @ \cup {e}]
      BY <2>1 DEF StopRow
    <3>2. timer' = [timer EXCEPT ![c] = HoldsNow(timer[c].stopped \cup {e})]
      <4>1. timer' = [timer EXCEPT ![c] =
                        [timer[c] EXCEPT !.todo = @ \ {e}, !.stopped = @ \cup {e}]]
        BY <3>1
      <4>2. [timer[c] EXCEPT !.todo = @ \ {e}, !.stopped = @ \cup {e}]
              = HoldsNow(timer[c].stopped \cup {e})
        BY <1>2, RowTaken
      <4> QED
        BY <4>1, <4>2
    <3>3. heldBy' \in [Entries -> Starters \cup {Nobody}]
      BY <3>1 DEF TimersInv, TimersTypeOK
    <3>4. stopped = timer[c].stopped \cup {e}
      BY <2>1
    <3> HIDE DEF HoldsNow, stopped
    <3> QED
      BY <3>2, <3>3, <3>4
  <2>2. CASE entry[e] # "running"
    <3>1. UNCHANGED heldBy /\ timer' = [timer EXCEPT ![c].todo = @ \ {e}]
      BY <2>2 DEF StopRow
    <3>2. timer' = [timer EXCEPT ![c] = HoldsNow(timer[c].stopped)]
      <4>1. timer' = [timer EXCEPT ![c] = [timer[c] EXCEPT !.todo = @ \ {e}]]
        BY <3>1
      <4>2. [timer[c] EXCEPT !.todo = @ \ {e}] = HoldsNow(timer[c].stopped)
        BY <1>2
      <4> QED
        BY <4>1, <4>2
    <3>3. stopped = timer[c].stopped
      BY <2>2
    <3> HIDE DEF HoldsNow, stopped
    <3> QED
      BY <3>1, <3>2, <3>3 DEF TimersInv, TimersTypeOK
  <2> QED
    BY <2>1, <2>2
<1>4. /\ HoldsNow(stopped) \in TimerState
      /\ HoldsNow(stopped).todo = timer[c].todo \ {e}
      /\ HoldsNow(stopped).stopped = stopped /\ HoldsNow(stopped).rivals = timer[c].rivals
  BY <1>2 DEF TimerState
<1>5. timer[c].stopped \subseteq stopped /\ (entry[e] = "running" => e \in stopped)
  OBVIOUS
<1> HIDE DEF HoldsNow, stopped
<1>6. TimersTypeOK'
  BY <1>1, <1>3, <1>4 DEF TimersInv, TimersTypeOK
<1>7. Running' = Running /\ (e \in Running <=> entry[e] = "running")
  BY <1>1 DEF Running
<1>8. AccountedFor'
  <2> SUFFICES ASSUME NEW d \in Starters, Open(d)'
               PROVE  Running \subseteq (timer'[d].todo \cup timer'[d].stopped
                                         \cup timer'[d].rivals)
    BY <1>7 DEF AccountedFor
  <2>1. CASE d = c
    <3>1. timer'[d] = HoldsNow(stopped)
      BY <1>2, <1>3, <2>1
    <3>2. Running \subseteq timer[c].todo \cup timer[c].stopped \cup timer[c].rivals
      BY <1>1 DEF TimersInv, AccountedFor
    <3> QED
      BY <1>4, <1>7, <1>5, <3>1, <3>2
  <2>2. CASE d # c
    BY <1>2, <1>3, <2>2 DEF TimersInv, AccountedFor, Open
  <2> QED
    BY <2>1, <2>2
<1> QED
  BY <1>1, <1>6, <1>8, FewerRun DEF TimersInv

\* What a commit leaves of another open request, and the entry it inserts.
LEMMA CommitTimerKeeps ==
    ASSUME TimersInv, NEW c \in Starters, CommitTimer(c)
    PROVE  TimersInv'
<1>1. /\ Open(c) /\ timer[c].todo = {}
      /\ heldBy' = Released(c)
  BY DEF CommitTimer, Open
<1>2. PICK new \in SUBSET Unused :
        /\ \A e, f \in new : e = f
        /\ entry' = [e \in Entries |-> IF e \in new THEN "running"
                                       ELSE IF e \in timer[c].stopped THEN "stopped" ELSE entry[e]]
        /\ rivals' = [e \in Entries |-> IF e \in new THEN timer[c].rivals ELSE rivals[e]]
        /\ timer' = [d \in Starters |->
                       IF d = c THEN NoRequest
                       ELSE IF timer[d] = NoRequest THEN timer[d]
                       ELSE [timer[d] EXCEPT !.rivals = @ \cup new]]
  <2>1. PICK new \in IF timer[c].starts THEN {{e} : e \in Unused} ELSE {{}} :
        /\ entry' = [e \in Entries |-> IF e \in new THEN "running"
                                       ELSE IF e \in timer[c].stopped THEN "stopped" ELSE entry[e]]
        /\ rivals' = [e \in Entries |-> IF e \in new THEN timer[c].rivals ELSE rivals[e]]
        /\ timer' = [d \in Starters |->
                       IF d = c THEN NoRequest
                       ELSE IF timer[d] = NoRequest THEN timer[d]
                       ELSE [timer[d] EXCEPT !.rivals = @ \cup new]]
    BY DEF CommitTimer
  <2>2. new \in SUBSET Unused /\ \A e, f \in new : e = f
    OBVIOUS
  <2> QED
    BY <2>1, <2>2
<1>3. /\ timer[c].stopped \subseteq Entries /\ timer[c].rivals \subseteq Entries
      /\ new \subseteq Entries /\ \A e \in new : entry[e] = "none"
  BY <1>1, OpenRequest DEF TimersInv, Unused
<1>4. \A d \in Starters \ {c} :
        /\ Open(d)' <=> Open(d)
        /\ Open(d) => /\ timer'[d] \in TimerState
                      /\ timer'[d].todo = timer[d].todo /\ timer'[d].stopped = timer[d].stopped
                      /\ timer'[d].rivals = timer[d].rivals \cup new
  <2> SUFFICES ASSUME NEW d \in Starters \ {c}
               PROVE  /\ Open(d)' <=> Open(d)
                      /\ Open(d) => /\ timer'[d] \in TimerState
                                    /\ timer'[d].todo = timer[d].todo
                                    /\ timer'[d].stopped = timer[d].stopped
                                    /\ timer'[d].rivals = timer[d].rivals \cup new
    OBVIOUS
  <2>1. CASE Open(d)
    <3>1. timer'[d] = [timer[d] EXCEPT !.rivals = @ \cup new]
      BY <1>2, <2>1 DEF Open
    <3>2. timer[d] \in [pc : {"stop"}, starts : BOOLEAN, todo : SUBSET Entries,
                        stopped : SUBSET Entries, rivals : SUBSET Entries]
      BY <2>1, OpenRequest DEF TimersInv
    <3>3. timer'[d] \in [pc : {"stop"}, starts : BOOLEAN, todo : SUBSET Entries,
                         stopped : SUBSET Entries, rivals : SUBSET Entries]
      BY <1>3, <3>1, <3>2
    <3>4. timer'[d].pc = "stop" /\ NoRequest.pc = "idle"
      BY <3>1, <3>2 DEF NoRequest
    <3>5. timer'[d] # NoRequest
      BY <3>4
    <3> QED
      BY <2>1, <3>1, <3>2, <3>3, <3>5 DEF Open, TimerState
  <2>2. CASE ~ Open(d)
    BY <1>2, <2>2 DEF Open
  <2> QED
    BY <2>1, <2>2
<1>5. timer'[c] = NoRequest
  BY <1>2
<1>6. TimersTypeOK'
  <2>1. timer' \in [Starters -> TimerState]
    <3>1. \A d \in Starters : timer'[d] \in TimerState
      BY <1>4, <1>5, <1>2 DEF TimerState, Open
    <3> QED
      BY <1>2, <3>1
  <2>2. heldBy' \in [Entries -> Starters \cup {Nobody}]
    BY <1>1 DEF TimersInv, TimersTypeOK, Released
  <2>3. entry' \in [Entries -> {"none", "running", "stopped", "deleted"}]
    BY <1>2 DEF TimersInv, TimersTypeOK
  <2>4. rivals' \in [Entries -> SUBSET Entries]
    BY <1>2, <1>3 DEF TimersInv, TimersTypeOK
  <2> QED
    BY <2>1, <2>2, <2>3, <2>4 DEF TimersTypeOK
<1>7. Running' = (Running \ timer[c].stopped) \cup new
  BY <1>2, <1>3 DEF Running
<1>8. AccountedFor'
  BY <1>4, <1>5, <1>7 DEF TimersInv, AccountedFor, Open
<1>9. RunningTogetherStartedTogether'
  <2>1. Running \ timer[c].stopped \subseteq timer[c].rivals
    BY <1>1 DEF TimersInv, AccountedFor
  <2>2. /\ \A e \in new : rivals'[e] = timer[c].rivals
        /\ \A e \in Running : e \notin new /\ rivals'[e] = rivals[e]
    BY <1>2, <1>3 DEF Running
  <2> QED
    BY <1>2, <1>7, <2>1, <2>2 DEF TimersInv, RunningTogetherStartedTogether
<1> QED
  BY <1>6, <1>8, <1>9 DEF TimersInv

LEMMA RollBackTimerKeeps ==
    ASSUME TimersInv, NEW c \in Starters, RollBackTimer(c)
    PROVE  TimersInv'
<1>1. /\ timer' = [timer EXCEPT ![c] = NoRequest]
      /\ heldBy' = Released(c) /\ UNCHANGED <<entry, rivals>>
  BY DEF RollBackTimer
<1>2. TimersTypeOK'
  BY <1>1 DEF TimersInv, TimersTypeOK, Released, TimerState
<1>3. AccountedFor'
  BY <1>1 DEF TimersInv, TimersTypeOK, AccountedFor, Open, Running
<1> QED
  BY <1>1, <1>2, <1>3, FewerRun DEF TimersInv

LEMMA TimersStep == TimersInv /\ [TimersNext]_timerVars => TimersInv'
<1> SUFFICES ASSUME TimersInv, [TimersNext]_timerVars
             PROVE  TimersInv'
  OBVIOUS
<1>1. ASSUME NEW e \in Entries, LogTime(e) \/ DeleteEntry(e)
      PROVE  TimersInv'
  <2>1. /\ UNCHANGED <<heldBy, timer, rivals>>
        /\ \A x \in Entries : entry'[x] = "running" => entry[x] = "running"
    BY <1>1 DEF LogTime, DeleteEntry, TimersInv, TimersTypeOK
  <2>2. TimersTypeOK'
    BY <1>1, <2>1 DEF LogTime, DeleteEntry, TimersInv, TimersTypeOK
  <2> QED
    BY <2>1, <2>2, FewerRun, StillAccounted DEF TimersInv
<1>2. CASE UNCHANGED timerVars
  BY <1>2 DEF timerVars, TimersInv, TimersTypeOK, AccountedFor, Open, Running,
              RunningTogetherStartedTogether
<1> QED
  BY <1>1, <1>2, StopPreviousKeeps, StopRowKeeps, CommitTimerKeeps, RollBackTimerKeeps
     DEF TimersNext

\* The invariant holds of every behaviour of the timers.
THEOREM TimersInvariant == TimersSpec => []TimersInv
BY InitTimers, TimersStep, PTL DEF TimersSpec

\* Two timers of a member run at once only if the requests that started them
\* overlapped (timetracking.Store.StartTimer).
THEOREM OverlapsOnly == TimersSpec => []RunningTogetherStartedTogether
<1>1. TimersInv => RunningTogetherStartedTogether
  BY DEF TimersInv
<1> QED
  BY <1>1, TimersInvariant, PTL
=============================================================================
