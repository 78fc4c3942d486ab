----------------------------- MODULE IssueStore -----------------------------
(***************************************************************************)
(* The issues of one workspace (internal/issue/store.go): how an issue gets *)
(* its number and its identifier, and what becomes of its status and its   *)
(* completion time.                                                        *)
(*                                                                         *)
(* An identifier is a prefix and a number, ENG-3.  A native issue takes its *)
(* team's prefix and the next number; an import keeps the provider's       *)
(* identifier, which may look like a native one, and takes the next number *)
(* as well.  Choosing the number and inserting the row are statements of   *)
(* their own, and only two UNIQUE constraints stand between two callers.   *)
(* A row is never removed, short of the workspace's purge.                 *)
(***************************************************************************)
EXTENDS Naturals, FiniteSets

CONSTANTS
    Teams,
    Prefixes,      \* what a team's identifier may be
    ProviderKeys,  \* the identifiers imports bring
    Callers,       \* concurrent requests and import runners
    ScanBound,     \* identifierScanBound
    MaxNumber,     \* bound: numbers
    MaxIssues      \* bound: rows

Keys == Prefixes \X (1 .. MaxNumber)

ASSUME StoreSide ==
    /\ ProviderKeys \subseteq Keys
    /\ ScanBound \in Nat
    /\ MaxNumber \in Nat \ {0}

VARIABLES
    prefix,  \* teams.identifier
    issues,  \* identifier |-> row; "native": made by Create
    caller,  \* caller |-> its local state
    retired  \* history: issues whose last status came from deleting a done one

vars == <<prefix, issues, caller, retired>>

\* Custom statuses behave like "backlog" here: only these two names matter.
Statuses == {"backlog", "done", "cancelled"}

Row == [team : Teams, number : 1 .. MaxNumber, native : BOOLEAN,
        status : Statuses, completed : BOOLEAN]

Idle == [pc |-> "idle"]

\* "seen" is history: the issues there were when the number was chosen.
CallerState ==
    {Idle}
    \cup [pc : {"number"}, team : Teams, prefix : Prefixes, native : BOOLEAN, key : Keys]
    \cup [pc : {"insert"}, team : Teams, native : BOOLEAN, key : Keys,
          number : 1 .. MaxNumber, free : Keys, seen : SUBSET Keys]

Taken == DOMAIN issues

TypeOK ==
    /\ prefix \in [Teams -> Prefixes]
    /\ Taken \subseteq Keys
    /\ issues \in [Taken -> Row]
    /\ caller \in [Callers -> CallerState]
    /\ retired \in SUBSET Taken

Init ==
    /\ prefix \in [Teams -> Prefixes]
    /\ \A t, u \in Teams : t # u => prefix[t] # prefix[u]
    /\ issues = [k \in {} |-> {}]
    /\ caller = [c \in Callers |-> Idle]
    /\ retired = {}

Becomes(c, state) == caller' = [caller EXCEPT ![c] = state]

-----------------------------------------------------------------------------
(* Allocation.                                                             *)

\* The team's identifier is read first.  (Create has no key yet.)
Begin(c, t, native, k) ==
    /\ caller[c] = Idle
    /\ Becomes(c, [pc |-> "number", team |-> t, prefix |-> prefix[t],
                   native |-> native, key |-> k])
    /\ UNCHANGED <<prefix, issues, retired>>

BeginCreate(c, t) == Begin(c, t, TRUE, <<prefix[t], 1>>)
BeginUpsert(c, t, k) == Begin(c, t, FALSE, k)

\* Fault: numbers counted from MAX(number) alone.
nextIssueNumberBlind(t, p, n) ==
    LET Above(g) == \A k \in Taken : issues[k].team = t => issues[k].number < g
    IN  Above(n) /\ \A g \in 1 .. (n - 1) : ~ Above(g)

\* The first number above every number of the team whose identifier is free in
\* the workspace, unless it is too far away.
nextIssueNumber(t, p, n) ==
    LET Above(g) == \A k \in Taken : issues[k].team = t => issues[k].number < g
        Free(g)  == <<p, g>> \notin Taken
    IN  /\ Above(n) /\ Free(n)
        /\ \A g \in 1 .. (n - 1) : ~ (Above(g) /\ Free(g))
        /\ Cardinality({g \in 1 .. (n - 1) : Above(g)}) <= ScanBound

Allocate(c) ==
    /\ caller[c].pc = "number"
    /\ \E n \in 1 .. MaxNumber :
         /\ nextIssueNumber(caller[c].team, caller[c].prefix, n)
         /\ Becomes(c, [pc |-> "insert", team |-> caller[c].team,
                        native |-> caller[c].native,
                        key |-> IF caller[c].native THEN <<caller[c].prefix, n>>
                                ELSE caller[c].key,
                        number |-> n, free |-> <<caller[c].prefix, n>>, seen |-> Taken])
    /\ UNCHANGED <<prefix, issues, retired>>

\* "no free identifier ... within N numbers", or a statement that fails.
GiveUp(c) ==
    /\ caller[c] # Idle
    /\ Becomes(c, Idle)
    /\ UNCHANGED <<prefix, issues, retired>>

-----------------------------------------------------------------------------
(* The statement that writes the row.                                      *)

\* UNIQUE (workspace_id, identifier) and UNIQUE (team_id, number).
NumberTaken(t, n) == \E k \in Taken : issues[k].team = t /\ issues[k].number = n

NewRow(s, status, completed) ==
    [team |-> s.team, number |-> s.number, native |-> s.native,
     status |-> status, completed |-> completed]

With(k, row) == [x \in Taken \cup {k} |-> IF x = k THEN row ELSE issues[x]]

\* Create's INSERT: a completion time is kept only on a done row.  A unique
\* violation is the caller's, and nobody tries again.
InsertNative(c) ==
    LET s == caller[c]
    IN  /\ s.pc = "insert" /\ s.native
        /\ IF s.key \in Taken \/ NumberTaken(s.team, s.number)
             THEN UNCHANGED issues
             ELSE /\ Cardinality(Taken) < MaxIssues
                  /\ \E status \in Statuses, supplied \in BOOLEAN :
                       issues' = With(s.key, NewRow(s, status, supplied /\ status = "done"))
        /\ Becomes(c, Idle)
        /\ UNCHANGED <<prefix, retired>>

\* Fault: the conflict arm takes over the team and the number too.
UpsertMoves(c) ==
    LET s == caller[c]
    IN  /\ s.pc = "insert" /\ ~ s.native
        /\ IF s.key \in Taken
             THEN issues' = IF issues[s.key].native THEN issues
                            ELSE [issues EXCEPT ![s.key].team = s.team,
                                                ![s.key].number = s.number]
             ELSE IF NumberTaken(s.team, s.number) THEN UNCHANGED issues
             ELSE /\ Cardinality(Taken) < MaxIssues
                  /\ \E status \in Statuses, mapped \in BOOLEAN :
                       issues' = With(s.key, NewRow(s, status, mapped /\ status = "done"))
        /\ Becomes(c, Idle)
        /\ UNCHANGED <<prefix, retired>>

\* UpsertByIdentifier's INSERT ... ON CONFLICT: a conflict on the identifier
\* rewrites title, description and labels of the import's own row, or nothing;
\* one on the number is an error.  The mappers bring a completion time for done
\* rows only.
Upsert(c) ==
    LET s == caller[c]
    IN  /\ s.pc = "insert" /\ ~ s.native
        /\ IF s.key \in Taken \/ NumberTaken(s.team, s.number)
             THEN UNCHANGED issues
             ELSE /\ Cardinality(Taken) < MaxIssues
                  /\ \E status \in Statuses, mapped \in BOOLEAN :
                       issues' = With(s.key, NewRow(s, status, mapped /\ status = "done"))
        /\ Becomes(c, Idle)
        /\ UNCHANGED <<prefix, retired>>

-----------------------------------------------------------------------------
(* What happens to a row afterwards; each is one statement or transaction.  *)

\* completed_at follows the status a caller names, whoever else wrote it.
Moved(row, status) ==
    [row EXCEPT !.status = status, !.completed = (status = "done")]

\* Fault: only a move onto "done" touches completed_at.
BulkUpdateStampsOnly ==
    /\ \E S \in {B \in SUBSET Taken : Cardinality(B) > 1} : \E to \in [S -> Statuses] :
         /\ issues' = [k \in Taken |->
                         IF k \in S
                           THEN [issues[k] EXCEPT !.status = to[k],
                                                  !.completed = @ \/ to[k] = "done"]
                           ELSE issues[k]]
         /\ retired' = retired \ S
    /\ UNCHANGED <<prefix, caller>>

\* One transaction.  (A batch of one is an Update.)
BulkUpdate ==
    /\ \E S \in {B \in SUBSET Taken : Cardinality(B) > 1} : \E to \in [S -> Statuses] :
         /\ issues' = [k \in Taken |-> IF k \in S THEN Moved(issues[k], to[k]) ELSE issues[k]]
         /\ retired' = retired \ S
    /\ UNCHANGED <<prefix, caller>>

Update(k, status) ==
    /\ k \in Taken
    /\ issues' = [issues EXCEPT ![k] = Moved(@, status)]
    /\ retired' = retired \ {k}
    /\ UNCHANGED <<prefix, caller>>

\* Delete: the row stays and the status becomes "cancelled"; completed_at is not
\* in the SET clause.
Delete(k) ==
    /\ k \in Taken
    /\ issues' = [issues EXCEPT ![k].status = "cancelled"]
    /\ retired' = IF issues[k].status = "done" THEN retired \cup {k} ELSE retired
    /\ UNCHANGED <<prefix, caller>>

\* team.Store.Update, which admits the identifier.
RenameTeam(t, p) ==
    /\ \A u \in Teams : prefix[u] # p
    /\ prefix' = [prefix EXCEPT ![t] = p]
    /\ UNCHANGED <<issues, caller, retired>>

Next ==
    \/ \E c \in Callers :
         \/ \E t \in Teams : BeginCreate(c, t) \/ \E k \in ProviderKeys : BeginUpsert(c, t, k)
         \/ Allocate(c) \/ GiveUp(c) \/ InsertNative(c) \/ Upsert(c)
    \/ \E k \in Keys : Delete(k) \/ \E s \in Statuses : Update(k, s)
    \/ BulkUpdate
    \/ \E t \in Teams, p \in Prefixes : RenameTeam(t, p)

Spec == Init /\ [][Next]_vars

-----------------------------------------------------------------------------

\* A number that was chosen can be used: an insert fails only when another
\* issue landed since.  (When it does not hold, the same number is chosen again
\* and again and the team can never create another issue.)
AllocationUsable ==
    \A c \in Callers :
        caller[c].pc = "insert" /\ caller[c].seen = Taken =>
            /\ caller[c].free \notin Taken
            /\ ~ NumberTaken(caller[c].team, caller[c].number)

Identity(row) == <<row.team, row.number, row.native>>

\* An issue keeps its identity: whatever is imported over it, and whatever the
\* teams are called by then, it stays in its team under its number.
IdentityIsPermanent ==
    [][ \A k \in Taken : k \in Taken' /\ Identity(issues'[k]) = Identity(issues[k]) ]_vars

\* Analytics counts every row with a completion time as delivered, whatever its
\* status.  Such a row is done - or it was done when it was deleted, and no status
\* was written since: Delete alone leaves the time where it is.
CompletedIsDelivered ==
    \A k \in Taken : issues[k].completed => issues[k].status = "done" \/ k \in retired
=============================================================================
