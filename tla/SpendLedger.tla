----------------------------- MODULE SpendLedger -----------------------------
(***************************************************************************)
(* The AI-spend ledger of internal/issue/store.go: the append-only table   *)
(* ai_spend_events, the running totals issues.ai_cost_usd, and the two SQL *)
(* statements that write both at once.  The webhook writes through         *)
(* RecordSpendEvent, the syncer through RecordRequestSpendAttributed; here *)
(* either may be called at any time with any argument.  LensSpend composes *)
(* the callers.                                                            *)
(*                                                                         *)
(* Money is abstract: each event key is worth one unit of its own          *)
(* currency, so cost[i] is the formal sum of the events credited to i and  *)
(* an equality of formal sums holds for every assignment of dollars (and   *)
(* of tokens) to events.                                                   *)
(***************************************************************************)
EXTENDS Naturals, FiniteSets

CONSTANTS
    Workspaces,   \* Track workspaces
    Issues,       \* issue rows that may come to exist
    Labels,       \* identifiers and feature names, one namespace of strings
    Empty,        \* the empty string
    Features,     \* the labels issues are given as lens_feature
    WorkspaceOf,  \* issue |-> its workspace
    Identifier,   \* issue |-> its human identifier
    Requests,     \* Lens request ids; event_key 'req:' || request_id
    Bodies,       \* signed webhook bodies; event_key 'lens-spend:' || sha256
    NoIssue,      \* a NULL issue_id
    Unposted      \* a request with no row yet, in the abstract account

\* issues.identifier is UNIQUE per workspace (migration 0022) and never empty.
ASSUME IssueRows ==
    /\ WorkspaceOf \in [Issues -> Workspaces]
    /\ Identifier \in [Issues -> Labels \ {Empty}]
    /\ \A i, j \in Issues : /\ WorkspaceOf[i] = WorkspaceOf[j]
                            /\ Identifier[i] = Identifier[j]
                            => i = j
    /\ NoIssue \notin Issues
    /\ Empty \in Features /\ Features \subseteq Labels

\* The two kinds of event key carry different prefixes.
ASSUME KeyPrefixes == Requests \cap Bodies = {}

EventKeys == Requests \cup Bodies

VARIABLES
    issues,       \* the issues that exist
    lensFeature,  \* issue |-> issues.lens_feature
    cost,         \* issue |-> event key |-> how often it was credited
    ledger        \* rows of ai_spend_events

ledgerVars == <<issues, lensFeature, cost, ledger>>

Row(k, w, i) == [key |-> k, workspace |-> w, issue |-> i]

LedgerTypeOK ==
    /\ issues \in SUBSET Issues
    /\ lensFeature \in [Issues -> Features]
    /\ cost \in [Issues -> [EventKeys -> Nat]]
    /\ ledger \in SUBSET [key : EventKeys, workspace : Workspaces,
                          issue : Issues \cup {NoIssue}]

LedgerInit ==
    /\ issues = {}
    /\ lensFeature = [i \in Issues |-> Empty]
    /\ cost = [i \in Issues |-> [k \in EventKeys |-> 0]]
    /\ ledger = {}

-----------------------------------------------------------------------------

\* Add one event to the totals of a set of issues.
Credited(S, k) ==
    [i \in Issues |-> IF i \in S THEN [cost[i] EXCEPT ![k] = @ + 1] ELSE cost[i]]

\* The issues a webhook event names: every one sharing the lens_feature.
Matched(f, w) == {i \in issues : lensFeature[i] = f /\ WorkspaceOf[i] = w}

\* Fault: the insert without its ON CONFLICT clause.
InsertedAgain(k, f, w) == Matched(f, w)

\* INSERT ... FROM matched ON CONFLICT (event_key, issue_id) DO NOTHING
\* RETURNING issue_id: the matched issues that have no row for this key yet.
Inserted(k, f, w) ==
    {i \in Matched(f, w) : ~ \E row \in ledger : row.key = k /\ row.issue = i}

\* The arguments RecordSpendEvent refuses are the empty ones.
RecordSpendEvent(k, f, w) ==
    /\ f # Empty
    /\ ledger' = ledger \cup {Row(k, w, i) : i \in Inserted(k, f, w)}
    /\ cost' = Credited(Inserted(k, f, w), k)
    /\ UNCHANGED <<issues, lensFeature>>

\* The issue header names the issue outright; the feature only when there is
\* no header.
Named(f, ident) == IF ident # Empty THEN ident ELSE f

\* CTE target: at most one issue, by UNIQUE(workspace_id, identifier).
Target(f, ident, w) ==
    {i \in issues : /\ Named(f, ident) # Empty
                    /\ Identifier[i] = Named(f, ident)
                    /\ WorkspaceOf[i] = w}

\* Fault: the unique index taken over attributed rows only.
LandedOnIssue(r) == \E row \in ledger : row.key = r /\ row.issue # NoIssue

\* ON CONFLICT (request_id): the request already has its one row.
Landed(r) == \E row \in ledger : row.key = r

\* Fault: DO UPDATE - a pull that can place an unattributed row moves it.
MovesUnattributed(r, f, ident, w) ==
    /\ UNCHANGED <<issues, lensFeature>>
    /\ IF LandedOnIssue(r)
         THEN UNCHANGED <<ledger, cost>>
         ELSE /\ ledger' = {row \in ledger : row.key # r} \cup
                   (IF Target(f, ident, w) = {} THEN {Row(r, w, NoIssue)}
                    ELSE {Row(r, w, i) : i \in Target(f, ident, w)})
              /\ cost' = Credited(Target(f, ident, w), r)

\* Lands a request once, on the issue it names or on none.
RecordRequestSpend(r, f, ident, w) ==
    /\ UNCHANGED <<issues, lensFeature>>
    /\ IF Landed(r)
         THEN UNCHANGED <<ledger, cost>>
         ELSE /\ \/ \E i \in Target(f, ident, w) : ledger' = ledger \cup {Row(r, w, i)}
                 \/ /\ Target(f, ident, w) = {}
                    /\ ledger' = ledger \cup {Row(r, w, NoIssue)}
              /\ cost' = Credited(Target(f, ident, w), r)

\* issue.Store.Create, as far as the ledger can see: the total starts at zero.
CreateIssue(i, f) ==
    /\ i \notin issues
    /\ issues' = issues \cup {i}
    /\ lensFeature' = [lensFeature EXCEPT ![i] = f]
    /\ UNCHANGED <<cost, ledger>>

\* issue.Store.Update on lens_feature, the only column of these it may write.
SetLensFeature(i, f) ==
    /\ i \in issues
    /\ lensFeature' = [lensFeature EXCEPT ![i] = f]
    /\ UNCHANGED <<issues, cost, ledger>>

LedgerNext ==
    \/ \E i \in Issues, f \in Features : CreateIssue(i, f) \/ SetLensFeature(i, f)
    \/ \E k \in Bodies, f \in Labels, w \in Workspaces : RecordSpendEvent(k, f, w)
    \/ \E r \in Requests, f, ident \in Labels, w \in Workspaces :
          RecordRequestSpend(r, f, ident, w)

LedgerSpec == LedgerInit /\ [][LedgerNext]_ledgerVars

-----------------------------------------------------------------------------

\* "An issue's ai_cost_usd always equals the SUM of its ai_spend_events rows":
\* each event weighs in an issue's total exactly as often as a row says so.
LedgerMatchesCost ==
    \A i \in Issues, k \in EventKeys :
        cost[i][k] = IF \E row \in ledger : row.key = k /\ row.issue = i THEN 1 ELSE 0

\* No fan-out: a request has one row, in one workspace, on one issue or none,
\* however often and under whatever workspace the window is pulled again.
RequestLandsOnce ==
    \A row1, row2 \in ledger :
        row1.key \in Requests /\ row1.key = row2.key => row1 = row2

\* Spend never crosses a workspace: a row's issue lives in the row's workspace,
\* and was created.
RowsStayInWorkspace ==
    \A row \in ledger : row.issue # NoIssue =>
        row.issue \in issues /\ WorkspaceOf[row.issue] = row.workspace

-----------------------------------------------------------------------------

\* The abstract account the ledger implements: a request is posted where its
\* row says.
PostedAt(r) ==
    IF Landed(r)
      THEN LET row == CHOOSE x \in ledger : x.key = r
           IN  [workspace |-> row.workspace, issue |-> row.issue]
      ELSE Unposted

AccountOf == INSTANCE SpendAccount WITH
    posted <- [r \in Requests |-> PostedAt(r)],
    total  <- [i \in Issues |-> [r \in Requests |-> cost[i][r]]]

\* Every step of either SQL statement posts one new request or, seen from the
\* requests, does nothing.
ImplementsAccount == AccountOf!Spec
=============================================================================
