------------------------------ MODULE LensSpend ------------------------------
(***************************************************************************)
(* How Talyvor Lens's spend reaches the ledger (internal/lensintegration). *)
(* Two writers share SpendLedger's tables:                                 *)
(*                                                                         *)
(*   - webhook handlers (webhook.go): a signed spend alert is checked for  *)
(*     freshness, claimed by event_id (webhookdedup), recorded, and told   *)
(*     to the assignees of the issues it is about - four separate          *)
(*     statements of one HTTP request, each best-effort;                   *)
(*   - syncers (syncer.go): every tick, for every Lens workspace the key   *)
(*     can read, the last 24h of requests are pulled and landed row by     *)
(*     row, so every request is pulled about 96 times.                     *)
(*                                                                         *)
(* Deliveries repeat, reorder and are cut off; a crash or a cancelled      *)
(* request loses everything but the tables.  A row without a request_id is *)
(* dropped by the syncer before it touches the ledger and is not modelled. *)
(***************************************************************************)
EXTENDS SpendLedger

CONSTANTS
    Alerts,          \* spend alerts Lens emits
    AlertOf,         \* body |-> the alert it encodes (bytes may vary)
    Identified,      \* alerts of a Lens that sends event_id and emitted_at
    AlertFeature, AlertWorkspace,
    Assigned,        \* issues that have an assignee
    Handlers,        \* concurrent HTTP requests
    LensWorkspaces,  \* workspace ids on the Lens side
    Readable,        \* those the configured Lens key can read
    RequestLens, RequestFeature, RequestIssue,
    Syncers,         \* Track instances running StartSync
    MaxDeliveries,   \* bound: body |-> how often it is delivered
    MaxFaults        \* bound: database, network and process failures

ASSUME LensSide ==
    /\ AlertOf \in [Bodies -> Alerts]
    /\ Identified \subseteq Alerts
    /\ AlertFeature \in [Alerts -> Labels]
    /\ AlertWorkspace \in [Alerts -> Workspaces]
    /\ Assigned \subseteq Issues
    /\ Workspaces \subseteq Nat
    /\ Readable \subseteq LensWorkspaces
    /\ RequestLens \in [Requests -> LensWorkspaces]
    /\ RequestFeature \in [Requests -> Labels]
    /\ RequestIssue \in [Requests -> Labels]
    /\ MaxDeliveries \in [Bodies -> Nat]
    /\ MaxFaults \in Nat

VARIABLES
    delivered,    \* body |-> deliveries so far
    stale,        \* alerts older than the freshness window
    claims,       \* webhook_deliveries: claimed event ids
    handler,      \* handler |-> its local state
    notices,      \* alert |-> issue |-> notifications created
    claimFaulted, \* history: alerts whose claim came back with an error
    window,       \* requests Lens returns: logged in the last 24h
    logged,       \* requests Lens ever logged
    billing,      \* workspace_lens_billing rows of current owners
    syncer,       \* syncer |-> its local state
    faults

webhookVars == <<delivered, stale, claims, handler, notices, claimFaulted>>
syncVars == <<window, logged, billing, syncer>>
vars == <<ledgerVars, webhookVars, syncVars, faults>>

Idle == [pc |-> "idle"]

HandlerState ==
    {Idle} \cup [pc : {"claim", "record", "lookup", "notify"},
                 body : Bodies, todo : SUBSET Issues]

\* "at" is the row being landed: its request, the workspace chosen for it, the
\* labels it keeps, and the issues WorkspaceOfIdentifier saw.
Placement == [request : Requests, workspace : Workspaces, feature : Labels,
              ident : Labels, saw : SUBSET Issues]

SyncerState ==
    {Idle}
    \cup [pc : {"lenses"}, billing : SUBSET (LensWorkspaces \X Workspaces),
          lenses : SUBSET LensWorkspaces]
    \cup [pc : {"rows"}, billing : SUBSET (LensWorkspaces \X Workspaces),
          lenses : SUBSET LensWorkspaces, lens : LensWorkspaces,
          rows : SUBSET Requests]
    \cup [pc : {"land"}, billing : SUBSET (LensWorkspaces \X Workspaces),
          lenses : SUBSET LensWorkspaces, lens : LensWorkspaces,
          rows : SUBSET Requests, at : Placement]

TypeOK ==
    /\ LedgerTypeOK
    /\ delivered \in [Bodies -> Nat]
    /\ stale \in SUBSET Identified
    /\ claims \in SUBSET Alerts
    /\ handler \in [Handlers -> HandlerState]
    /\ notices \in [Alerts -> [Issues -> Nat]]
    /\ claimFaulted \in SUBSET Alerts
    /\ window \in SUBSET logged
    /\ logged \in SUBSET Requests
    /\ billing \in SUBSET (LensWorkspaces \X Workspaces)
    /\ syncer \in [Syncers -> SyncerState]
    /\ faults \in 0 .. MaxFaults

Init ==
    /\ LedgerInit
    /\ delivered = [b \in Bodies |-> 0]
    /\ stale = {} /\ claims = {} /\ claimFaulted = {}
    /\ handler = [h \in Handlers |-> Idle]
    /\ notices = [a \in Alerts |-> [i \in Issues |-> 0]]
    /\ window = {} /\ logged = {} /\ billing = {}
    /\ syncer = [s \in Syncers |-> Idle]
    /\ faults = 0

Fault == faults < MaxFaults /\ faults' = faults + 1

-----------------------------------------------------------------------------
(* The webhook handler.                                                    *)

Goto(h, pc) == handler' = [handler EXCEPT ![h].pc = pc]
Answer(h) == handler' = [handler EXCEPT ![h] = Idle]
AlertIn(h) == AlertOf[handler[h].body]

\* ServeHTTP up to its first statement.  A stale alert is answered 200 and has
\* no effect; an alert without event_id has nothing to claim.
Deliver(h, b) ==
    /\ handler[h] = Idle
    /\ delivered[b] < MaxDeliveries[b]
    /\ delivered' = [delivered EXCEPT ![b] = @ + 1]
    /\ handler' = IF AlertOf[b] \in stale THEN handler
                  ELSE [handler EXCEPT ![h] =
                         [pc |-> IF AlertOf[b] \in Identified THEN "claim" ELSE "record",
                          body |-> b, todo |-> {}]]
    /\ UNCHANGED <<ledgerVars, stale, claims, notices, claimFaulted, syncVars, faults>>

\* The signed emitted_at passes out of the freshness window.
GoStale(a) ==
    /\ a \in Identified \ stale
    /\ stale' = stale \cup {a}
    /\ UNCHANGED <<ledgerVars, delivered, claims, handler, notices, claimFaulted, syncVars, faults>>

\* Fault: the claim's row count ignored.
ClaimIgnoresRepeat(h) ==
    /\ handler[h].pc = "claim"
    /\ claims' = claims \cup {AlertIn(h)}
    /\ Goto(h, "record")
    /\ UNCHANGED <<ledgerVars, delivered, stale, notices, claimFaulted, syncVars, faults>>

\* deduper.Claim: the first insert wins and goes on, a repeat is answered, and
\* an error - whether or not the insert committed - goes on.
Claim(h) ==
    /\ handler[h].pc = "claim"
    /\ \/ /\ AlertIn(h) \notin claims
          /\ claims' = claims \cup {AlertIn(h)}
          /\ Goto(h, "record")
          /\ UNCHANGED <<claimFaulted, faults>>
       \/ /\ AlertIn(h) \in claims
          /\ Answer(h)
          /\ UNCHANGED <<claims, claimFaulted, faults>>
       \/ /\ Fault
          /\ claims' \in {claims, claims \cup {AlertIn(h)}}
          /\ claimFaulted' = claimFaulted \cup {AlertIn(h)}
          /\ Goto(h, "record")
    /\ UNCHANGED <<ledgerVars, delivered, stale, notices, syncVars>>

\* handleSpendAlert records the cost; an error is logged and the rest goes on.
\* An alert naming no feature ends here.
Record(h) ==
    /\ handler[h].pc = "record"
    /\ IF AlertFeature[AlertIn(h)] = Empty
         THEN Answer(h) /\ UNCHANGED <<ledgerVars, faults>>
         ELSE /\ Goto(h, "lookup")
              /\ \/ /\ RecordSpendEvent(handler[h].body, AlertFeature[AlertIn(h)],
                                        AlertWorkspace[AlertIn(h)])
                    /\ UNCHANGED faults
                 \/ Fault /\ UNCHANGED ledgerVars
    /\ UNCHANGED <<delivered, stale, claims, notices, claimFaulted, syncVars>>

\* alertTargets: the issues charged or, when none carries the feature, the one
\* whose identifier it is.
AlertTargets(a) ==
    IF Matched(AlertFeature[a], AlertWorkspace[a]) # {}
      THEN Matched(AlertFeature[a], AlertWorkspace[a])
      ELSE Target(AlertFeature[a], Empty, AlertWorkspace[a])

LookUp(h) ==
    /\ handler[h].pc = "lookup"
    /\ \/ /\ handler' = [handler EXCEPT ![h].pc = "notify",
                                        ![h].todo = AlertTargets(AlertIn(h))]
          /\ UNCHANGED faults
       \/ Fault /\ Answer(h)
    /\ UNCHANGED <<ledgerVars, delivered, stale, claims, notices, claimFaulted, syncVars>>

\* One turn of the target loop: a notification when there is an assignee, its
\* failure logged and skipped.
Notify(h, i) ==
    /\ handler[h].pc = "notify"
    /\ i \in handler[h].todo
    /\ handler' = [handler EXCEPT ![h].todo = @ \ {i}]
    /\ \/ /\ notices' = IF i \in Assigned
                        THEN [notices EXCEPT ![AlertIn(h)][i] = @ + 1] ELSE notices
          /\ UNCHANGED faults
       \/ Fault /\ UNCHANGED notices
    /\ UNCHANGED <<ledgerVars, delivered, stale, claims, claimFaulted, syncVars>>

Notified(h) ==
    /\ handler[h].pc = "notify"
    /\ handler[h].todo = {}
    /\ Answer(h)
    /\ UNCHANGED <<ledgerVars, delivered, stale, claims, notices, claimFaulted, syncVars, faults>>

\* The process dies, or the request context is cancelled, between statements.
CutOff(h) ==
    /\ handler[h] # Idle
    /\ Fault
    /\ Answer(h)
    /\ UNCHANGED <<ledgerVars, delivered, stale, claims, notices, claimFaulted, syncVars>>

WebhookNext ==
    \/ \E a \in Alerts : GoStale(a)
    \/ \E h \in Handlers :
         \/ \E b \in Bodies : Deliver(h, b)
         \/ Claim(h) \/ Record(h) \/ LookUp(h) \/ Notified(h) \/ CutOff(h)
         \/ \E i \in Issues : Notify(h, i)

-----------------------------------------------------------------------------
(* The syncer.                                                             *)

BilledTo(b, l) == {w \in Workspaces : <<l, w>> \in b}

\* runOnce's targets: a workspace with no billing recorded is asked for under
\* its own id.
TargetsOf(b, l) ==
    BilledTo(b, l) \cup
    {w \in Workspaces : w = l /\ \A m \in LensWorkspaces : <<m, w>> \notin b}

\* trackWorkspaces[0]: LensBilling sorts by Track id; the own id comes last.
IsFirst(b, l, w) ==
    /\ w \in TargetsOf(b, l)
    /\ IF BilledTo(b, l) = {} THEN w = l
       ELSE w \in BilledTo(b, l) /\ \A x \in BilledTo(b, l) : w <= x

Lenses(b) == {l \in Readable : TargetsOf(b, l) # {}}

\* A tick: the billing is read once for the whole run; when that fails the run
\* goes on with Track workspace ids only.
BeginRun(s) ==
    /\ syncer[s] = Idle
    /\ \E b \in {billing, {}} :
         /\ syncer' = [syncer EXCEPT ![s] =
                         [pc |-> "lenses", billing |-> b, lenses |-> Lenses(b)]]
         /\ \/ b = billing /\ UNCHANGED faults
            \/ b = {} /\ Fault
    /\ UNCHANGED <<ledgerVars, webhookVars, window, logged, billing>>

\* GetSpendByRequest for one Lens workspace; on an error it is passed over.
Fetch(s, l) ==
    /\ syncer[s].pc = "lenses"
    /\ l \in syncer[s].lenses
    /\ \/ /\ syncer' = [syncer EXCEPT ![s] =
                [pc |-> "rows", billing |-> syncer[s].billing,
                 lenses |-> syncer[s].lenses \ {l}, lens |-> l,
                 rows |-> {r \in window : RequestLens[r] = l}]]
          /\ UNCHANGED faults
       \/ Fault /\ syncer' = [syncer EXCEPT ![s].lenses = @ \ {l}]
    /\ UNCHANGED <<ledgerVars, webhookVars, window, logged, billing>>

EndRun(s) ==
    /\ syncer[s].pc = "lenses"
    /\ syncer[s].lenses = {}
    /\ syncer' = [syncer EXCEPT ![s] = Idle]
    /\ UNCHANGED <<ledgerVars, webhookVars, window, logged, billing, faults>>

\* WorkspaceOfIdentifier's rows: the issues of these workspaces so named.
Holders(tws, name) ==
    {i \in issues : Identifier[i] = name /\ WorkspaceOf[i] \in tws}

\* Fault: an unplaced row keeps its labels, which the first workspace may hold.
PlacementsKeepLabels(s, r) ==
    LET b    == syncer[s].billing
        l    == syncer[s].lens
        tws  == TargetsOf(b, l)
        name == Named(RequestFeature[r], RequestIssue[r])
        held == IF name = Empty THEN {} ELSE Holders(tws, name)
        To(W) == {[request |-> r, workspace |-> w, feature |-> RequestFeature[r],
                   ident |-> RequestIssue[r], saw |-> held] : w \in W}
    IN  IF \E i \in held : held = {i} THEN To({WorkspaceOf[i] : i \in held})
        ELSE To({x \in tws : IsFirst(b, l, x)})

\* The workspace a row goes to, and the labels it keeps: with one workspace
\* that one; with several the one holding the named issue or, when none or
\* more than one does, the first with its labels cleared.
Placements(s, r) ==
    LET b    == syncer[s].billing
        l    == syncer[s].lens
        tws  == TargetsOf(b, l)
        name == Named(RequestFeature[r], RequestIssue[r])
        held == IF name = Empty THEN {} ELSE Holders(tws, name)
        Keep(w) == [request |-> r, workspace |-> w, feature |-> RequestFeature[r],
                    ident |-> RequestIssue[r], saw |-> held]
        Clear(w) == [request |-> r, workspace |-> w, feature |-> Empty,
                     ident |-> Empty, saw |-> held]
    IN  IF \E w \in tws : tws = {w}
          THEN {Keep(w) : w \in tws}
        ELSE IF \E i \in held : held = {i}
          THEN {Keep(WorkspaceOf[i]) : i \in held}
        ELSE {Clear(w) : w \in {x \in tws : IsFirst(b, l, x)}}

\* Fault: a row that several workspaces could own is skipped, not recorded.
LocateSkipsAmbiguous(s, r) ==
    /\ syncer[s].pc = "rows"
    /\ r \in syncer[s].rows
    /\ IF \A p \in Placements(s, r) : Named(p.feature, p.ident) # Empty
         THEN \E p \in Placements(s, r) :
               syncer' = [syncer EXCEPT ![s] =
                 [pc |-> "land", billing |-> syncer[s].billing,
                  lenses |-> syncer[s].lenses, lens |-> syncer[s].lens,
                  rows |-> syncer[s].rows \ {r}, at |-> p]]
         ELSE syncer' = [syncer EXCEPT ![s].rows = @ \ {r}]
    /\ UNCHANGED <<ledgerVars, webhookVars, window, logged, billing, faults>>

\* The first statement of a row; on an error the row waits for the next run.
Locate(s, r) ==
    /\ syncer[s].pc = "rows"
    /\ r \in syncer[s].rows
    /\ \/ /\ \E p \in Placements(s, r) :
               syncer' = [syncer EXCEPT ![s] =
                 [pc |-> "land", billing |-> syncer[s].billing,
                  lenses |-> syncer[s].lenses, lens |-> syncer[s].lens,
                  rows |-> syncer[s].rows \ {r}, at |-> p]]
          /\ UNCHANGED faults
       \/ Fault /\ syncer' = [syncer EXCEPT ![s].rows = @ \ {r}]
    /\ UNCHANGED <<ledgerVars, webhookVars, window, logged, billing>>

\* Fault: the row inserted and the credit left to a statement that is cut off.
LandInsertsOnly(s) ==
    /\ syncer[s].pc = "land"
    /\ syncer' = [syncer EXCEPT ![s] =
         [pc |-> "rows", billing |-> syncer[s].billing, lenses |-> syncer[s].lenses,
          lens |-> syncer[s].lens, rows |-> syncer[s].rows]]
    /\ LET p == syncer[s].at
       IN  /\ ~ Landed(p.request)
           /\ \E i \in Target(p.feature, p.ident, p.workspace) \cup {NoIssue} :
                 ledger' = ledger \cup {Row(p.request, p.workspace, i)}
    /\ UNCHANGED <<issues, lensFeature, cost, webhookVars, window, logged, billing, faults>>

\* The second: RecordRequestSpendAttributed; on an error, likewise.
Land(s) ==
    /\ syncer[s].pc = "land"
    /\ syncer' = [syncer EXCEPT ![s] =
         [pc |-> "rows", billing |-> syncer[s].billing, lenses |-> syncer[s].lenses,
          lens |-> syncer[s].lens, rows |-> syncer[s].rows]]
    /\ LET p == syncer[s].at
       IN  \/ RecordRequestSpend(p.request, p.feature, p.ident, p.workspace) /\ UNCHANGED faults
           \/ Fault /\ UNCHANGED ledgerVars
    /\ UNCHANGED <<webhookVars, window, logged, billing>>

NextLens(s) ==
    /\ syncer[s].pc = "rows"
    /\ syncer[s].rows = {}
    /\ syncer' = [syncer EXCEPT ![s] =
         [pc |-> "lenses", billing |-> syncer[s].billing, lenses |-> syncer[s].lenses]]
    /\ UNCHANGED <<ledgerVars, webhookVars, window, logged, billing, faults>>

\* The process dies mid-run; its successor starts a run of its own.
Restart(s) ==
    /\ syncer[s] # Idle
    /\ Fault
    /\ syncer' = [syncer EXCEPT ![s] = Idle]
    /\ UNCHANGED <<ledgerVars, webhookVars, window, logged, billing>>

Sync(s) ==
    \/ BeginRun(s) \/ EndRun(s) \/ Land(s) \/ NextLens(s)
    \/ \E l \in LensWorkspaces : Fetch(s, l)
    \/ \E r \in Requests : Locate(s, r)

-----------------------------------------------------------------------------
(* The world around: Lens logs requests, which leave the 24h window; owners *)
(* are billed and cease to be owners; issues are created and relabelled.    *)

LogRequest(r) ==
    /\ r \notin logged
    /\ logged' = logged \cup {r}
    /\ window' = window \cup {r}
    /\ UNCHANGED <<ledgerVars, webhookVars, billing, syncer, faults>>

ExpireRequest(r) ==
    /\ r \in window
    /\ window' = window \ {r}
    /\ UNCHANGED <<ledgerVars, webhookVars, logged, billing, syncer, faults>>

RecordLensBilling(l, w) ==
    /\ <<l, w>> \notin billing
    /\ billing' = billing \cup {<<l, w>>}
    /\ UNCHANGED <<ledgerVars, webhookVars, window, logged, syncer, faults>>

OwnerLeaves(l, w) ==
    /\ <<l, w>> \in billing
    /\ billing' = billing \ {<<l, w>>}
    /\ UNCHANGED <<ledgerVars, webhookVars, window, logged, syncer, faults>>

EditIssue ==
    /\ \E i \in Issues, f \in Features : CreateIssue(i, f) \/ SetLensFeature(i, f)
    /\ UNCHANGED <<webhookVars, syncVars, faults>>

SyncNext ==
    \/ \E s \in Syncers : Sync(s) \/ Restart(s)
    \/ \E r \in Requests : LogRequest(r) \/ ExpireRequest(r)
    \/ \E l \in LensWorkspaces, w \in Workspaces : RecordLensBilling(l, w) \/ OwnerLeaves(l, w)

Next == WebhookNext \/ SyncNext \/ EditIssue

\* StartSync ticks for ever and a run goes through its rows one after the
\* other, so a syncer keeps moving; nothing else is owed a step.
Fairness == \A s \in Syncers : WF_vars(Sync(s))

Spec == Init /\ [][Next]_vars /\ Fairness

-----------------------------------------------------------------------------

\* Everything that reaches the tables is one of the ledger's own steps, so
\* what SpendLedger promises holds of the composition.
ImplementsLedger == LedgerSpec

\* A replayed alert, byte-varied or delivered to two handlers at once, is
\* charged under one key only: the claim lets one delivery through.  (Not
\* when the claim itself failed: then the body hash is the only guard.)
ClaimedAlertChargedOnce ==
    \A row1, row2 \in ledger :
        /\ row1.key \in Bodies /\ row2.key \in Bodies
        /\ AlertOf[row1.key] = AlertOf[row2.key]
        /\ AlertOf[row1.key] \in Identified \ claimFaulted
        => row1.key = row2.key

\* Never guessed: when a Lens workspace pays for several Track workspaces, a
\* request is put on an issue only if the resolver saw that issue, and no
\* second holder of the identifier, in any of them - although issues appear
\* between the two statements.
NeverGuessed ==
    [][ \A s \in Syncers :
          syncer[s].pc = "land" /\ syncer'[s] # syncer[s] =>
            \A row \in ledger' \ ledger :
              \/ row.issue = NoIssue
              \/ syncer[s].at.saw = {row.issue}
              \/ \E w \in Workspaces :
                   TargetsOf(syncer[s].billing, syncer[s].lens) = {w} ]_vars

\* No request is lost while Lens still returns it: a request of a Lens
\* workspace that is being served is recorded, attributed or not, unless it
\* leaves the window or the workspace stops being served first.
Served(r) ==
    RequestLens[r] \in Readable /\ TargetsOf(billing, RequestLens[r]) # {}

RequestEventuallyRecorded ==
    \A r \in Requests :
        (r \in window /\ Served(r)) ~> (Landed(r) \/ r \notin window \/ ~ Served(r))

=============================================================================
