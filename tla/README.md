# Talyvor Track, formally

A TLA+ development kept beside `talyvor-track`: an issue tracker written in Go
(`internal/`, one binary `cmd/track`) over PostgreSQL and Redis, with a React front end.
Each module translates the handlers, stores and background loops of one part, and the SQL
they run; the Python scripts of `scripts/` that test the tests, and the two guards CI runs
over them, are modelled too. TLC checks small instances and TLAPS proves the main safety
results for all values of the constants.

`PROJECT.json` lists the components, runs, properties, hazards and theorems, the mutant
that shows each property can fail, and for every definition the source lines it stands for.

## 1. The system

Any number of instances of `cmd/track` share one database. Each serves HTTP and WebSocket
requests and runs these loops: the realtime hub, the Redis bridge (publisher and
subscriber), the Lens spend syncer, the webhook outbox, the mail outbox and its digest, the
import runner, and the pruners of uploads and deleted workspaces. Instances meet only in the
database (and, for realtime events, in Redis). One SQL statement is atomic; a transaction runs
under READ COMMITTED, so every statement of it sees what was committed when that statement
began; nothing raises the isolation level.

### What the components keep and do

| Component | State | Operations | What is hard | What makes it correct |
|---|---|---|---|---|
| AI-spend ledger (`issue/store.go`) | `lens_spend_events`, `issues.ai_cost_usd` | record an alert, land a request | fan-out, replays, two writers | a request's cost lands once; an issue's total is the sum of its rows |
| Lens webhook (`lensintegration/webhook.go`) | claims, notifications | receive a signed alert | redelivery, re-encoding, failure between four statements | an identified alert charges and notifies once |
| Lens syncer (`lensintegration/syncer.go`) | none of its own | pull 24 h of requests each tick | overlapping pulls, several instances, billing that changes | idempotent; attribution never guessed; nothing lost while it is served |
| Import jobs (`importer`) | `import_jobs`, `import_job_payloads` | enqueue, claim, run, finish, prune | racing runners, crashes, shutdown order, half-failed rows | a job runs at most once; its report is honest; uploads live as long as needed |
| Issues and teams (`issue`, `team`) | `issues`, `teams` | create, import, update, move, delete | number and identifier chosen before the insert; imports that look native | numbers usable; identity permanent; completion times mean done, or done when deleted |
| Members (`member`) | `members` | add under seats, change role, remove | transactions that count and then write | an owner remains; seats hold; one person is one member |
| Realtime hub (`realtime/hub.go`) | clients, rooms, channels | register, unregister, subscribe, broadcast | full channels, select order, send on a closed channel | maps mirror each other; no panic; nobody waits for ever |
| Realtime bridge (`realtime/bridge.go`) | two queues per instance | start, emit, publish, inject | drops, echoes, broken subscriptions, a start that fails, a client that sends a lost PUBLISH again | at home once and in order; at a peer only what was sent again is out of place; everything not dropped arrives from an instance whose bridge started |
| Presence (`realtime/presence.go`) | viewers in memory | add, remove, expire | - | one map under one mutex |
| Webhook outbox (`webhooks`) | endpoints, one row per attempt | register, remove, queue, claim, post, record, retry | several senders, stops between claim and record | an attempt is sent once, only failures are retried, every event settles |
| Mail outbox (`email`) | `notification_outbox`, preferences | queue, claim under a lease, send, digest | leases that run out, two kinds of sender, locks held while sending | copies bounded, a digest's rows untouched by others, mail settles |
| Issue relations (`dependency`) | edges and inverse edges | add, bulk add, delete | check, insert and inverse are separate statements | no blocking cycle; edges have their inverses |
| Timers (`timetracking`) | time entries | start, stop, log, delete | an UPDATE that waits for rows others hold | two run together only if their starts overlapped |
| Cycles (`cycle`) | cycles, `issues.cycle_id` | update, complete, plan | read-check-write, two statements | no lost update; no open issue in a completed cycle |
| Workspace lifecycle (`workspace`) | workspaces and every table under them | log in, rename, delete, restore, purge | racing logins, sweep against restore, rows that arrive during a purge of 17 statements | kept while its window is open; goes whole, in the end; logins meet in one |
| Automation, GitHub (`automation`, `webhookdedup`) | rules and their cache, claims | add, load, delete, fire, receive | cache against table, claim before effects | bounded rules; a delivery acts once |
| Feature board (`featureboard`) | posts, votes | vote, unvote, convert | recount in a transaction | count = votes |
| Workflow (`workflow`) | statuses and their cache | list, create, update, delete | cache fill against invalidation, check then delete | cache = table; no orphaned status |
| Guests (`guest`) | invitations, guests | invite, accept, revoke | three statements | an invitation is used once |
| Lens tokens (`lenscreds`) | a token per workspace | get | coalesced minting | never an expired token, one mint at a time |
| Migrations (`migrate`) | `schema_migrations` | up | several instances, crashes | a prefix, each applied once |
| Breaker, drain (`dbresil`, `health`) | open/closed, draining | probe, guard, drain | - | opens and closes by the threshold |
| Stores with one-statement writes (`project`, `milestone`, `label`, `customfield`, `scoring`, `template`, `issueboard`, `notification`, `integrations`) | their tables | create, update, delete | little | tenancy, constraints |
| Reads (`analytics`, `forecast`, `ai`, `mcp`) | none | aggregates, prompts | arithmetic | agreement with a reference definition |
| Request plumbing (`authz`, `gatewayauth`, `tenancy`, `httpx`, `safehttp`, `config`, `db`, `metrics`, `model`) | none | parse, authenticate, authorize | - | out of scope |
| Control scripts (`scripts/w3*-controls*.py`) | the working tree, a copy to restore from | mutate, test, restore, exit | moved anchors, replacements nobody counts, exceptions, signals, reruns on what a killed run left | files come back; verdicts are about one control; a pass is earned |
| Guards (`scripts/check-*.py`) | lists of known exceptions | census, rules, merge | lists and scripts change in different branches | what dies or loses its protection is listed by the merge that does it |
| Front end (`frontend/src`) | React state, one WebSocket | reconnect, resubscribe | events missed while away | rooms resubscribed |

### How they interact

- An HTTP handler of issues writes through `issue.Store`, then tells the realtime notifier
  and the sinks of `teeNotifier` (webhooks, then mail) one after the other, then fires
  automation rules, which write issues again through the same store.
- The import runner writes issues through the same store (`UpsertByIdentifier`, `Create`).
- Lens reaches the ledger by a webhook and by the syncer's pull; both write the same two
  tables, and the webhook also creates notifications.
- The hub's loop emits presence events into the channel it drains itself; the bridge moves
  events between instances over Redis.
- `main` stops an instance by draining HTTP and returning; the deferred calls close the
  pool before they cancel the context the loops run under.

## 2. The modules

`SpendAccount` is the abstract specification; `SpendLedger` implements it and `LensSpend`
composes its callers. `Outboxes` composes the two outboxes. `ControlRun` runs the scripts
that `AnalyticsControls`, `ImporterControls` and `TrackControls` list, each a
`ControlHarness` with its controls. The other modules stand alone: they meet only in tables
whose other users are modelled as an environment (a `Human` who takes identifiers in
`ImportJobs`, preferences that change in `MailOutbox`, rows that arrive in any table of
`WorkspaceLifecycle`).

| Module | State and the code behind it | Actions |
|---|---|---|
| `SpendAccount` | where each request's cost is | land once, charge alerts |
| `SpendLedger` | `ledger`, `cost`, features and identifiers of issues | `RecordSpendEvent` and `RecordRequestSpend` as the single statements they are; editing of issues |
| `LensSpend` | each handler's and syncer's local variables, claims, notices | the four statements of `ServeHTTP`; `Sync`'s reads and per-row writes; Lens's window; failures |
| `ImportJobs` | job rows, payloads, one runner and one process phase per instance | enqueue, `ClaimNext`, open, write row, finish, delete payload, prune, signal, close, cancel, exit, crash |
| `IssueStore` | issues by identifier, team prefixes, each caller's choice of number; as history, the rows `Delete` cancelled when they were done and whose status nobody wrote since | `Create`, `UpsertByIdentifier`, `nextIssueNumber`, `Update` (moves too), `BulkUpdate`, `Delete`, renaming of a team |
| `MemberRoles` | roles, row locks, the workspace lock, one transaction per client | `AddMember`, `ChangeRole`, `RemoveMember`, statement by statement |
| `RealtimeHub` | the three channels, maps, send buffers, pumps and the loop's position | `ServeWS`, `readPump`, `writePump`, `run` and its three handlers |
| `RealtimeBridge` | what became of `Start`; `broadcast`, `pub`, the PUBLISH under way, copies whose answer was lost and the wire, per instance | `Start`, `emit`, `runPublisher`, the answer or its loss, the late execution of a copy, the subscriber, `injectRemote`, disconnection |
| `OutboxInstances` | the instances and the fault budget of the outboxes | - |
| `WebhookOutbox` | endpoints, attempts, the goroutines of `DeliverDue` | `Create`, `Delete`, `enqueue`, `DeliverDue`, `post`, record, schedule |
| `MailOutbox` | outbox rows, digest preferences, each instance's batch and digest | `assigned`, `SendDue`, record, `SendDigests`, `digestOne`, `put` |
| `Outboxes` | which sinks an event was told to | `teeNotifier`, stopping of an instance |
| `WorkspaceSchema` | the tables of `migrations/`, their foreign keys, the order of `purgeOrder` | - |
| `WorkspaceLifecycle` | rows of each workspace, deletion time, requests between two statements, each instance's sweep | login and bootstrap (insert, commit, seed), `Rename`, `Delete`, `Restore`, the purge statement by statement, late rows, failures, time |
| `Timers` | one member's entries, who holds a row, each request's transaction | `StartTimer`, `StopTimer`, `LogTime`, `Delete` |
| `FeatureVotes` | votes, `vote_count`, each visitor's transaction | `Vote`, `Unvote`, their recount |
| `ControlHarness` | the points the harnesses of the scripts, and their controls, differ in | - |
| `ControlRun` | the tree, the copies, the script's position and verdicts | preflight, baseline, write (or, uncounted, write what was there), test, judge, restore, verify, exit; moved anchors, exceptions, signals, reruns |
| `AnalyticsControls`, `ImporterControls`, `TrackControls` | the harness and the controls of each of 98 scripts | - |
| `AnchorGuard` | anchors, how often each occurs, `KNOWN_DEAD`, in a branch and in main | edits of code, scripts and list; `check-control-anchors.py`; merge |
| `HandlerGuard` | how each script restores, three lists, in a branch and in main | edits; `check-restore-signal-handlers.py`; merge |

`MC*` modules give the constants values. Three of them put parts that share no state into
one run, with a variable `part` that is fixed in the initial state and says which part a
behaviour is about: `MCRequests` (webhook, members, timers), `MCBackgroundLoops` (syncer,
purge), `MCControls` (scripts, the two guards). Nothing is lost by it: each part has all its
behaviours, and each property reads one part.

The eight `*Proofs` modules hold the theorems: `SpendProofs` those about `SpendLedger` and
`LensSpend`, `RequestProofs` those about `IssueStore`, `MemberRoles` and `Timers`,
`ControlProofs` those about the scripts and the guards, `OutboxProofs`, `HubProofs`,
`BridgeProofs`, `ImportProofs` and `WorkspaceProofs` those about one component each.

Conventions: the text between two statements, or between two blocking operations of a
goroutine, is one action; local variables live in a record per process with its control
state. A definition introduced by "Fault:" is a deviation of the definition after it; no
module uses it, and the mutants of `PROJECT.json` put it in that definition's place.
Variables marked "history" are read by properties only.

## 3. The runs

| Run | Instance | What it shows |
|---|---|---|
| `requests`, webhook | 2 handlers, an identified alert in 2 encodings, an old alert twice, 2 issues that are relabelled, 1 failure | an issue's total is the sum of its rows; a claimed alert charges once |
| `requests`, members | 2 requests, 5 rows of which two are the same person, 3 seats | seats and addresses; a counted write leaves an owner |
| `requests`, timers | 2 requests, 3 entries | two timers run only if their starts overlapped |
| `background_loops`, syncer | 2 instances, 2 workspaces billed together and sharing an identifier, 1 request, 1 failure | a request lands once, never guessed, and eventually; refinement of `SpendLedger` and, through it, of `SpendAccount` |
| `background_loops`, purge | 2 workspaces, 1 purge loop, the full schema, 1 late row or rename, 1 failure, 2 requests at a time | kept while the window is open; gone whole; gone in the end; racing logins make one |
| `import_jobs` | 2 instances, 2 jobs that compete for 1 identifier with each other and a person, 1 fault, graceful stops | at most one run per job, honest reports, uploads kept, nobody else's issue rewritten, imports end |
| `import_shutdown` | the same with no fault | *violation*, finding 1 |
| `issues` | 2 callers, 2 teams, 3 prefixes, 3 numbers, 2 rows | chosen numbers usable, identities permanent; a completion time only on a done row, or one deleted when it was done and not written since |
| `members_owners` | 2 rows, 2 requests | *violation*, finding 2 |
| `hub` | 2 tabs of one member, 2 rooms, changes by another member in one, capacity 1 everywhere | maps mirror, no send on a closed channel, everyone enters and leaves |
| `hub_gone` | 2 connections, 1 room | *violation*, finding 3 |
| `bridge` | 2 instances, one emitter each, 2 events and 1, queues of 1, 1 retry, one of: a bridge that does not start, an answer lost, a subscription broken | once and in order at home; at a peer nothing out of place but a copy sent again; delivery of what is not dropped, unless the bridge at home did not start |
| `outboxes` | 2 instances, 1 event, 1 endpoint, 1 member, 2 attempts each way, 1 change of preference, 1 fault | attempts sent once, copies bounded, digests exclusive, both sides settle |
| `controls` | each of 98 scripts started twice, one file with uncommitted work or none, red or green suites; the guards over 4 anchors of 3 scripts and 2 scripts, 2 edits a branch | files come back whenever the `try` covers the edits, and after a signal where there is a handler; verdicts are about one control; a pass is earned; work is kept; deaths and losses are listed |
| `votes` | 2 visitors, 2 addresses | *violation*, finding 4 |

### Bounds, and why they are enough

Everything here is symmetric in instances, requests and rows, and the properties speak of
one or two of them at a time, so two actors and the one or two rows they meet in reach the
races; a third adds repetitions. In particular:

- `MaxFaults = 1`: one failure at every possible point. The properties that tolerate faults
  say so in their statement, and the theorems hold for any number.
- Capacity 1 for the hub's channels and buffers makes "full" the usual case (the code has
  16 to 256). Two connections and a loop that emits are enough for the circular wait the
  comments of `hub.go` discuss.
- `MaxNumber = 3`, `MaxIssues = 2`: a native issue, an import that looks native and a third
  number that is free; the theorem covers all sizes.
- Seats 3 of 5 rows: two adds race for the last seat, and one row is a second spelling.
- Two attempts on each outbox: the first one and one retry, so "last attempt" and "not last
  attempt" both occur. The batch limit of 50 is not reached. With one event, the loop's
  concurrent posts within an instance never overlap; posts of two instances do.
- The purge: the statements and tables are the real ones, so one row in each table is what
  the foreign keys can tell apart. A late row brings all its optional references at once
  (more refusals than fewer would give); the two seeds of a login come both or not at all; a
  window of one tick and two instants put a restore on either side of it. One instance
  purges; that several meet only in the row lock is part of the theorems.
- Three time entries: one running, one a start inserts, and one more start or manual entry.
- The scripts are taken as they are: a harness is the 12 points they differ in, a control
  its files, in order, its prediction, which edits nobody counts and how a mutation that does
  not compile is scored. Two starts reach every tree a killed run leaves.
- The bridge: with one fault, a PUBLISH is sent twice at most, so "executed late, executed twice
  and never executed" all occur, behind a newer event as well; the theorem is for any number
  of retries (the client's default is 3).
- The guards: a key that two rows share, one that one row has, a count of 0 to 2 and two
  edits in a branch, so that a branch can do a thing and hide it.
- Times are otherwise abstracted to "due or not", which lets leases run out, windows close and
  backoffs end at any moment: more behaviours than a clock allows.

`CHECK_DEADLOCK FALSE` is set where the bounded system really stops: `bridge` (every event
was emitted), `requests` and `outboxes` (rows, preferences and events are used up),
`background_loops` (ids, late rows and time run out) and `controls` (a script ends).

### Fairness

- Goroutines that loop over a ticker or a channel are weakly fair: the syncer, sinks, digest
  and pruner are started by `main`, the publisher and the subscriber by `Start` when it
  succeeds, and leave their loops only when the process ends, which is a step of its own.
  Sends, HTTP calls and calls to Redis have timeouts, so they return, with an answer or
  without. Nothing promises that `Start` succeeds, or that Redis executes a copy whose sender
  has given up.
- `Claim` of an import job is strongly fair: `SKIP LOCKED` can find the only row locked by
  another claim again and again, each tick is a new chance.
- The hub's `select` is strongly fair per case, because Go chooses at random among ready
  cases and a case that is ready infinitely often is taken; so is a blocked channel send,
  since Go's channels queue their senders.
- `PurgeLoop` is weakly fair: `StartPurge` is a goroutine on an hourly ticker that goes on
  with the next workspace, and with the next hour, after every error. `ExpiredIsPurged`
  needs no more because failures and late rows are bounded, so one sweep meets none.
- Nothing is assumed of people, Lens, endpoints, mail servers, faults or signals. Time is
  weakly fair in `Outboxes`.
- `IssueStore`, `MemberRoles`, `Timers`, the scripts and the guards have no fairness and claim nothing eventual: a request that
  is cancelled may stop anywhere.

### Findings

1. `import_shutdown`: the terminal write is protected from cancellation, but on SIGTERM the
   pool is closed before anything is cancelled; the write is refused and the job stays
   `running`.
2. `members_owners`: whether owners are counted is decided from a role read without a lock;
   two allowed changes in between let the last owner go.
3. `hub_gone`: `select` may take an unregister before the register it follows, and the
   client then stays in the room for good.
4. `votes`: two votes at once leave one too few on the post: the second recount waits for
   the first's row lock and then writes what it had counted before.

### Seen while reading

Not runs, because the comment concerned is looser than the code or another run has the
mechanism; each is a place to look at.

- `issue/store.go:1268` says a redelivered event adds nothing; an event redelivered after
  another issue got its feature adds cost to that issue.
- A webhook claims its alert in one statement and records its cost in the next: an error in
  between loses the cost, and the retry is a duplicate. `SubscribeClient` may run before the
  loop has registered the client and is then dropped (`hub.go`).
- An issue number taken in a race is reported to the caller although a comment of
  `issue/store.go` has callers retry; `team/store.go` calls a team's identifier
  permanent and updates it.
- `issue/store.go:247` says a completion time is recorded only on a row that is done, and
  `importer/jira.go:262` calls one on any other row "a state no Track path can produce".
  `Delete` (`issue/store.go:1238`) produces it: it sets the status alone.
  `CompletedIsDelivered` admits that row and no other.
- `main.go:204` says realtime HA "will retry in the background" when Redis does not answer.
  Nothing does: `Start` fails (`bridge.go:103`), the hub keeps an enabled bridge, its events
  pile up in a queue without a reader until it is full, and peers are not heard until the
  process restarts. `ReachesEveryone` excuses such an instance.
- `main.go:201` leaves the Redis client its retries, so a peer can see an event twice, or an
  old one after a newer one. The envelope has no number a subscriber could tell it by.
- A member who turns digests on can get a mail twice (leased and digested).
  `webhooks/sink.go` admits that a claimed attempt is lost with its process; it is also lost
  when only the result of the claim cannot be read.
- `bootstrap.go` says the second login must find the workspace of the first; a PATCH that
  changes the slug in between makes it a second one. A process that dies between the commit
  of a workspace and its seeds leaves it unseeded for good. An automation log that lands
  between the first two statements of a purge makes it roll back and try the next hour.
- `timetracking/store.go:3` says one timer runs; two overlapping starts leave two.
- Two relation requests can close the blocking cycle each checks for; a create that failed
  half way is refused as a duplicate and its inverse never repaired; a create racing a
  delete leaves an inverse alone (`dependency/store.go`).
- `automation`: `DeleteRule` fails on the foreign key of its logs once the rule has run.
- `featureboard`: `UpdateStatus` without an issue clears the link its comment says it
  leaves; converting a post twice makes two issues.
- `workflow`: `ValidateTransition` has no caller; the cache is per process, so another
  instance serves old statuses until it restarts.
- Scripts: of 98, 23 exit 0 whatever their verdicts. 27 score a mutation that does not compile
  as what the control predicts (134 controls of them in the 20 whose status does depend on the
  verdicts). 9 replace without counting in 14 controls, and in 7 of those, of 6 scripts, a
  replacement that changes nothing is not bound to show, because other edits of the control or
  its prediction (green) hide it. `w34-api-updated-controls.py` prints that a scope marker is
  gone and does not count it. `PassIsEarned` is about the 50 scripts that do none of this where
  it matters and notice a red suite (`Discriminates`); 2 of those have a replacement nobody
  counts and notice it by the verdict.
- 91 scripts have no signal handler; `w34-date-controls.py` has no baseline and can pass over a
  red suite; `w34-linear-state-type-controls.py:262` and `w34-wire-contract-controls.py:108-110`
  write before their `try`; three restore only on the way that succeeds (`jira-csv-created`,
  `jira-resolution-delivered`, `linear-csv-issue-id`).
- Guards: two rows of `w34-burndown-final-second-controls-9m4x.py` share a key, so one of
  them may die unlisted while the other is listed (`DeathsAreListed` is about keys of one
  row); an entry of `NOT_MUTATORS` excuses a script that becomes a mutator later; rule R3
  says nothing as long as `NOT_ANCHORS` is empty.

## 4. What is proved

TLAPS checks the eight proof modules. They hold every invariant and action property that a
passing run checks, and the two refinements, for every value of the constants: any number of
instances, requests, rows, attempts and failures. The proofs assume only the named `ASSUME`s
of the modules they extend, which TLC evaluates for the runs. Each follows one plan: an
inductive invariant, a lemma per action that keeps it, and the property from it.

**The ledger** (`SpendProofs`). The invariant joins the types, `LedgerMatchesCost`
(the sum over a set of rows, as a fold), "a request has one row" and "a row's issue is of
its workspace". Each needs the others: that adding to the cost keeps it equal to the sum
needs the row to be new, which the uniqueness gives; and uniqueness needs the existence
check of the statement and the insert to be one step. From it follow the three properties
and the refinement of `SpendAccount` by the mapping that reads a request's place off its row.

**Lens over the ledger** (`SpendProofs`). Every action of the composition is a step of
the ledger or leaves it alone (`LensImplementsLedger`), so the ledger's results carry over
without another induction. Three results are about what is carried from one statement to
the next and need invariants of their own. `ClaimedAlertsChargedOnce`: by `ClaimInv` a
handler past its claim holds the only claim of its alert, unless the claim failed.
`AlertsNotifyOnce`, which no run states: by `NoticeInv` that handler is the only one that
notifies, and an issue it has notified for is off its list.
`SyncerNeverGuesses`: by `PlacedInv` the labels a syncer carries name the one issue it saw,
or are cleared, or just one workspace pays. What is created or relabelled before the insert
cannot spoil that, because an identifier is unique in a workspace and issues keep both.

**Issue numbers** (`RequestProofs`). `AllocationUsable` by `ChosenWasFree`: the number a
caller holds was free among the rows it saw, and rows only get more, so if there are none
more it is still free. `IdentityIsPermanent` is preserved action by action.
`CompletedIsDelivered` follows a row from the status it was written with: every statement that
writes a status other than done clears the time and takes the row out of `retired`, except
`Delete`, which puts it there if it was done.

**Members** (`RequestProofs`). `RolesInv` says what each lock is worth at each point of
a transaction: a row someone counted is an owner as long as it is locked (`OwnersHeld`), a
transaction about to write counted two (`TwoCounted`), who is past the workspace lock holds
it (`SpaceHeld`), and what the seat count and the address check found still holds
(`StillMissing`). From these, seats, addresses and the counted write.

**Timers** (`RequestProofs`). An UPDATE never sees what was committed after it began, so a
request cannot know what runs when it commits. `AccountedFor` says what it does know: each
entry that runs is one it has still to stop, one it has stopped, or one of its rivals,
committed after it began. At its commit the first set is empty and the second stops running,
so what is left running beside its own entry are rivals: `OverlapsOnly`.

**Import jobs** (`ImportProofs`). `IInv` follows a job through its runner. A job being
claimed is pending and one being executed runs (`Working`); no two runners have the same one
(`Apart`); one that runs is executed or has lost its runner (`Attended`): together,
`RunsOnce`. For the report, `Untouched` (nothing has landed before the execution), `Counted`
(up to its position a runner's tally is what landed and what failed, and if it counts no
refusal or failure every row so far has landed) and `Reported`. A row whose write failed
after it committed is why the tally counts landed rows that are not doubtful. `FileKept` is
inductive with the rest. `OwnIssuesOnly` needs the predicate of the conflict arm only.

**Workspaces** (`WorkspaceProofs`). `Held`, `Doomed` and `Closed` say that who purges holds
the row, that the workspace is past its window as the sweep saw it, and that the window was
closed then: hence `WindowIsKept`. `Swept` says of every statement done what is left behind
it; with `SchemaFits`, the only thing used of the schema, the last statement finds nothing:
`AllOrNothing`. `Rooted` and `OneSlug` (one workspace has the slug or is getting it) give
`LoginsConverge`. The schema itself, 35 tables, is an instance that TLC checks to fit.

**Webhook outbox** (`OutboxProofs`). `AttemptSentOnce` rests on a stamp that is never taken
back, and it is not inductive alone: `UsedIsClaimed` says that an attempt someone sends or
sent is a claimed row as long as its endpoint is there, and that an endpoint's id is spent,
so a deleted and registered endpoint brings no attempt back; `OneSender` says an attempt has
one goroutine, which has not posted it before its first step; `RetriesLeft` keeps what a
failure inserts within the schedule. An instance that stops, or a claim whose result is not
read, only takes goroutines away from rows that stay claimed.

**Mail outbox** (`OutboxProofs`). Nothing bounds the copies sent by itself: a lease can run
out under the sender. `CopiesOwed` counts, for each mail, the copies sent and those that
batches and digests in progress will still send, against the attempts counted, the digest
that marked or holds it, and the faults. Each action moves a unit between the two sides; a
fault pays for the send whose record it loses. `HeldApart` (locks of two digests are
disjoint, and what a digest holds is not due to a sender) gives `HeldIsUntouched`, `RowsKnown`
and `NoneYet` say that a mail with no row, or one the handler was not told of, has no copy.

**Hub** (`HubProofs`). The loop takes its channels in any order, so the argument is about the
life of one connection (`Life`): it is in `register` at most once and before it is a client,
in `unregister` only when its read pump is gone, and once its channel is closed it is in
neither, in no map and in no room. With `Distinct` (no connection twice in a channel) a
closed client cannot be closed or entered again; with `DeliversToClients` the delivery the
loop is in the middle of leads to clients, and it does not close a channel before it ends.
`RoomsMirrorClients` is inductive with that: a subscription that comes after the unregister
finds no client to join.

**Bridge** (`BridgeProofs`). An event passes `pub`, a call to Redis, `wire`, `broadcast` and the
listener; each may drop it, and a call whose answer is lost leaves a copy in `late` that Redis may
execute at any time. Per emitter and instance (`Travels`), `AllRise` says the numbers rise within
a queue, `InOrder` that what is further on is smaller than what is behind, both but for numbers
of `resent`, which are excused where copies pass and never in `pub` or at home; and `Emits` that
no number exceeds what was emitted and nothing has overtaken an event whose second half of `emit`
(the publish) is still to come: local delivery and publication are two steps, and without that
clause the induction fails between them. `OwnOnly` says an instance publishes only what its own
emitters emit, so that every copy of its events comes back to it as an echo it drops: this is why
what is sent again is never out of place at home.

**Control scripts** (`ControlProofs`). At every point a file is what the run found, with every
counted edit of the current control that is written, perhaps with those nobody counts, and with
nothing else (`TreeIsKnown`, `Mutates`); and what the harness restores from gives what it found
(`CopyIsFound`, which is where `HarnessesRestore` is used). From that: files come back, at the
end and after a signal; work survives; a verdict is about its control. For a pass,
`VerdictsCounted` says that what went wrong was counted, or that the suite is red and a control
that predicts green counts it. An edit that was not counted and not applied is, in a script that
`Discriminates`, the whole of a control that predicts red: then nothing was changed, the suite
says what it said before, and on a green suite the control fails.

**Guards** (`ControlProofs`). The invariant is that the merged tree passes the census. What a
merge does to the lists follows from the rules at its two ends: an entry of a list is about
something dead or unprotected before the merge, so what dies or loses its handler was not
listed, and after the merge must be.

Model-checked only: the eventual properties (`ImportsEnd`, `EntersAndLeaves`,
`ReachesEveryone`, `EventSettles`, `MailSettles`, `RequestEventuallyRecorded`,
`ExpiredIsPurged`), whose proofs need `ENABLED`; what folds compute beyond the one-element
steps the ledger needs, which is induction over data; and the four violations, where a
counterexample is all there is to show.

## 5. What is not modelled, and why

Texts, formats, parsing and rendering; authentication and encryption; analytics, which only
reads; provider APIs behind `importer` (a source is its list of rows, and may fail); the
front end; helm charts. Of the scripts: `w34-template-assignee-lock-controls` (its edits
build on each other), `w641-sigterm-controls` (it kills other scripts), 25 probes and
snapshots that mutate nothing they restore; of three scripts the second measurement that
moves a new test file aside. Of the guards: how a literal is recognised as an anchor or a
restore, which is a choice here. Within modelled parts: the secret of a webhook and its
rotation; labels, priorities and the other columns of an issue that no property tells
apart; comments; amounts of time; of the feature board everything but votes.
`PROJECT.json` gives a reason for each component.

## 6. Plan

Built so far, in the order of importance: the ledger and Lens, imports, realtime, members,
issues, the outboxes, the scripts and their guards, the workspace lifecycle, timers, votes.
The runs are as many, and as long, as one can name and wait for; what comes next joins a run
whose parts it resembles, or takes the place of a shallower property.

1. `Relations` - the cycle check, the edge and its inverse as statements with snapshots; an
   acyclic relation as the specification the code misses, paired edges as the one it should
   meet. Joins `requests`.
2. `WorkflowCache` and `Cycles` - cache fill against invalidation, check then delete, lost
   updates.
3. `Automation` - rule cache, GitHub claims, `Fire` over `IssueStore`.
4. `LensTokens`, `Breaker`, `MigrationRunner`, `Guests`, `Presence`, `RealtimeClient`.
5. Pure operators for burndown, velocity, scores and the importer's mappings, against
   reference definitions over small inputs.

Proofs to add, in the proof module of the component they are nearest to: the safety of what
is added above, and results that no run states, such as what a job's payload outlives in
`ImportJobs` and that a workspace restored in its window has lost no row in
`WorkspaceLifecycle`.
