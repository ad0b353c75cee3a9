# AstrLink in TLA+

AstrLink is a local gateway for large language models: a Go core that takes
inference requests from the tools on a desk, sends each one to one of several
providers or subscription accounts, redacts what should not leave the machine,
keeps records, and synchronises its configuration between devices through a
WebDAV or S3 store. A Tauri desktop application starts and supervises the core.

This directory holds TLA+ models of the core's logic, the TLC configurations
that check them on small instances, and TLAPS proofs of the results that hold
for every value of the constants. Every definition that models code is listed
in `PROJECT.json` under `map` with the lines it stands for.

    tlc -workers 2 -config MCSyncEngine.cfg MCSyncEngine
    tlapm SyncEngine_proofs.tla

Contents: 1 Inventory, 2 Modules and how they correspond to the code, 3 Runs,
bounds and what they show, 4 Disagreements found, 5 Fairness, 6 Proofs, 7 Limits
of the models, 8 Plan.

## 1 Inventory

Paths are under `src/`; `internal/` stands for `core/internal/`.

### Configuration sync (modelled)

* **Remote lock** (`internal/sync/remote/lease.go`). State: a lock object at the
  store (owner, nonce, expiry) under an entity tag, and a `Lease` in the process
  that wrote it. Operations: `Acquire` (read, conditional write, up to three
  tries), `Renew`, `Release` (read, conditional delete). Hard: several devices'
  requests interleave, clocks disagree, an answer may be lost after the store
  has applied the request, a process may stop between two requests. Correct
  when at most one device may rely on the lock, and nobody removes a lock that
  is not theirs.
* **Stores** (`remote/s3.go`, `remote/webdav.go`). Conditional reads, writes and
  deletes of two objects. The conditions are modelled; addressing, signing and
  the mapping of HTTP errors are not.
* **Merge** (`internal/sync/merge.go`). A pure three-way merge of base, local and
  remote per entity, by content and then by time, with a rule of its own for the
  first contact of a device with a package.
* **Engine** (`internal/sync/engine.go`, `local.go`). State: per device the
  configuration tables, the change log that triggers fill, tombstones, the merge
  base, the pinned remote, the sync settings with the armed force push; at each
  store the package. Operations: `Configure`, `syncOnce` (lock, read, merge,
  apply to the tables, conditional write, up to two attempts), `forcePush`,
  `finish` (base, pin, log, force push, four statements). Interacts with the
  user's saves through the ordinary API (triggers), with other devices through
  the package, with `remote` through the lock. Hard: a user saves while a run is
  between two steps; a run overruns its lease; the process stops between two
  statements; a written package whose answer is lost; settings that change under
  a run. Correct when no change is forgotten, no edit is replaced by an older
  one, what a device leaves out of its settings passes through unharmed, a force
  push is neither lost nor repeated, and all devices agree in the end.
* **Tables** (`internal/storage/sqlite/sync_store.go`, `sync_apply.go`,
  `sync_entities.go`). The statements the engine uses.
* **Schedule** (`internal/sync/schedule`). Cron parsing and due times; abstracted
  to fair starts of runs.

### Request path

* **Execution and recovery** (`internal/ingress/execution.go`, `recovery.go`,
  `recovery_steps.go`; modelled). State of one request: the recovery schedule
  (which candidates have been selected, may be retried, are excluded; attempts
  per candidate and in all; the next candidate and its back-off), the response
  writer with its commit point, the error kept for replay. Operations: `next`,
  `started`, `repair`, `exclude`, `recover`, and the loop that prepares, sends,
  classifies and answers. Interacts with the planner, the resolver and the
  transport, and with other requests through the cool-downs of
  `internal/endpoint/health.go`. Hard: three strategies, each with
  its order of retry and switch; rejections that spend no attempt; answers that
  take whole accounts off the request; a response that breaks off before or
  after the client has seen a byte; a cool-down that another request sets
  between choice and call. Correct when the budgets hold, the order of targets
  is the strategy's, nothing is sent after the commit point, and the client gets
  exactly one answer, about the last call made.
* **Held stream start** (`ingress/stream_start.go`). How many events of a stream
  are held back before the response commits. Its outcome is an input of
  RequestExecution.
* **Planner** (`internal/planner`). A pure choice; its outcome is an input too.
* **Resolution** (`internal/endpoint/store_resolver.go`) and **affinity**
  (`ingress/response_affinity.go`, `channel_binding.go` with their tables). Which
  candidates a request has, in which order, and with which account a continued
  conversation must stay. Hard: a binding made by one request is read by the
  next while the provider is edited or deleted.
* **Responses over WebSocket** (`ingress/responses_websocket.go`,
  `codex_turns.go`). Turns over one socket, reconnects, and what may be replayed.
* **Restore writer** (`ingress/restore_writer.go`, `privacy/restore.go`).
  Replaces placeholders in a streamed response across chunk boundaries. Correct
  when the restored stream does not depend on how it was cut into chunks.
* **Request records** (`ingress/request_record.go`, `storage/sqlite/writer.go`,
  `request_record_store.go`, `audit_store.go`). A write queue with a bound, and a
  record's life from start to settled.
* **Raw payload sealing** (`storage/sqlite/raw_sealing_store.go`, `keyring.go`,
  `controlapi/raw_vault.go`; modelled). State: the parts with their label and the
  key they are under, the one row of `raw_sealing_keys`, the key the process holds,
  the settlings that were deferred, the pass that moves parts and whether another is
  asked for. Operations: capture, the decision of the inspection, the end of a
  request, setting, replacing and clearing the password, the pass in its batches, a
  stop and the recovery at the next start. Hard: the pass reads a part, and by the time
  it writes, the part was captured again, or the key replaced. Correct when what is
  sealed can be opened by the current password, a raw part does not stay under the
  audit key, and a withheld part is never shown.

### Accounts

* **Subscription tokens and account login** (`internal/subscription/manager.go`,
  `accountauth/refresh.go`, `accountauth/session.go`; modelled). State: per service the
  account and its status, the credential in the store, the token source with its
  generation and the one refresh in flight, the authorization attempt, the login
  session, the reservation of the provider account, and whether a sign-out is under way.
  Operations: a login that is begun, completed, cancelled or superseded; a sign-out;
  callers of `AccessToken`, who share one refresh. Hard: all of it runs concurrently and
  is ordered only by generations, reservations and waiting. Correct when nothing writes a
  credential while a login or sign-out is about to, a sign-out leaves none behind,
  one provider account belongs to one service, and nobody waits for ever.
* **Device code, PKCE** (`internal/accountauth`). The exchanges with the provider; a login
  session is completed by them, or it is not.

### Privacy

* **Engine** (`internal/privacy`). Detection and redaction; the stand-in ledger
  assigns a placeholder per value.
* **Worker client** (`internal/privacyworker`; modelled). State: the hand-over with its
  selected client, the preparation of its worker and the fallback that serves meanwhile;
  per client the worker process, the one slot, the cache of inspected pieces and a latched
  failure. Operations: a policy is selected, a request is inspected piece by piece, a
  worker is started, breaks and is started once more, a client is retired. Interacts with the
  policy in the store and the installed models, which other handlers change. Hard: a
  worker is stopped on purpose while somebody waits for it; the policy changes again during a
  preparation; a client is closed under a request. Correct when every worker has an
  owner, a request is refused only when something did change or fail, and what is no
  longer selected is closed in the end.
* **Model installation** (`internal/privacymodel`; modelled). State: the staging
  directory with its plan, the published one, the record in memory and in the store, the
  download under way. Operations: install, pause, resume, verify, publish, delete, and
  what a start reads back. Hard: a stop at any point, and an update of the application
  that brings another plan. Correct when a model that is reported ready has all its
  files, from one plan. **Auto model** has the same structure.
* **Workers** (`apps/privacy-worker`, `apps/classifier-worker`). Neural inference
  and its decoding: numerical data processing, out of TLC's reach.

### Process

* **Core lifecycle** (`internal/coreapp`, `parentwatch`). Start-up order, shutdown,
  the lock on the data directory, exit when the parent is gone.
* **Desktop supervisor** (`apps/desktop/src-tauri/src/sidecar.rs`,
  `failure_policy.rs`). Restarts the core with back-off until it gives up.
* **Claude CLI runtime**, **built-in tools**: a pool of processes and a loop around
  a model's answers. Planned after the request path.
* **Control API**, **migrations**, **key store and updates**, **conversation
  library**: no state of their own, straight-line code, calls of the
  operating system, pure data processing. Not modelled.

### Main window (`apps/desktop/src`)

The window is a React application. Its pages call Core through the bridge; each call is
asked, carried out by Core and answered at three different moments, and answers overtake
each other. What is hard is everywhere the same: state read before an `await` and used
after it. Each page has its own device against it: a generation counter, a gate, a
reference to the request that counts.

* **Core status** (`App.tsx`, `request-gate.ts`, `SettingsCenter.tsx`; modelled). The status
  poll, the restart from the overview, the actions of the settings page, all of which
  replace one snapshot.
* **Service pages** (`App.tsx`, `ServiceManager.tsx`, `LocalImportDialog.tsx`; modelled). The
  catalog with its visible and silent reads, the list and the editor, the guard in front
  of unsaved edits, saves, switches, deletions and imports.
* **Routing page** (`RoutingSettingsPanel.tsx`; modelled). A draft that saves itself, what is
  valid of it, while the user goes on editing.
* **Model library** (`SafetyPolicy.tsx`; modelled). The rows of the models, the progress
  polls, the operator's buttons, visits of the page.
* **Request list** (`RequestRecords.tsx`, `session-live-model.ts`; modelled). Pages of
  conversations, the poll of the first one, what is held back while the operator reads,
  earlier pages, deletions and purges.
* **Other pages**: forms, charts, scenes, translations. Presentation, or pure functions
  from records to what is drawn. Not modelled.

The hazards of this code, each at its line and with the properties that cover
it, are in `PROJECT.json` under `hazards`. Three have no property: they are
at places of the sync the model leaves out (section 7).

## 2 Modules and how they correspond to the code

| Module | Models | Uses |
|---|---|---|
| `DeviceLock` | what the remote lock promises | |
| `RemoteLease` | `lease.go` over conditional requests | implements `DeviceLock` |
| `RemoteLease_proofs` | theorems about it | `RemoteLease` |
| `SyncMerge` | `merge.go`, scope and orphan rules of `local.go`: pure operators | |
| `SyncEngine` | `engine.go`, `local.go` and the tables, several devices and stores | `SyncMerge` |
| `SyncEngine_proofs` | theorems about it | `SyncEngine` |
| `RequestExecution` | one request: the recovery schedule, the loop around it, the cool-downs | |
| `RequestExecution_proofs` | theorems about it | `RequestExecution` |
| `SubscriptionTokens` | `manager.go`, `refresh.go`, `session.go`: logins, sign-outs, refreshes of services | |
| `SubscriptionTokens_proofs` | theorems about it | `SubscriptionTokens` |
| `RawSealing` | `raw_sealing_store.go`, `audit_store.go`, `raw_vault.go`: parts, keys, passes | |
| `ModelRegistry` | `registry.go`, `resume.go`: one model and its files | |
| `PrivacyWorker` | `client.go`, `handover.go` of `privacyworker`: clients, workers, the hand-over | |
| `PrivacyWorker_proofs` | theorems about it | `PrivacyWorker` |
| `CoreParts` | `RawSealing`, `ModelRegistry` and `PrivacyWorker` side by side | the three before |
| `Core_proofs` | theorems about them | `CoreParts`, `PrivacyWorker_proofs` |
| `CoreStatus` | the status of Core in the window | |
| `ServicePages` | the service pages | |
| `RoutingAutosave` | the routing page | |
| `ModelLibrary` | the model rows of the safety page | |
| `RequestList` | the list of conversations | |
| `RequestList_proofs` | theorems about it | `RequestList` |
| `Desktop` | the five parts of the window side by side | the five before |
| `Desktop_proofs` | theorems about them | `Desktop`, `RequestList_proofs` |
| `MCCore`, `MCDesktop` | instances of `CoreParts` and `Desktop`, one part per behaviour | the module they are named for |
| other `MC*` | small instances | the module they are named for |

Operators named `...Unchecked`, `...Early`, `...Any` and the like, under a comment
"Mutant of X", are versions of X with a plausible error. No run uses them as
they stand; they exist to be put in X's place, to see that a property notices.

**RemoteLease.** One action per request: `AcquireReadLock` / `AcquireWriteLock` /
`AcquireRefused` are the loop of `Acquire`, `AcquireAnswerLost` the case in which
the store has written the lock and the caller never learns of it. `lock` is the
object with its entity tag, which is the number of the write that produced it (a
store does not hand out a tag twice). `pc[d] = "held"` stands for a `Lease` in the
process; `Abandon` is a stop, or a request that fails before it reaches the store.
Device clocks are `now + Offset[d]`; the code compares an expiry stamped by one
clock with another, and `MayRely(d)` is true while *every* clock is still before it.
The engine never calls `Renew` during a run; it is modelled because the package
offers it.

**SyncEngine.** A device's tables are `rows` (with `updated_at`), `log`
(`config_change_log`, of which only the newest stamp per entity matters), `tomb`
(`sync_tombstone`), `base` and `pin` (`sync_baseline`, `sync_state`), `config`
(settings with force push and generation). `run[d]` holds the local variables of
`syncOnce`; `pc` names what comes next:

    Start -> Load -> ReadRemote -> MergeLocal -> Apply -> Write ---------+
                 \-> ForceRead ------------------------> Write           |
                        ^---------- WriteRefused <---------+             |
    idle <- ConsumeForcePush <- ClearChanges <- RecordSyncResult <- PutBaseline

`Save` and `Delete` are the user's, with the trigger's stamp in the same step, as
in the database. `Configure` and `ConfigureReset` are its two statements.
`RemoteChanged` is the run that finds another remote configured than the pinned
one. `StopInApply` leaves any prefix of `apply`'s order behind (owners before what
they own, writes before deletions). `WriteAnswerLost`, `Stop`, `Lapse` are the other
faults. An edit's content is its number, so "older" and "newer" edits can be told
apart. `latest`, `owed` and `base.from` are history and guard nothing.

**RequestExecution.** The ten variables of `schedule` are the fields of
`recoverySchedule`; the others are locals of `executeCandidatesWithTest`, the
response writer's `Committed()`, and the cool-downs of `health.go`. `pc` is where
the loop stands: `Choose` / `NoneLeft` is `next`, `Reject` any of the local rejections of
the preparation, `Send` the call (`started`), `Refuse` an error answer with its
classification (`HandleResponse`), `NetworkError`, `BufferedError`,
`ConversionError`, `Interrupted`, `Deliver` the ways a call ends, `Conclude` what
follows the loop. `recover` is an operator on the schedule with the code's order of
choices in `NextTarget`; the jitter of the back-off is a choice among its lowest,
middle and highest value. The user's error rules are represented by letting every
answer come with any of the four failure actions. Other requests are
environment: they raise and release cool-downs at any time. `trail` is history.

**SubscriptionTokens.** Each operation stands at a place of its own (`begin`, `login`,
`logout`, `cancel` per service, `callers`), and moves one lock or one store access at a time.
`Invalidate` is the source being switched off, together with the wait for the refresh that is
found in flight; the next step of the operation is guarded by that wait. A credential
is the number of its login and how often it was refreshed. The session manager's
expiry and cancellation are steps of their own, and so are the two halves of
`CancelAuthorization` and `GetAuthorization`: `CancelSession` or `FindEnded` look at a session
(`cancel` keeps which), `Reconcile` then acts on the account. `TakeBack` may fail to remove the
credential of a superseded login, which the code does not look at; `left` is history and names the
services where it did. `crossed` is history: the services
where a step that goes back to one session has met the attempt of another (section 4).

**RawSealing.** A part is the number of its latest capture, its label and its key: 0 is the
audit key, a kept part with another number is sealed. `StoreKey`/`ClearKey` and `CacheKey` are the
database statement of a password change and the process's copy of it, between which
anything may happen. `pass` is `ResealRawParts`: it reads a part, and writes only if the
part is as it was read. It may fail before its first part (`StartPass`) or at any later moment
(`PassFails`), pass over a part that does not decrypt (`PassReads`), and leave one whose recipe
is stale to a pass it asks for itself (`pass.stale`). `SettleRaw` and `SealSettled` have the error
returns of `UpdateAuditExposure` and `resealSettledPart`, of pending and of shareable parts.
`missed` is history: the parts that the last pass failed on or passed over. `Crash` forgets the
process and carries out `RecoverPendingRequestRecords`.

**ModelRegistry.** A file is the sequence of the plans its pieces came from, so a mixture can
be seen; 0 is a damaged piece. Assets without a digest in the plan are taken as they
come. `plan` may grow at a start, as with an update of the application.

**PrivacyWorker.** A client serves one model from the hand-over's creation of it to its `Close`, so
its `generation` is `open`. Each goroutine, of a request or of the preparation of a client,
is at one place (`at[x].pc`):

    Detect -> Check -> TakeSlot -> Ensure -> Validate -> Start -> AwaitReady -> Adopt -> Exchange -> Store
                          ^           \-----------------------------------------------^          |
                          \----------------------------------------------------------------------+

`Ensure` to `Adopt` are the stretches of `ensureProcess` between its unlocks. `FailedClient` is
`failProcess`, `Untracked` is `stopProcess`, `Closed` is `Close`. A refusal
(`ErrDetectorUnavailable`) of the fallback sends a request to the selected client (`Unavailable`).
`PatchPolicy`, `ApplyPolicy` and `Closing` are the three parts of a change through the control
API, all under `privacyMu`; `SyncedPolicy` writes the store only. `upset` and `broken` are
history: who saw a cause, and whose worker or files failed.

**The window.** In all five modules a call goes through phases (asked or sent, served or read,
answered), and failing or getting lost is possible before and after Core has acted. A
generation counter is modelled by its effect: what is superseded is marked or
taken out. `CoreStatus` has Core's own state as a number that only grows; `ServicePages`
has versions of records, with conditional writes, and the editor's draft as typed or not;
`RoutingAutosave` has the draft, the saved document, the plan of what is sent (`planAutosave`) and
`typing`, the `editingRedirect` that holds the autosave back while a redirect is being typed;
`ModelLibrary` counts the changes of each model, and its `load` may fail, after which the page
shows its tabs no more until it is opened again or refreshed (`Shown`); `RequestList` has the times of the newest call and of the latest
change of each conversation, and pages of `Limit` rows read from them. `acked`, `seen`,
`stray`, `left`, `unheard` (the models a call changed whose answer did not reach the page), `rebased`
and `beside` are history and guard nothing except where section 7 says so.

## 3 Runs, bounds and what they show

All bounds are constants that appear in guards, all named `Max...`, or sizes of sets. Deadlock is checked
for `RequestExecution`, where a finished request has its own `Terminated` step; the
other specifications stop at their bounds and say `CHECK_DEADLOCK FALSE`.

| Run | Instance | States | Shows |
|---|---|---|---|
| `remote_lease` | 2 devices, clocks 1 apart, lease 3, 3 tries, 5 ticks, 3 acquisitions, 4 writes | 360 k | the lock is exclusive and stored while relied on; only its own Release removes it; it implements `DeviceLock`; the invariant of the proof |
| `sync_engine` | 2 devices, 1 entity, 2 edits during runs, one fault of any kind, tombstones past their retention at once | 958 k | nothing changed is forgotten; a package replaces only what its run read; the invariant of the proof |
| `sync_join` | a device installed late, with a freshly stamped seeded row and narrower settings; 2 entities, 4 edits | 1.2 M | without faults the package never goes back to an older edit; what a device leaves out passes through |
| `sync_apply_stops` | 2 devices, a service and its credential, 4 edits, a stop anywhere in `apply` | 1.6 M | no row without its owner |
| `sync_settings` | 1 device, 2 stores, 4 settings saves at any moment of a run | 322 k | a force push is disarmed only when carried out; a run merges against the base of its own remote |
| `sync_converges` | 2 devices, 2 edits, one fault of any kind, fair schedulers, tombstones past their retention at once | 194 k | the devices agree in the end |
| `sync_save_undone` | 2 devices, saves during runs | | the disagreement of section 4 |
| `request_execution` | 3 candidates on two accounts, limit 3, 1 retry each, every strategy and failure action | 776 k | budgets, order of targets, commit point, the right answer, termination; the invariant of the proof |
| `desktop` | the parts of the window, one per behaviour: 2 services, 1 change; 3 settings of 2 values, 3 edits; 1 model with 2 operations and 2 visits, 2 models with one of the four fewer; 3 conversations on pages of one, 2 events; 2 restarts or actions | 323 k | late answers never bring back an older status, record or row; edits go only as listed and are saved; no read is left loading; the list has no gap; each page catches up with Core, but for what section 4 lists |
| `subscription_tokens` | 2 services, 1 provider account, 1 caller, 2 logins, 1 sign-out, 1 refresh, 2 faults; the second service only signs in (`Rival`) | 176 k | credentials are written by one operation at a time; a sign-out leaves none, but for a removal that failed unseen; one service per account; every operation ends |
| `core_parts` | one part per behaviour: 1 raw part, 2 captures, 3 keys, 2 faults, 2 stops; 3 assets of 2 pieces, one without a digest, 2 plans, 3 faults, 2 stops; 2 models, 2 requests of 2 pieces, 3 policies, 1 trouble (see below) | 241 k | raw parts are moved unless a pass failed on them, and can be opened, what is withheld stays so, a settling that failed is made up for; a ready model is whole and of one plan, the record agrees with the staged bytes; every worker has an owner, requests are refused for a cause, clients are closed in the end |
| `worker_switch_cuts_off` | 2 models, 1 request of 1 piece, 2 policies | | the disagreement of section 4 |

Why these are enough:

* *Lease*: taking over a lapsed lock needs two devices, a late write or delete
  needs the lapse to fit between two requests; a lease of 3 with a skew of 1
  leaves room for both within 5 ticks. Three acquisitions let a device lose its
  lock, and the other take it and lose it again. The theorems hold for any number.
* *Engine*: the hazards are between one run and one other event; two runs (one
  per device) and two edits reach each of them, and every mutant of the runs
  needs no more. Two attempts is the code's own `maxWriteAttempts`. A second
  entity is added where a relation between entities matters. What `EngineInv` implies
  is proved for any number of devices, entities, stores, edits and faults.
* *Request*: three candidates are the fewest with "an earlier one, this one, a
  later one" (fallback and exclusion work on this order), with two routes of one
  account around a route of another. Three attempts allow a switch and a
  return. The safety results are proved for any candidates, budgets and waits. All
  candidates count as Claude subscriptions so that an "extra usage" refusal excludes accounts
  other than the refused one. Delays of 0 or 1 tick make every
  order of back-off and cool-down happen.
* *Tokens*: one provider account and two services are what a clash of logins needs; two logins
  let one supersede the other. What the second service may do to the first is to hold or want its
  account, so `Rival` leaves it nothing else. The safety properties are proved for any number;
  the inductive invariant of the proof was also checked with one service, 4 logins and 2 sign-outs.
* *Sealing*: parts do not touch each other except through the key and the pass, whose batches
  take parts one at a time; the theorems of section 6 hold for any number of parts, keys and stops.
  Two faults let a settling fail and then the pass that was to make up for it.
* *Workers*: two requests and three policies at once are too many states, so `Requests` in
  `MCCore` has the second request while at most two policies were selected, the second one
  without a trouble, and a third policy before the first request or without a trouble. One
  request suffices for a chain of two fallbacks, two for the slot, the shared cache and
  requests on both sides of a hand-over. By itself the module was also checked with 2
  requests of 1 piece, 2 policies and 1 trouble (361 k states) and 1 request, 3 policies and 1
  trouble (204 k).
* *Registry*: three assets let a stop fall before, in and after one that the plan does not
  pin; two plans are the fewest that can mix.
* *Window*: the parts share nothing but Core, and only one page is mounted at a time, so the
  instance is their sum: `open` picks the part of a behaviour. Two models are what an operation
  beside another's download needs; two operations and two visits together are followed with one
  of them only (`WithinBounds`). The two services play the same part at the start, so the one change
  is followed on the first (`OnTheFirst`), while both have their editors. The settings of the routing
  page start at the lowest value; edits move them from there. Every mutant of the parts
  shows within these bounds. Pages of one row make two of three conversations earlier
  ones; `RequestList` was also checked by itself with 3 events (680 k states).
* With a retention of 0 every tombstone older than a run's snapshot is dropped by it, so the
  expiry of tombstones happens within the bounds; elsewhere (100) it never does.
* Edits during runs are switched off (`SaveWhileRunning = FALSE`) where a property
  is about what devices do to each other, because such a save can be lost (section 4);
  the faults of `sync_settings` are off because of the known limit in section 7.

## 4 Disagreements found

Two are shown by runs that are expected to fail. `PROJECT.json` quotes the lines.

* `sync_save_undone`: a save between the read of the tables and `apply` is
  overwritten, or deleted when it created the row; the comment at
  `sync/engine.go:715` says it is packaged by the next run. The log still
  names the entity, but the content is gone.
* `worker_switch_cuts_off`: requests that are with the client of a model when another is
  selected are not in the `inflight` of the fallback that client becomes, so its retirement
  cuts them off (`handover.go:185`); the comment above it says they finish there. They are
  refused, not sent uninspected.

The others were met while modelling. The models contain the behaviour, and the
properties are stated so that they allow it, or a named restriction leaves it out (section 7).

Sync and requests:

* When the conditional write is refused, the retry merges rows that the first attempt has
  adopted and stamped anew; they then count as this device's own, newest change and replace
  a newer edit of another device (`engine.go:771`). The comment at `engine.go:642`
  calls the repetition safe.
* `carryThrough` starts from the merge base, so what another device removed from a kind
  out of scope returns (`local.go:193`); `merge.go:111` says it does not.
* An adopted deletion is stamped with the time of the run that adopts it and so beats an
  entity created after the deletion (`local.go:373`); `merge.go:250` says that times decide.
* A 429 without `Retry-After` sets a cool-down of `initial_delay`, and grants a retry after
  that delay spread by 0.8 to 1.2; in half of the cases the retry is due first and is
  turned down by the cool-down its own answer has set (`execution.go:836`).
  `recovery_test.go:197` expects A, A, B, with a resolver that keeps no cool-downs.

Accounts, sealing, models:

* A caller that has read the tokens and registers its refresh only after a new login has
  switched the source on again is not waited for (`refresh.go:108`); the comment at
  `manager.go:722` says that no refresh of the old tokens is left.
* A step that goes back to one session of a service does not look whether the attempt it meets is
  that session's. `GetAuthorization` and `CancelAuthorization` find a session ended
  (`manager.go:292`, `344`), and their second half (339, 363) removes the attempt of a sign-in
  begun meanwhile; a login of an earlier session is let through under a later attempt as long as
  that has no session yet (729, 948). After this the rollback of a start that fails
  (`manager.go:854`) puts the account from before over one that was connected meanwhile, with its
  old owner and status, or tokens stay switched off on a connected account. It takes three
  logins for a signed-out account to keep a credential and five for two operations to write one
  at once. `crossed` names the services where it has happened, and the properties of the tokens
  speak of the others.
* A superseded login removes the credential it has stored and does not look whether that worked
  (`manager.go:764`), so a signed-out account can keep one until its next login or sign-out.
  `SignedOutMeansRemoved` allows exactly that credential (`left`) and says that no account is shown
  as connected with it.
* A pass over the raw parts that fails is logged and not repeated, and a part that does not decrypt
  is passed over (`raw_vault.go:200`, `raw_sealing_store.go:749`, `791`, `801`). A raw part whose
  settling was handed to that pass stays under the audit key until a request, a password change or a
  start asks for another; the comments at `audit_store.go:412` ("goes to the vault's reseal pass
  instead of waiting for the next start") and `raw_sealing_store.go:891` ("a raw capture is never
  left under dek_audit alone") promise more. `RawIsNotLeftUnderAudit` and `EndedIsSettled` allow
  exactly the parts of such a pass (`missed`). A part that was shareable and whose relabelling fails
  is no candidate of a pass (it stays shareable until the request settles it once more).
* With the password cleared at a start, a raw part that was withheld by the recovery stays
  under the audit key until a next password (`raw_sealing_store.go:821`); the comment at 889
  says that a raw capture is never left so.
* A stop while the files of a ready model are being removed leaves it reported ready with
  files missing (`registry.go:323`); `registry_test.go:810` expects a partial
  removal not to remain ready.
* "Leaving local-model mode stops every worker" (`handover.go:72`): a fallback that is being
  retired and waits for its requests is no longer known to the hand-over, and goes on until
  they have ended.
* A policy that comes from another device is stored and not handed over
  (`sync_apply.go:436`), so requests that need a local model are refused until the next change
  or start; the guard of a deletion (`privacy_models.go:281`) looks at the
  stored policy and lets the model in use be deleted. A request that reads a policy between
  its storage and the hand-over (`policies.go:238`) is refused too.

Window:

* The answer to a switch or sign-out asked for from the list shows the list, also when the
  user has opened an editor and typed meanwhile (`App.tsx:787`). `EditsGo` lists this, next to the
  confirmed leave, edits that are taken back, and a save of the editor that fails, which clears the key
  that was typed (`ServiceManager.tsx:2025`, by design).
* The actions of the settings page replace the snapshot beside the gate
  (`SettingsCenter.tsx:555`); `request-gate.test.ts:17` has a restart
  exclude and invalidate the others.
* A load of the routing page begun during an autosave shows the older settings as saved
  (`RoutingSettingsPanel.tsx:240`, against the text at `en.json:3579`).
* A load of the routing page that is taken over while an autosave is under way (the draft having
  been edited back, so that it is not dirty, `RoutingSettingsPanel.tsx:242`) moves the baseline
  from under the comparison of the autosave's answer with what it sent (283), and the answer can
  take back a later edit; the comment at 280 says that later edits stay. `EditsAreKept` leaves
  these autosaves out (`rebased`).
* A call of an earlier visit of the safety page that Core takes up late changes a model under the
  calls of the new visit, whose answers may then put back an older row (`left`).
* An installation, a resumption or a removal that Core has carried out and whose answer is lost only shows an
  error (`SafetyPolicy.tsx:2459`, `2603`, `2696`); the row stays as it was, and it is not polled. A
  removed model that still shows as downloading makes every poll fail for all of them
  (`Promise.all`, 1803). A load that fails hides the tabs and is not repeated (1668).
  `CaughtUp` allows these cases and says that the rows of all other models catch up (`unheard`).
* A poll of the models that was cancelled by an operation schedules no other when the set of
  downloads stays the same (`SafetyPolicy.tsx:2689`, `SafetyPolicy.test.tsx:1416` expects polling to go
  on after a failure), and a list read before a removal brings the model back
  (`SafetyPolicy.tsx:1657`; the test at 1364 excludes it for an older poll).
* A poll or an earlier page in flight during a deletion brings the deleted conversation
  back for good: `dropFromList` (`RequestRecords.tsx:1350`) leaves `listGeneration` alone
  and the merge never removes a row.
* When more than a page of conversations (50) begin while the window is hidden, or while one
  poll stays in flight across two purges, the merge leaves a gap that the comment at
  `RequestRecords.tsx:1307` means to exclude. Rows beyond the first page are not
  updated, and a conversation that gets a call while chosen for deletion leaves the list
  though Core keeps it.

## 5 Fairness

Safety needs no fairness. Five runs need some:

* `sync_converges`. The poll loop of `Engine.Run` (engine.go:498) never ends by itself and
  starts a run whenever one is due, and a run in progress goes on (each request has a
  deadline): weak fairness of a run's steps. A device that meets another's lock
  ends with `ErrBusy` and tries again at a later poll; the lock is not held all
  the time, since runs are bounded and a lock left behind lapses: strong fairness of
  `Start` per device, weak fairness of the lapse of a lock no run holds. The
  `manual` trigger never starts a run by itself; the property is about the other
  triggers. Nothing is assumed of users and faults.
* `request_execution`. Weak fairness of the gateway's own steps and of the clock.
  An upstream call ends, because the wait for the response has a deadline; that a
  stream ends once it has begun is an assumption about the upstream. Client,
  commit point and other requests get no fairness.
* `subscription_tokens`. Weak fairness, per service, of the steps of an operation that
  was begun (they are goroutines that run on) and of the answer to a refresh
  (its HTTP client has a time limit). Users, sessions and callers get none.
* `core_parts`. For the raw parts, weak fairness of the vault's passes, of the second half of a
  password change, of each settling and of the end of each request (whose last write is taken to
  succeed in the end); captures, password changes and stops get none. Faults are bounded, and a pass
  that fails counts as a step of the vault. For the workers, weak fairness of a change of the policy that
  was stored (the handler runs on, under its lock) and of each goroutine: it runs on, its
  slot is given back, and a worker answers or the timer of the exchange ends the wait. Requests,
  policies, cancellations and failures get none. The download of a model has no liveness
  property and needs none.
* `desktop`. Weak fairness of timers and of every call's being carried out or failing and then
  answered (the bridge has time limits), of Core's coming back where the page waits for
  it, and of a download's end. The user gets none, which includes leaving a field of the routing page;
  that a reading fails is nobody's duty either.

## 6 Proofs

Checked by TLAPS for every value of the constants that satisfies the `ASSUME`s.

**Remote lock** (`RemoteLease_proofs`). `LeaseInvariant` proves `Spec => []LeaseInv`,
with `LeaseInv` = types, `TagsKnown` (tags and nonces in use were handed out),
`NoncesUnique` (a nonce names one lease of one device), `TagsCurrent` (a device about
to write with a tag that still matches has seen a lock that is its own or expired
for every clock; one about to renew or delete has seen its own) and
`ReliedLockIsOwned`. Exclusiveness alone is not inductive: it does not say
why a write that is still on its way is harmless. The reason is that tags are never
reused, so a matching request acts on the very lock that was examined. From it:
`LeaseIsExclusive`, `ReliedLockStaysStored`, `ReleaseRemovesOnlyOwn` (an action
property) and `LeaseImplementsDeviceLock` (refinement: each step takes or loses the
abstract lock, or leaves it). Assumption: clocks differ by at most `MaxSkew`, and a
device stops relying on its lease that much earlier. The code has no such margin:
what the theorem says is how much margin is needed.

**Sync engine** (`SyncEngine_proofs`). `EngineInvariant` proves `Spec => []EngineInv`, with
`EngineInv` = types and, for each device, `SeenIsCurrent` (a current tag names the package
the run has seen), `CarriesSeen`, `ForcePushServed`, `OwnersKept`, `ChangesLogged` and
`DeviceSafe`. The proof is per device: a step of a device leaves the tables and runs
of the others alone, and a package gets a tag no run holds, so what the others know stays
true (`OthersKeepInv`, `OwnStepKeepsInv`, `StoringKeepsOthers`); each action is then
examined for its own device. The part that makes the change log work is `ChangesLogged`: a
row that differs from what the run is about to publish, or has published, was
changed after its snapshot, and `ClearChanges` leaves such stamps alone.
`OwnersKept` carries `NoDanglingRow` through every prefix of `apply`. From the
invariant: `ChangesStayPending`, `ForcePushIsHonoured`, `RowsHaveOwners`,
`WritesReplaceWhatTheyRead`, `OtherKindsAreCarried`. Assumptions: `EntityAssumption` (an owner
owns itself), `ScopeAssumption` (settings select a group with its owners, and an
installation seeds no entity without its owner), a finite set of devices.

`BasesBelongToTheirRemote` has an invariant of its own, `RemoteKept`: a stored base is of the pinned
remote, or between `PutBaseline` and `RecordSyncResult` of the one about to be pinned, and a run talks
to the pinned remote if there is one. A stop between these two statements of a first run breaks
it (section 7), so the theorem is about behaviours without this one step (`StopsUnpinned`); all other
stops and faults are in.

`PackagesNeverGoBack` (`PackageNeverReverts`) follows one entity wherever a copy of it is held: in the rows,
bases and runs of all devices and in the packages (`EntityInv`). Comparing the
edits alone is not inductive, because `apply` stamps what it adopts with its own time, later than newer
edits elsewhere. What matters is whether a row counts as changed: one whose content is not that
of its base, or of the merge that is about to become the base (`Reference`), carries the
stamp of its own edit, and all newer edits have later ones (`Dated`); no row is older than the reference;
and without a base this holds of the rows in the change log (`RowDated`). Hence what `mergeEntity`
prefers for its time is the newer edit (`MergedIsNewer`, `Advances`). That stamps
grow is `Traced`: each copy held after a step was held before it, or is of this step's edit
and time. `Present` keeps a seeded entity in the package, so that a device installed later
takes the package's copy and not its own, freshly stamped one. Three hypotheses: the settings stay as
they are (`OneRemote`; a force push publishes what the device has, and `MaxSettings = 2` shows an
older edit return), each entity is its own group (what a service owns takes the service's time, section 7), and
no run that has written rows ends or starts over before `PutBaseline` (`LeavesBaseBehind`, the refused write of
section 4). Users' saves during runs, lapsed leases and other stops are in.

The merge, the carry-through, the local document and `apply` enter through lemmas about what
they return (`MergedOwnersLive`, `CarriedIsRemote`, `LocalIsRows`, `ApplyEffect` and others).

**Request execution** (`RequestExecution_proofs`). `ExecutionInvariant` proves
`Spec => []ExecutionInv`. `Counted` ties the counters to the trail of calls and says that
whoever is next has attempts left; `RepairedOnce` that a repair under way is the first of its
target; `Scheduled` that a next target is new or may be retried, and is never excluded;
`StaysWithLast` that except under failover_first only the target called last may be
retried; `OthersFirst` that a retry waits for the other candidates and the schedule ends only
when nothing is left; `Answered` what has been written by when. `StaysWithLast` is why
the fallback is dropped at a call under failover_only: without it a rejected later
candidate would lead back to a target left before. `RecoverEffect` states once what
`recover` returns, and uses that the first of a non-empty set of candidates is one of them
(`EarliestIn`, from the well-foundedness of the naturals). From the invariant:
`BudgetsHold`, `TargetsAreNotReturnedTo`, `GivenUpWhenExhausted`, `RepliesAreCurrent`, and the
action properties `SendsAreAllowed` and `BackupsAreTriedFirst`, for which only `Send` extends the
trail (`OnlySendExtendsTrail`). Assumption: `ExecutionAssumption` (a positive attempt limit;
whoever shares the account of a Claude subscription is one).

**Subscription tokens** (`SubscriptionTokens_proofs`). `TokensIInv` is stated per service, `Local(s)`, and
a step of one service leaves the others as they are (`Elsewhere`, `Together`), so that each
action is examined for its own service only. `Counted` says that numbers of logins and refreshes
in use were handed out, and `Operations` that a login under way is that of the session that is
completing. The rest, `Apart(s)`, is claimed while the service's attempts have not met
(`crossed`, section 4), and is where the argument lies. `Attempted` orders attempts and
sessions by their numbers: what an operation finds of an earlier one is older. `Accepted` says
that a login that was let through has the attempt of its own session until it is connected, so
that only a sign-out, which waits for it, can supersede it. Hence `Alone`: who stores or removes a
credential has the source switched off, and either still waits for the refresh it found or none
is left. `SignedOut` carries that to those who could start a refresh later, and `Usable` follows
the switched-off source through a start until its rollback or its login. `LeftBehind` says of a
credential whose removal failed that the account is not connected until a login replaces it. From it `OneWriterAtATime`
(`TokensInv`) and `AccountsMatchTheStore` (`StatusMatchesStore`). For `AccountsAreNotShared` the reservation
of an account is the service's own from `ReserveAccount` until the login is over, is the only one of its
account (`Reserved`), and keeps other owners off (`KeptFree`). Assumption: `TokensAssumption`
(there is a service; no account is called like none).

**Core parts** (`Core_proofs`, `PrivacyWorker_proofs`). Each part keeps its invariant under its own
steps and while it rests, so `CoreIInv`, their conjunction, holds in `CoreSpec`.

* *Raw parts.* `RawInv` = types, `KeysInv` (the process's key differs from the database's only while
  the password changes), `StartInv`, `SeenInv` (what is about to be written over a part was under the
  audit key) and `PartInv` per part: a raw part under the audit key has something that moves it
  (`Moves`: its settling, a pass to come, or one under way that has not come to it, holds it as it is
  or will ask for another), or the last pass failed on it or passed it over (`missed`), or it
  belongs to an ended request of a gateway without a password (`LeftOnlyWhenEnded`). So every
  part that is forgotten is one a pass has given up: no capture, settling, key change or stop
  loses one by itself. From it
  `SealedIsOpenable`, `RawPartsAreMoved` and the action property `WithheldStaysWithheld`.
* *Model files.* `RegistryIInv` = types, `StagingOK` (what is staged comes from the
  plan its directory is bound to, or is a damaged piece of an asset with a digest), `TransferOK` (a transfer has counted
  what is staged, asset after asset), `RecordsOK` (the record in memory and in the store, before and
  after a stop) and `FinalOK` (a published model is whole). `ReadyIsWhole` is about the last step of
  a download and rests on all of them. From it `ModelsAreTracked` and, without stops inside a
  deletion (`~StopsInDeletion`, section 4), `ReadyModelsAreWhole`.
* *Workers.* `WorkerIInv` = types, `ActorOK` (what a goroutine knows of its client at each place),
  `WorkerOK` and `KeptOK` (a live worker has an owner and an open client somebody who will close it),
  `Numbered` (the client of a policy is a new one), `HandoverOK`, and `CalmOK`: what a request may rely on
  that has seen no change and no failure. A refusal is impossible from there, which is
  `RefusalsHaveCauses`; `WorkersAreTracked` is the rest. A goroutine's step is reduced to what it
  does to its own client (`Work`, `Moved`). In `CoreSpec` the same is `InspectionsGoThrough`.

**Window** (`Desktop_proofs`, `RequestList_proofs`). Composed in the same way: `DesktopIInv` is the
conjunction of the parts' invariants, from which `PartsAreKept` proves `DesktopInv`.

* *Core status.* One request is current at the gate (`OneIsCurrent`), the gate is closed exactly
  while the restart that closed it is (`RestartHoldsGate`), and the current request's answer is no
  older than what is shown (`AnswersInOrder`). The last needs the first: a poll that has been
  superseded could carry an older answer. From it `StatusNeverGoesBack`, for as long as no answer came
  past the gate.
* *Service pages.* A read that was served knows what the window has been told of, because Core had
  carried it out before the window was told (`ToldIsStored`) and a read served earlier is superseded at
  the moment of telling; neither half is inductive alone. A load in flight is for the page shown
  (`WaitsForAnother`), which is why its answer cannot fill another page's editor, and there is
  one at most, before the editor shows (`OneLoad`), so none is answered over a draft. Each step is
  reduced to what each call in flight must be (`CallInv`), what the window knows (`Known`) and the guard
  in front of unsaved edits (`GuardInv`). From it `ReadsAreNewEnough` and `DraftsAreOfThePage`. Assumption:
  `PagesAssumption` (services are not called like pages).
* *Routing page.* `AutosaveIInv` = types, one autosave at a time, and `AutosaveOK`: what was sent is
  valid, its patch is in Core's answer, and outside of the patch it is the baseline. That a plan is valid (`PlanIsValid`) is about a
  recursive function that tries the edits in turn, again and again; it is proved by a minimal
  counterexample, from the well-foundedness of the naturals, for any keys and bounds. With the
  service pages' guard it gives `EditsStay`: a step after which a service's edits are gone is one
  of `EditsGo`, each with the call or the waiting page that is its reason; on the routing page it
  speaks of autosaves whose baseline was not replaced meanwhile (`rebased`, section 4).
* *Model rows.* `LibraryIInv`: a row and every reading under way is no newer than Core (`Older`), and, when
  the operator does not act while the list is read (`~Early`, section 4), an operation's answer and a
  poll's are no older than the rows they will replace (`OpOK`, `ToldOK`). From it `ModelsNeverGoBack`.
* *Request list.* `GapInv`: a page under way holds all that Core has down to where it ends, and all
  that was called since the page shown was read, for that fits a page (`Fits`, `Covers`); what is called
  later is newer than the page; and the list is whole unless it was emptied and starts again.
  That the end of a page is the least of its times uses that a non-empty set of naturals has a
  least element, and the counting uses the theorems on finite sets. `RowsInv` adds that every row
  on its way is Core's or an older one (`OlderRows`) and which of them belong to deleted
  conversations (`Leftovers`). From them `ListIsWhole`, `RowsAreCores` and, beside the other parts,
  `WindowListIsWhole`. Assumptions: `ListAssumption`, and the model's guard that at most `Limit`
  conversations get a call since a read that is shown or on its way.

**Only model-checked.** All liveness (`Convergence`, `Termination`, `EndedIsSettled`, `OperationsEnd`,
`WorkersSettle`, `WindowCatchesUp`), which is beyond the prover. Each invariant and action property of the
passing runs is stated by a theorem.

## 7 Limits of the models

Sync:

* The clock moves with every save. In the database the trigger stamps have
  milliseconds and the snapshot nanoseconds, so a save within the snapshot's millisecond can
  be cleared from the log unseen; this hazard is listed and not covered.
* Reading the local tables is one step, and so is `apply` unless the process stops in it.
* The modification time of every kind is its row's; for the credentials of built-in
  tools, access tokens and price configurations the code takes it from the change log.
* A credential counts as no older than its service (`sync_entities.go:218`), so an older edit of a
  credential, with a later one of its service, replaces a newer edit of that credential by another
  device. With owners and four edits TLC finds `PackageNeverReverts` violated by it; `sync_join` has
  entities that own themselves.
* Not modelled: the passphrase and the sealing of the package, package versions,
  documents a build refuses, unreadable credentials, provider order, token names,
  notices, status, and schedule. A device's scope is fixed.
* The lease is a holder that may lapse; `RemoteLease` has the detail.
* With a stop between `PutBaseline` and `RecordSyncResult` of a first run while the
  settings move to another store, `BaseBelongsToRemote` fails (engine.go:892 and
  219): the base is stored and nothing is pinned yet, so the next run finds no change
  of remote. A seeded row the merge dropped stays in the tables, so
  `UnpublishedChangeIsPending` leaves `Seeded` out.

Request execution:

* Connection tests, WebSocket turns, the loopback of the Claude CLI, request records
  and the content of bodies and headers are left out.
* All candidates share one back-off policy; the pause an account block asks for is an
  arbitrary wait.
* An answer is of one kind; in the code a refusal for extra usage might also be
  repairable.
* What happens inside a held stream start is a free choice of its outcome.

Tokens:

* The credential store's errors are one kind; account details, quotas and entitlements are
  left out. An operation of a kind is under way once per service at a time, which includes a
  cancellation or a look at the session.
* The store of the accounts (`PutAccount`, `mutateAccount`) never fails; that of the credentials does.
* What is claimed is claimed of services whose attempts have not met (`crossed`, section 4).

Sealing:

* The ciphers and the deduplication of payloads are left out; a part has one payload.
  `EndedIsSettled` takes the requests to end.

Models:

* Stops inside the removal of a ready model are left out by `StopsInDeletion = FALSE`
  (section 4). Local imports, mirrors, the probe of the worker, licences and disk
  space are not modelled, nor are a failure after the rename of a publication (`registry.go:1137`)
  and progress that could not be stored (1356).
* `PrivacyWorker`: what a worker finds, the sizes and budgets of batches and the evictions of the
  cache are left out; a request that exceeds its budget is one that is given up. A model is
  deleted and not installed again. The regular expressions of a fallback always answer. The
  shutdown of the hand-over with Core is left out.

Window:

* `CoreStatus`: `beside` is set by an answer of the settings page, and ordering is claimed until
  then.
* `ModelLibrary`: with `Early = FALSE` the operator does not act while the page reads its list
  (section 4 says what happens otherwise). `CaughtUp` leaves out a page whose reading failed, models
  that a lost answer has changed (`unheard`), a page that polls one of them which is gone, and a page
  whose polls an operation has ended for good: one that leaves the set of downloads as it was, such as removing a
  stopped model while another downloads, makes the poll under way count no more and starts no
  other (`SafetyPolicy.tsx:2689`). The last happens in `desktop` with its two models. Saves of the
  policy on the same page are not modelled; one that overlaps a load can swallow its error
  (`SafetyPolicy.tsx:1671`).
* `RoutingAutosave`: a redirect field that is disabled while it is typed in, after which no blur
  may follow, counts as one the user does not leave (`typing`).
* `ServicePages`: the effect that loads the editor (`ServiceManager.tsx:1341`) runs again when its page
  or `requestedEditorTab` changes. The tab is set only by the import of a provider's link, which
  navigates to a service that did not exist; it is one step with that navigation. The
  translation function in the list of dependencies is a constant of its module.
* `RequestList`: at most a page of conversations get a call since a read that is shown or on its way
  (`Reads`), and none that has just been chosen for deletion (section 4). `stray` names
  the rows a late page may have brought back. A request of the page that has no effect until Core
  takes it up is one step with it; the order of rows, the deletion of one call, filters and details
  are left out. A hidden window is a poll that takes long.
* Forms, fields, messages and layout are left out.

### Not modelled

Parts left out for good: the workers and the conversation library (numerical and text
processing), the control API (no state), migrations (straight-line), the key store and
updates (calls of the operating system), the parsing of held streams, the planner (pure
choices whose outcome is an input here), and the presentation of the window, which is most
of its lines. `PROJECT.json` gives the reason for each under `components`, and names those that
only wait for their turn in the plan.

## 8 Plan

Done: the lock, the merge and the engine of the sync, request execution, subscription tokens
with their logins, raw sealing, model installation, the privacy workers, and the five parts of the window that
race with Core. Next, in this order:

1. `ResponseAffinity`: bindings made by one request and read by another, while providers
   are edited; composed with the resolver's order of candidates.
2. `RequestRecords`: the bounded write queue and a record's life, composed with `RawSealing`.
3. `RestoreWriter`: the restored stream does not depend on the chunks; a pure
   function checked against its definition.
4. `ResponsesSocket`, `CoreLifecycle` with the supervisor.
5. In `SyncEngine`: the two resolutions of the stamps, the passphrase, the schedule, the
   provider order, unreadable credentials, and a count of overwrites per
   armed force push.
