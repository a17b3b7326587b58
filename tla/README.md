# GMZ Cloud Business Apps: a TLA+ model

This directory specifies the control plane of GMZ Cloud Business Apps, a Next.js
application (`platform/webapp`) that keeps tenants, provisioning jobs and
deployments in a record store, and runs OpenTofu and Ansible to provision one
virtual machine per tenant. Around that it guards its endpoints by tokens and
roles, keeps an audit log, and sends alerts by a configuration edited in a
browser. The modules are translated from the TypeScript
sources; TLC checks them on small instances, and TLAPS proves their safety
properties for every value of the constants.

Paths below are relative to the repository; `lib/` and `app/` stand for
`platform/webapp/lib/` and `platform/webapp/app/`.

## Inventory

One Node process serves HTTP requests. Handlers are asynchronous functions:
they interleave at every `await`, never between two. Records are in
`.data/store.json` (file mode) or in PostgreSQL through Prisma (database mode,
chosen by `DATABASE_URL`).

| Component | State | Operations | Hard behaviour | What makes it correct |
|---|---|---|---|---|
| Record store, file mode (`lib/data-store.ts`) | `store.json`, `store.json.tmp`, `store.lock`, the flag `fileStoreInitialized` | `acquireLock`, `releaseLock`, `withLock`, `ensureStore`, `readStore`, `writeStore`; list, get, create and update of tenants, jobs, deployments | concurrent read-modify-write, a lock with a deadline, an unlocked seed, I/O errors, crashes | calls are atomic, failed calls leave no trace, the lock outlives its holder only by a crash or a refused release |
| Record store, database mode (`lib/db/data-store-db.ts`, `lib/db/client.ts`) | rows in PostgreSQL | the same API over Prisma; a health check at startup | errors turned into `null`, details merged outside a transaction | the same promise as in file mode |
| Provisioning jobs (`app/api/tenants/route.ts`, `app/api/provision/tenant/route.ts`, `lib/provisioning-engine.ts`, `lib/provisioning.ts`) | job and tenant records, the engine's phases in memory, plan files | accept a request, prepare, guard, five phases, promote, roll back, settle | a worker that outlives its request, failure at every step, two jobs at once, crashes | commands run in order and only when allowed; what the records say is what happened; jobs settle |
| Job recovery (`lib/job-recovery.ts`) | none of its own | `recoverStuckJobs` | restart | stuck jobs are settled at startup; nothing calls it |
| OpenTofu environment (`infra/opentofu`) | the state of the `prod` environment | `init`, `plan`, `apply` | shared by all tenants | an Active tenant has a VM |
| Audit log (`lib/audit.ts`, `lib/db/audit-db.ts`) | `audit-events.jsonl` or rows | append, list, export | an append races the unlocked rewrite that enforces the cap | no event is lost but the oldest beyond the cap; a failed append logs nothing; no append ends the request that made it |
| Notification configuration (`lib/notification-config.ts`) | a JSON file or a row | read, update | unlocked read-modify-write, file written in place, a failing read answered as the default, secrets sealed, unsealed and masked on the way | an update alone changes exactly what it names; the mask never becomes a secret |
| Deployments (`app/api/deployments/route.ts`) | deployment and job records | validate, create, execute, update, audit | several writes per request, each may fail | deployment, job and audit event agree at the end; the newest Healthy record names what runs |
| Rate limiter (`lib/rate-limiter.ts`, `lib/rate-limit-middleware.ts`) | time stamps by endpoint and client, in memory | check, key of a client | boundaries of a sliding window, rounding of Retry-After | at most the limit in any window; Retry-After is honest |
| Authentication and authorization (`lib/auth-core.ts`, `lib/auth-context.ts`, `lib/jwt-oidc.ts`, `lib/rbac-policy.ts`) | trusted tokens in the environment, which expire as time passes | mode resolution, identification, role check, expiry reports | combinations of settings, expiry between two steps, a token listed twice | exactly who is entitled gets in; nobody runs out of a token unannounced |
| Alert routing and dispatch (`lib/alert-dispatch.ts`, `lib/auth-alerts.ts`) | none over time | route, send to each channel in turn | an exception of one channel ends the loop | what is sent is routed by the configuration, and the answer says what happened |
| Tenant policy (`lib/tenant-policy.ts`) | none | checks of size, VLAN and address, admin override | boundary values, an override that nobody may ask for | a tenant's record has the address of its machine, or an admin's on record |
| Manual job and report endpoints (`app/api/jobs`, `app/api/reports`) | none of their own | one create; a listing by pages; a computation over a read | jobs are made between two pages | a client reading all pages misses none |
| Startup (`instrumentation.ts`, `lib/db/health-check.ts`) | none | health check of the data directory or database | a database without all tables | no request is served on a store that is not ready |
| Nightly tenant updates (`automation/ansible/playbooks/nightly-updates.yml`, `ops/scripts/tenant-*.sh`, a workflow) | snapshots of VMs | snapshot, update, health check, rollback | failure of each step | a failed update is rolled back to the night's snapshot |
| Web pages (`app/jobs/page.tsx`, `app/admin/security/page.tsx`) | lists and forms in the browser | open, edit, save, run, reload | a form older than the configuration, answers out of order | a save changes what the user changed; a job asked for is shown |
| Status and artifact endpoints, gate evidence and release scripts, install wizard, app catalog | files, the operating system | reads, collection, interactive setup, validation | little | not state over time that is shared |

How they interact: handlers call the store and append to the audit log; the
provisioning handler creates a job record, answers 202 and starts a worker in
the same process with `setImmediate`; the worker calls the store for every
checkpoint and runs `tofu` and `ansible-playbook` as child processes; clients
poll the job record. Nothing but the record store and the OpenTofu state is
shared between two workers. Every handler asks the guard first, which reads the
tokens in the environment and the clock. Updates of the notification
configuration and dispatches of alerts meet in one file or row, which no lock
protects; the pages hold copies of what they were last sent.

## Modules

| Module | What it is |
|---|---|
| `AtomicStore` | abstract: every store call takes effect at one instant, or not at all |
| `FileStore` | the record store in file mode, one step per await; implements `AtomicStore` |
| `MCFileStore` | `FileStore` for TLC |
| `FileStoreProofs` | theorems about `FileStore` |
| `JobLifecycle` | abstract: the stages of a job, which only move forward, and what its record reads at each |
| `Provisioning` | the handlers, the worker, the engine, store errors and crashes; implements `JobLifecycle` |
| `MCProvisioning` | `Provisioning` for TLC |
| `ProvisioningProofs` | theorems about `Provisioning` |
| `RateLimiter` | the sliding-window limiter and the client keys, over a moving clock |
| `MCRateLimiter` | `RateLimiter` for TLC |
| `RateLimiterProofs` | theorems about `RateLimiter` |
| `AuditLog` | concurrent appends and cap rewrites of the audit log, one step per await |
| `MCAuditLog` | `AuditLog` for TLC |
| `AuditLogProofs` | theorems about `AuditLog` |
| `NotificationSettings` | the notification configuration as data: sanitizing, sealing, masking, merging |
| `AlertRouting` | which alerts there are and where a configuration sends them |
| `Alerts` | the configuration's file or row, the requests that read, update and dispatch by it, and the pages that edit it |
| `MCAlerts` | `Alerts` for TLC |
| `AlertsProofs` | theorems about `Alerts` |
| `SavingProofs` | theorems about `Alerts`: what a save that is alone stores, field by field |
| `Access` | modes, tokens, claims, roles and the expiry summaries, as data |
| `TenantPolicy` | the rules for a new tenant, as data |
| `Records` | the endpoints that make and list records behind the guard, and the jobs page; composes `Access` and `TenantPolicy` |
| `MCRecords` | `Records` for TLC |
| `RecordsProofs` | theorems about `Records` |
| `ListingProofs` | theorems about `Records`: listings read page by page |

`Provisioning` uses the store as `AtomicStore` describes it: each store call is
one step that happens, fails without a trace, or happens and is answered by an error
(the lock file's handle does not close, or a database answer is lost after the commit).
That is what `FileStore` is shown to provide, so the two compose without being explored together.
`Records` uses the store in the same way, and the audit log as `AuditLog` describes it: an
append never throws, and one that fails loses its event and nothing else. The job of
`POST /api/provision/tenant` is only made in `Records`, for the page that asks
for it; what its worker does is in `Provisioning`.

Some definitions are marked as faulty variants. No specification uses them;
each is a plausible mistake in the code and shows that a property would notice
it.

### FileStore

A client is one call of the store's API inside the process. `pc[c]` is the await
it is at:

| Step | Code in `lib/data-store.ts` |
|---|---|
| `Acquire`, `Busy`, `Retry`, `GiveUp` | `acquireLock`, 33-51: `open(..., 'wx')`, `EEXIST`, 20 ms sleep, deadline of 2 s |
| `EnsureStore`, `Probe`, `SeedOpen`, `SeedWrite` | `ensureStore`, 120-140 |
| `ReadStore`, `ReadTorn` | `readStore`: read the file, `JSON.parse` |
| `NotFound`, `WriteTmp`, `Rename` | the body of a mutation and `writeStore`, 149-153 |
| `CloseLock`, `UnlinkLock` | `releaseLock`, 46-52, in the `finally` of `withLock`, 158-165 |
| `CloseError`, `UnlinkError` | `close` rejects, so the unlink is skipped and the caller gets the error; `unlink` rejects, which is swallowed (51) |
| `IOError` | any call of the body rejecting |
| `Crash` | the process dies; files stay, memory goes |

Records are abstracted to marks: a create adds the mark of its call, an update
adds its mark when the record it targets is there. That is enough to tell a
lost, a repeated and a half-done mutation apart. A file is missing, torn (it was
truncated by `writeFile` and does not parse) or whole. `seedFds` remembers whose
open descriptor still refers to the current `store.json`: bytes written after a
rename go to the file that was replaced.

Assumed: one Node process per data directory; the `.data` directory exists
(startup creates it); reading a file is atomic with respect to the steps
here. `MaxAttempts`
stands for the number of looks at the lock within the deadline, 100 in the code;
`GiveUp` is possible at each of them, because timers may be late.

A refused release leaves `store.lock` with no crash and no holder, and every later mutation
times out. `leftLock` is the history of it: `NoLeakedLock` says that this and a crash are the only ways
to leave the lock, and that after a refused release no mutation is ever in the critical section. A
caller whose release threw gets an error although its change may be stored; `AtomicStore` counts such a
call as one whose answer is lost, and `FailedLeavesNoTrace` says that no repetition of it gets past
the lock it left.

### Provisioning

A job is one record, made by one request. `pc[j]` is the await its worker is at.

| Step | Code |
|---|---|
| `CreateTenant` | `POST /api/tenants`, `createTenant`: the tenant and a Queued job in one write |
| `Accept` | `POST /api/provision/tenant` up to the 202 answer |
| `Prepare`, `Record`, `Refuse`, `MarkRunning` | `runProvisioningInBackground` before the engine: plan files, plan in the record, the two execution guards, `Running` |
| `Begin`, `PlanPhase`, `SkipPhase`, `CheckPhase`, `RunCommand`, `Checkpoint`, `Promote` | `runProvisioningEngine` |
| `Rollback`, `Final` | the rollback branch and the last `updateJob` |
| `Catch` | the `catch` block |
| `StoreFault` | a store call that throws and leaves the record as it was, at any of the steps that make one |
| `LateFault` | a store call that makes its change and throws then |
| `LateAccept` | the same for the `createJob` of a request: it is answered 500, and its job (`pc` is "unasked") gets no worker |
| `Crash` | the process dies |

`results[j]` is what the engine has in memory and `trace[j]` what the record
says; the two differ between a phase and its checkpoint, after a fault, and for
good after a crash. `ran[j]` is a history of the commands of job j. `vm` is the tenant
whose VM is in the one OpenTofu state: `lib/provisioning.ts` runs every plan in
`infra/opentofu/environments/prod`, which holds one module `tenant_vm`.

`network_config` runs no command. It checks the VLAN's range and the shape of an
address built from it, which a VLAN above 999 cannot pass; `POST /api/tenants`
accepts 2 to 4094. `NetworkOk` is that check, and MC configurations hold a
tenant on each side of it.

Settings are what the process reads from its environment: whether execution is
enabled and complete, whether a rollback hook is set and allowlisted, and where
records live. In database mode `dbUpdateTenant` swallows its errors, so a fault at
`Promote` goes on to `Final`; in file mode it goes to `Catch`.

The stage of a job (`StageOf`) is what `JobLifecycle` promises to move forward: accepted, running, settled.
The status in the record does more: a dry run reads `DryRun` when it is accepted, `Running` from the first
write of the engine (`lib/provisioning-engine.ts` 594) and `DryRun` again when it is settled. The
comment at `app/api/provision/tenant/route.ts` 133 says that a dry run "stays as DryRun"; it does not, and
a client that takes `DryRun` for the end of a job takes an accepted one for settled. `LifecycleSpec`
therefore does not claim a monotone status.

Assumed: a command is one step with either result, if it ends; the audit log never
throws (`appendAuditEvent` catches everything), so its calls are left out. Reading the job
record for the engine is merged into `Begin`. Tenants are never deleted, so
the branch for a missing tenant cannot be reached. Tenants not made by a
request of the model start as Provisioning; the seeded Active ones are left out, since
`Promote` would change nothing about them.

### RateLimiter

`checkRateLimit` has no `await`, so a call is one step: `Allow` or `Deny`. `Tick`
moves the clock. `store[e][k]` is the array of time stamps of client key `k` on
endpoint `e`; a stamp carries the request it was made for and its number among
those of the same millisecond, so that an array becomes a set. A call that is
refused does not store the pruned array, and neither does the model.

| Definition | Code |
|---|---|
| `ClientKey`, `Bearer`, `Ip`, `Anonymous` | `getClientKey`, `lib/rate-limiter.ts` 85-100 |
| `Active`, `IsOldest`, `RetryAfter`, `Stamp`, `Allow` | `checkRateLimit`, 41-69 |
| `Deny`, `Tell` | the same, and the answer of `applyRateLimit`, `lib/rate-limit-middleware.ts` 28-80 |

`served` and `promise` are histories: what passed in the window that ends now, and every
time a refused caller was told to come back since the last request of its key that was let through. Until
one is let through nothing in the array changes, so an answer is held to both sides: from its time on
there is a free slot (`RetryHonoured`), and a second or more before it there is none (`RetryNeeded`).
A Retry-After computed from any stamp but the oldest breaks the second.

Assumed: the clock does not step back (`Date.now()` may); SHA-256 prefixes of
tokens do not collide; a forwarded address either passes the pattern or counts as
absent. A restart clears the limits, which live in memory.

### AuditLog

A call of `appendAuditEvent` is named by its event. `pc[e]` is the await it is at.

| Step | Code in `lib/audit.ts` |
|---|---|
| `Start` | `buildAuditEvent`, 283-289, and the call |
| `AppendEvent` | `appendFile` (191) or, with a database, `dbAppendAuditEvent` |
| `AppendFault` | the same, failing: nothing is written, or the beginning of a line |
| `LateFault` | the event is stored and an error follows: the file does not close, or the connection is lost after the commit (`lib/db/audit-db.ts` 56) |
| `ReadCap` | `readFile` and the comparison in `enforceAuditCap`, 36-39 |
| `Truncate`, `Rewrite` | `writeFile` (40): opening empties the file, then it is written from its beginning |
| `CapFault` | the `catch` of `enforceAuditCap`, 41-43 |
| `Crash` | the process dies |

The file is a sequence of lines, each an event or `Torn`, a line that does not
parse. `ragged` says that the last line has no line feed, so that the next
append is swallowed by it. `Overwrite` is what a file can hold when lines are
written over the beginning of others: as line lengths are abstracted away, any number of the old
lines, and part of one, may stick out. An append is one write and happens at the
end of the file (`O_APPEND`). Every error ends in an answer `{ ok: false }`, never in an exception, and no
caller looks at that answer.

`crossed` is the history of the race between an append and another call's rewrite, from its look at
the cap to its write. `NewestKept` speaks of all schedules without it, `LossExplained` of all
schedules: above the cap an acknowledged event is missing because as many as the cap came after it, because
the file is being rewritten just now, or because of that race, a fault or a crash, and for no other reason.

Left out: the validation of the envelope, which answers without any effect; daily
rotation of the file; redaction, listing and export, which change nothing.

### Alerts

A call is one request; `pc[c]` is the await it is at and `config[c]` the
configuration it works with. `stored` is the file or the row, one of a
configuration, `Missing`, `Empty` (opened for writing) and `Torn` (does not
parse). `page[p]` is the form of an admin page.

| Step | Code |
|---|---|
| `Load`, `Save`, `Act` | `load`, `saveAlertConfig`, `runAlertPreview` and `runAlertAction` of `app/admin/security/page.tsx` |
| `Send`, `Refuse` | other clients of the endpoints under `app/api/alerts` and `app/api/auth/alerts/dispatch`; their 400s |
| `Read` | `readNotificationConfig`, with the merge of `updateNotificationConfig` for a save |
| `Open`, `Write`, `Upsert`, `WriteFault` | `writeNotificationConfig`, `dbWriteNotificationConfig` |
| `Skip`, `Deliver`, `Throw` | one turn of the loop of `dispatchAlertsToConfiguredChannels` |
| `Audit` | the audit event, stored or not, and the answer |
| `Answer` | the answer arrives, at a page if one asked |
| `Crash` | the process dies and starts again, perhaps with another `WEBAPP_NOTIFICATION_ENCRYPTION_KEY` |

A secret is a text under layers of encryption, so that sealing twice, a lost key
and another key differ. A patch is a function on the fields it names; a field
of the wrong type is `Junk`. `track`, `view`, `version` and `overlap` are
histories: what a call found, whether another save met it, and which version a form shows.
A form shows a version only if that is what its call read or stored: a save whose file was
torn by another one, or that failed, shows none.

Assumed: clients send secrets as they were typed, and no secret is the text of
the mask (`EditsAssumption`, `PatchesAssumption`, `SavedAssumption`); an empty secret
is never sealed (`encryptField` returns it as it is, so `SavedAssumption` has it of what is
stored at first); `Junk`, which stands for a value of a wrong type, is a value of no field
(`JunkAssumption`); host, sender and addresses have no blanks around them. A test names both channels, and a preview its alerts. SMTP
user and TLS flag are left out.

Secrets may be typed with blanks around them (`Padded`), which `toStringSafe` takes off (`FitSecret`). The mask is
compared before that (`lib/notification-config.ts` 361, 366), so the mask with a blank beside it is
taken for a new secret and stored as the mask's text. `MaskNeverStored` says that this is the only way: `typed`
is the history of the channels a client sent such a text for.

Seen in the model and kept, as the code does it: a configuration that cannot be
read is answered as the default one without an error (`lib/notification-config.ts`
300, `lib/db/notification-config-db.ts` 21), and a save that follows stores
that over the real one; a save or dispatch whose audit event is lost is answered
as if it were not; a page that never loaded can be saved. `AloneIsExact` and
`OnlyEditsChange` are therefore about saves that read what is stored.

### Records

`pc[c]` is the await of request `c`, `req[c]` what it asks for, `work[c]` what it holds in memory.
`deployment`, `job` and `tenant` map a request to the record it made, `deployed` and
`jobs` are the lists, newest first. `running[t]` is the version that runs for a tenant
in an environment; `setting` the process environment; `now` the day.

| Step | Code |
|---|---|
| `Begin` | a request is sent, by a client or by `app/jobs/page.tsx` |
| `Authorize`, `Deny` | `requireProtectedOperation` in `lib/auth-context.ts`, with `Access` for modes, tokens and roles |
| `Invalid`, `Reject` | answers 400 and 422, without and with an event |
| `Plan`, `CreateDeployment`, `CreateTrackingJob`, `AuditStart`, `Exec`, `UpdateJob`, `UpdateDeployment`, `AuditOutcome` | `POST /api/deployments`, in this order |
| `CreateJob` | `POST /api/jobs`, and the job of `POST /api/provision/tenant` |
| `RequestTenant`, `AuditOverride`, `CreateTenant`, `RefuseTenant`, `AuditSuccess`, `AuditFailure` | `POST /api/tenants` |
| `List`, `Listed`, `Show` | `GET /api/jobs`, one page at a time, and the page that shows it |
| `Report` | `GET /api/auth/health`, `POST /api/auth/rotation/plan` and `simulate` |
| `Fail` | an access to the store fails before it changes anything; `Proceed` has the case that it fails after the change |
| `Log` | an `appendAuditEvent`: the event is stored, or lost, and the handler goes on |
| `Tick` | a day passes |
| `Crash` | the process dies, perhaps in the middle of a playbook, and starts again if `runStartupHealthCheck` lets it |

`Filtered`, the `filter` over the list, is given by counting: its nth job is the one up to which n
match. It is what `SelectSeq` returns, without the recursion, so that theorems can speak of it.

`events[c]` is what call c has in the audit log and `lost[c]` what it has appended in vain: no handler looks at the
answer of `appendAuditEvent` (`app/api/tenants/route.ts` 56, 145, 168, 212,
`app/api/deployments/route.ts` 134, 197), which never throws.

Assumed: bodies parse as JSON, and fields that do not matter here are one flag,
`complete`; an access is one step; a restart keeps the kind of store. The list of jobs is in the
order of the steps that made them; in database mode the code sorts by `createdAt`
(`lib/db/data-store-db.ts` 142), the moment of the insertion in the database, so two commits may be listed in
the order of their stamps instead. Whether a JWT verifies is part of the credential
(`jose` checks it), and a failing fetch of its keys makes it nobody's. The second
denial event of the rotation endpoints is merged with the first. What a
dead call held stays in `work`, where nothing reads it any more. The status `Warning` of a
deployment is set by none of these paths.

Seen in the model and kept, as the code does it:

- two overlapping deployments of one target leave a newest record that does not
  tell what runs (`contended` in `NewestRuns`);
- in database mode `dbCreateJob` keeps no tenant name (`lib/db/data-store-db.ts` 157), so a
  listing of one tenant's jobs does not show jobs made that way;
- the plan of a tenant ignores an address an admin chose (`lib/provisioning.ts`
  160), hence the second case of `TenantAddressed`;
- when `createTenant` makes its records and throws then, the answer is 500 and the audit log is told a
  failure although the tenant exists (`app/api/tenants/route.ts` 231), hence the
  faults in `OutcomeTold`;
- an event that cannot be stored stops nothing: a tenant with an admin's own address is created although
  the override's event was lost, against the comment that such an override "must be explicitly
  audit-logged" (`app/api/tenants/route.ts` 166). `TenantAddressed` says what does hold: the log was told so
  before, and has the event unless its append failed;
- of a token listed twice the first entry decides, so an expired one hides a valid one
  (`lib/auth-core.ts` 219), hence `Distinct` in `AccessAsConfigured`;
- an older answer to the jobs page overwrites a newer list (`app/jobs/page.tsx` 48),
  hence `crossed` in `OwnJobShown`.

## Runs

| Run | Expected | What it shows |
|---|---|---|
| `file_store` | pass | two concurrent calls of every kind, on a store file that exists, is missing, or cannot be read at first, with errors anywhere and one crash: exclusion, no lock left but by a crash or a refused release, no lost mutation, no trace of failed calls, refinement of `AtomicStore`, every call is answered |
| `file_store_seed` | violation | on first use the seed, written without the lock, overwrites an acknowledged mutation |
| `file_store_stale` | violation | a crash in the critical section locks the store for good |
| `provisioning` | pass | a request to execute beside one of any kind in three configurations with two store faults, before or after the change, and a crash: guarded commands, truthful records, justified rollback, refinement of `JobLifecycle`, jobs settle unless a command never ends |
| `provisioning_stuck` | violation | a crash leaves a job unsettled, with no command running: recovery is never called |
| `provisioning_rollback` | violation | a store error after `apply` fails the job without the rollback hook |
| `provisioning_vm` | violation | provisioning a second tenant replaces the VM of the first, which stays Active |
| `rate_limiter` | pass | requests identified by a token, an address or neither over a moving clock: the limit in any span of a window's length, by token and by client key; Retry-After neither too short nor too long |
| `audit_log` | pass | four concurrent appends in both modes with a failing access and a crash: failed appends log nothing, nothing is lost below the cap but by a fault, calls that cross no rewrite leave the newest events in order, every loss above the cap has one of the named causes |
| `alerts` | pass | a page and other clients load, save, preview, test and dispatch, two at a time, in both modes, with and without a key, a fault, a crash and a change of key: a lone save changes what it names and nothing else, the mask is stored only when typed with a blank, a torn file has a cause, what is sent is routed, answers are honest |
| `records` | pass | deployments, jobs, tenants, listings and reports behind the guard, three at a time, in six environments over three days with a fault and a crash: who gets in, what records and audit log say of an outcome, what runs, what pages and lists show, addresses, warnings of expiry |
| `audit_trim` | violation | at the cap the rewrite drops an event that was appended and acknowledged after the file was read |

The six violations are disagreements between the code and what its comments or
documents say; `PROJECT.json` quotes the lines under "findings".
`AcknowledgedStays` and `NoLostMutation` are the two sides of one fact: the
store keeps its promise from the moment `store.json` is there and readable, and
not before. The same holds for `NoStuckJobs` against `JobsSettle` and
`OrphanExplained`, which name exactly what can leave a job behind, and for
`OnlyOldestTrimmed` against `NewestKept`, `BelowCapKept` and `LossExplained`: the log keeps its
promise when no append crosses a rewrite, or as long as it is not full.

Two disagreements have no run of their own, since a property of a passing run states what holds instead: the comments at
`app/api/provision/tenant/route.ts` 133 (`LifecycleSpec`) and `app/api/tenants/route.ts` 166 (`TenantAddressed`).

### Bounds

`FileStore.cfg`: two calls, of each kind and with each target, meet every race of
a pair; two looks at the lock let a call wait and get it, wait and give up,
and give up while the other still holds it; one crash at every state; the three
ways to find the file. Of what happens with more calls at once, the safety part is proved for
any number. 51,336 distinct states.

`Provisioning.cfg`: two jobs are the least with a race between workers, and one of them at least
executes; two dry runs or two environments meet in the theorems only. Two
tenants, with a VLAN on each side of 999, let jobs be about the same tenant or
not; three settings meet each value of each switch; two faults are the least that leave a
job without a crash (one at a step, one in the catch block); one
crash. Jobs are taken up to swapping them (`MCWorkloads`), a symmetry of the
specification made explicit because liveness is checked too. 868,832 distinct states.

`RateLimiter.cfg`: a limit of 2, a window of 3 and a second of 2 ticks, so that
windows and seconds do not coincide and rounding shows; the clock runs to 5,
past one whole window and into the next; one endpoint, as endpoints share nothing;
requests identified by a token, by a token behind a proxy, by an address only, and by
neither. 1,110,351 distinct states. Deadlock is checked: when the clock has
stopped, requests are still answered.

`AuditLog.cfg`: with three events and a cap of two a rewrite happens and overlaps an append, and with
four a second rewrite follows or meets the first; while only two have begun the log is below the
cap. One fault and one crash, at any state. 4,610,856 distinct states.

`Alerts.cfg`: two calls meet every race of a read-modify-write and of a dispatch with
an update; one page, whose form can be older than what is stored, and
requests from elsewhere; two keys, so that a lost and a changed one occur. The stored
configuration sets every field; the edits and patches include one entry of a nested field, values
that do not fit, a port on each side of its limit, a masked secret, and secrets typed with blanks: a new one, an empty one and the mask.
Calls, pages and keys are symmetric; there is no liveness property. 579,521 distinct states.

`Records.cfg`: eight workloads of three requests, each a group that can meet
(two deployments of one target, one tenant name twice, the page with its two forms, a
listing while jobs are made, three reports), together covering every kind of request,
valid and not. Six environments cover the modes (`vault` identifies callers as `dev-header` does), both stores, a store that
is not ready, missing tooling, tokens that expire on different days, entries
that do not parse and a token listed twice. Two jobs are there from the start and a page holds two, so
listings have up to two pages, the last one full or not; three days cover both sides of
an expiry and of a window of one day. 1,681,866 distinct states.

`FileStore`, `Provisioning` and `AuditLog` may stop: when every call or job has come to its end nothing is left to do,
so deadlock is not checked; `EveryCallSettles` and `JobsSettle`
say that nothing stops early. `Alerts` and `Records` stop too, when every
request is over; a process that failed its health check serves none.

### Fairness

`FileStore`: weak fairness of the steps of a call that has begun. The event
loop resumes every resolved await, and timers fire. A lock that is held keeps
`Busy` and `Retry` enabled, but `attempts` is bounded, so a call gives up and
the weak form suffices. `Provisioning`: weak fairness of the steps of each
worker, except where it waits for a child process (`Waiting`): `execFile` has no time limit
(`lib/provisioning-engine.ts` 157, `lib/provisioning.ts` 434), so a `tofu`, an `ansible-playbook` or the
rollback hook need not end. `JobsSettle` excuses a job that waits for one for ever, and so does
`NoStuckJobs`, whose violation is therefore the crash's doing. None assumes that requests arrive, that a
disk or store fails or works, or that the process dies. `AuditLog`, `Alerts` and `Records` state
safety only and assume no fairness: their calls are finite chains of awaits
without a wait for another call.

## Theorems

All are proved for every number of clients, requests, pages, jobs, tenants, tokens, events, limits, faults and crashes,
from the named assumptions of the modules only (types and ranges of the
constants).

`FileStoreProofs` has the inductive invariant `IInv`, the conjunction of

- `TypeOK`;
- `PhaseInv`: what the position of a call says about its kind, attempts and
  outcome;
- `LockInv`: whoever is in the critical section has the lock file in place, is
  alone, and without a crash or a refused release a lock file has a holder; after a refused release it
  has none, and nobody can become one. Giving up happens
  outside of the section, which is why a timeout does not release another call's lock;
- `TmpInv`: at the rename the temp file is what the same call wrote, which needs
  `LockInv`;
- `TraceInv`: a mark anybody can see belongs to a call that ended well or was
  lost, or whose release threw, so a failed call has none;
- `ExistingInv`: with the file there from the start nobody seeds, and what a
  mutation has read is still in the file when it writes.

From it follow `Exclusion`, `LockNotLeaked`, `MutationsKept`,
`FailuresTraceless` and `Refinement` (`Spec => AtomicSpec`). The refinement fixes a
read at the parse, a mutation at the rename and a failure where it happens;
`UncoveredStutters` deals with stores not there at the start, which are mapped to
one nobody calls, and `CoveredSteps` has one case per action.

`ProvisioningProofs` has `IInv`, the conjunction of

- `TypeOK`;
- `ResultsInv`: the phase results in memory are planned ones for a dry run, and
  otherwise successes up to a failure and skipped ones after it;
- `CommandsInv`: the commands run so far are those of the phases reported and of
  the current one, in order, each successful but possibly the last; this is what ties `ran` to
  `results`, and gives `CommandsGuarded`;
- `PhaseInv`: what the position of a worker says about results and hooks;
- `RecordInv`: what a record says about the worker behind it and about the
  tenant;
- `EffectInv`: an Active tenant has a job that ran its whole plan, in file mode so has the tenant of a
  successful job, and an unsettled job without a worker has a crash or two faults behind it;

and for the refinement `TraceInv`: the trace in the record is the results in
memory, or all but the last of them between a phase and its checkpoint. The step lemmas have one case
per action; an action of one job leaves the conjunct of another unchanged
(`OthersKept` and the `Frame` lemmas). An access that fails after its change stores what the same access stores when it
works, and then goes where a fault leads (`LateStores`, `LateFaultStores`, `FaultLeads`), so its case rests on
the two others. The refinement has a lemma for each step of the lifecycle (`Accepting`, `Beginning`,
`Reporting`, `Completing`, `Aborting`) over `Stages`, which reads the stage off the record. The theorems are `Guarded`,
`ActiveTenants`, `SuccessfulJobs`, `JustifiedRollbacks`, `Orphans` and
`Refinement` (`Spec => LifecycleSpec`).

`RateLimiterProofs` has `IInv`, the conjunction of `TypeOK` (which bounds the
stamps of a client by the limit), finiteness of the stamp sets, and

- `ServedInv`: what passed in the window that ends now is still recorded, and active,
  under its client key; this turns the limit on active stamps into one on what
  was let through, in any window (`Limited`, `TokensLimited`);
- `PromiseInv`: each time a caller was told lies between the moment the oldest recorded stamp
  leaves the window and one second later, and the record is full. When it has come that stamp is
  no longer active, so there is room (`Honoured`); a second or more before, every stamp
  still is (`Needed`).

`AuditLogProofs` has `IInv`, the conjunction of `TypeOK` and

- `LoggedInv`: an event in the file, or in what some call is about to write back,
  belongs to a call past its append that did not fail, or failed late (`FailuresUnlogged`);
- `ApartInv`: as long as no append crosses a rewrite, what the file and the lines to be written back
  hold at each await, whatever else overlaps: their newest lines are the newest events (`KeptNewest`,
  `LossesExplained`, with the lemma `NewestAppend`);
- `DbInv`: in database mode the rows are the events appended;
- `CountInv` and `BelowInv`: the file has no more lines than calls past their append,
  so below the cap no call gets as far as a rewrite, and the events that are
  missing plus a ragged last line are no more than the faults
  (`KeptBelowCap`).

`AlertsProofs` first proves what the operators of `NotificationSettings` return:
`SanitizeType` (whatever the input, a configuration results), `SealFacts` and
`SecretsType` (sealing and unsealing keep the text), `MaskForm`. On these rest

- `Typed`, which holds of what is stored and of what calls, forms and patches
  contain (`Typing`);
- `Alone`: without an overlap at most one save is under way, and a file that does not read
  back is being written by it (`Readability`);
- `Dispatching`: for a dispatch at each await, its configuration is the one
  found, and messages and channel statuses agree with each other (`RoutedMessages`, `Honesty`);
- `Masking`: no secret that is stored or about to be has the mask's text on a channel nobody typed it
  for with a blank, and a form has it only as the mask of a secret, which `Update` takes for the
  current one; a patch has it with blanks only for channels in `typed` (`MaskKeptOut`).

`RecordsProofs` proves `Guarded` from facts about `Access` alone: `TrustedFacts` (the
first entry with the token), `ClaimedFacts` (the first claim that names a role),
`MayGrants` (the ranks agree with the policy as a table), put together in `GuardFacts`.
The others follow from `Inv`, the conjunction of typing and, for each call,

- where a call of its kind can be, given what it asks for;
- how far the records of a deployment, and of a tenant, are at each await, and
  what the audit log has been told by then, whether or not it could store it (`Outcomes`);
- that a tenant's address was checked, or overridden by an admin after the log was told (`Addresses`), and that a
  report counts the expiries it was about (`Warnings`, which compares cardinalities).

`NewestInForce` needs more: `Runs` adds that two deployments of a target both under way
make it contended, that in an uncontended target the one under way is the newest, and that
the newest runs once its command succeeded. Frame lemmas (`Untouched`, `FrameKeeps`,
`Keeps`) reduce an action to the call it is of; each action has one step lemma.

`SavingProofs` has the part of `Alerts` that needs every field of a configuration. `Made(f, v)` is
what sanitizing makes of a value v of the field f, and `Merge` what a patch makes of it; the
lemmas go through the shapes a field can have (a plain value, a secret, entries by reason or
severity, groups of recipients):

- `UpdateField`, `SanitizeField`, `SealField`, `UnsealField`, `MaskField`: each operator, field by field;
- `Returned`: sanitized, sealed, stored, read, sanitized again and unsealed with the same
  key, a configuration is what was sanitized;
- `AskedFor`: a configuration made of a merge is what the patch asked for;
- `ShownWithAnyKey`: what a page is shown does not depend on the key, which is why a form
  outlives a crash after which the key is another one. It needs that no secret is the mask and no empty
  one is sealed (`Masking`);
- `UpdateKeeps`: a form that agrees with what was found changes only the rest.

The inductive invariant is `Typed`, `Alone`, `Dispatching`, `Masking` and `Saves`. `Saves`
says of every call that as long as it is alone no other save is under way (`Solo`), what it
writes is the merge of its patch over what it found (`Merged`), it finds the file empty when it writes, and what was
stored reads back as that merge (`Exact`), and the patch of a fresh form agrees with what is stored until it
is read, and with what was read from then on (`Sent`); of every answer on its way that its form agrees with what is stored
if the call saw the version that is stored (`Seen`); and of every page the same (`Viewing`). From it follow
`ExactAlone` and `EditsOnly`. The case of a write is where they meet: no other save can be
at work when one that is alone writes, which is why the file it finds is empty, not torn, and why no other
save's `Exact` is disturbed.

The attempt to prove `OnlyEditsChange` showed a mistake in the model that two calls cannot
reach: the history took a save whose write was torn by an overlapping one for the author of the
version stored, so that a third save, from its form, looked fresh. TLC finds it
with three calls; `Write` now records what it really left.

`ListingProofs` proves `NothingMissed` and `OwnShown` from `ListInv`: the typing of `Records` with

- `Listing`: the list holds the jobs made, each at its place, the newest first (the theorem `Complete`);
- `Displayed`: if no answers crossed, the page shows every job it asked for and was answered that
  fewer than a page of others have followed (`Recent`; a call that failed after its job was made is not among them);
- for each call, that a job it made is in the list (`Making`); that a reader at page n
  has seen every job it set out to see except those that are further down than its first n pages
  (`Scanned`); and that an answer on its way to the page has the recent ones too (`Loaded`).

Jobs made in between are put in front, so they push the unseen ones down and never up over the
border of a page: a reader may see a job twice and misses none. That is the lemma about `UpTo`
the step of `List` and the one of a new job rest on (`CountUpTo`: the places of the
jobs that match are numbered without a gap).

Only model-checked: the liveness properties `EveryCallSettles` and `JobsSettle`,
which are beyond the prover. Every other property of
the passing runs, the refinements among them, is a theorem.

## Not modelled

- The database mode of the store and of the configuration, beyond what a caller
  sees: its queries run in PostgreSQL.
- The contents of plans, logs, audit events and reports; cryptography of
  tokens and secrets; the wording of alerts; rendering.
- The effect of the rollback hook, a command of the operator.
- Reads that change nothing and keep no state: lists of deployments and tenants, status,
  preflight and artifact endpoints, exports. The audit listing with a limit is
  one of them; that its two modes differ is noted among the hazards.
- `recoverStuckJobs`, `assertAuthModeSafe` and `runProvisionCommands`, which
  nothing calls.
- The report generator, a computation over one read with one file written.
- The nightly updates. As committed, a comment in the workflow file swallows the rest of
  several of its steps, and what it would do is undefined; the playbook and
  scripts are a sequence of tasks on one host over snapshots outside of this
  repository.
- Gate evidence, release scripts, install wizard and app catalog: sequential
  programs without shared state.

## Plan

Done: `AtomicStore`, `FileStore`, `JobLifecycle`, `Provisioning`,
`RateLimiter`, `AuditLog`; then the notification configuration with alert dispatch
(`NotificationSettings`, `AlertRouting`, `Alerts`) and the record endpoints with access
and tenant policy (`Access`, `TenantPolicy`, `Records`), with their runs and theorems; then the theorems that need every field or every place of a
listing (`SavingProofs`, `ListingProofs`).

What could follow, in this order:

1. The stuck-job recovery as it would behave if startup called it, against workers
   that are still running, and two writers of one job in database mode.
2. That every request of `Records` and `Alerts` is answered, under weak fairness.
3. The limited listing of the audit log in both modes.
4. The nightly playbook and its scripts, once the workflow says what it runs.

An abstract audit log that keeps the newest events can be
refined only without overlap (`NewestKept` is that statement), so none is planned.
