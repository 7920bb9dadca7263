# A formal model of EVARuntime

EVARuntime puts an OpenAI-compatible HTTP gateway in front of `llama-server`
sub-processes. One gateway either runs the servers itself (local mode) or asks
node agents on other hosts to run them (cluster mode). GPU memory is the scarce
resource: models are loaded on demand, evicted when idle, and queued for when
they do not fit.

This directory holds TLA+ modules of that system, TLC configurations that check
them on small instances, and TLAPS proofs that hold for every instance. Source
paths below are relative to the repository; `PROJECT.json` maps every
definition to the lines it models.

- [Inventory](#inventory)
- [What is modelled](#what-is-modelled)
- [What is checked](#what-is-checked)
- [What is proved](#what-is-proved)
- [Where code and documentation disagree](#where-code-and-documentation-disagree)
- [What is left out, and why](#what-is-left-out-and-why)
- [Plan](#plan)

## Inventory

| Component | State | Operations | What makes it correct |
|---|---|---|---|
| **Server life cycle** `gateway/server_manager.py` | `_state`, `_process`, `_load_task`, `_ready_event`, `_load_error`, `_active_requests`, `_last_request_time` | `ensure_loaded`, `unload`, `pin`/`unpin`, `_load_and_signal`, `_idle_monitor`, `_mark_crashed` | no READY without a process, no process behind UNLOADED, no ghost probe, every load and unload ends and wakes its waiters |
| **Local pool** `gateway/model_manager.py` | `_managers`, `_allocated_ports`, `_port_pool`, `_capacity_cond`, `_capacity_waiters`, `_model_locks`, `_draining`, `_bootstrap_blocked` | `ensure_model_loaded`, `_ensure_capacity`, `_evict_lru_idle`, `_release_manager`, `unload_model`, `unload_all_models`, `shutdown`, bootstrap gate | no port lost or shared, VRAM budget respected, no silent kill of a generation, no lost wake-up, no leaked ticket, everybody is answered |
| **Proxy** `gateway/proxy.py` | pins of a request, guard timer, upstream stream, usage row | `proxy_request`, `_stream_proxy`, `_non_stream_proxy` | pins balanced on every exit, stream closed once, exactly one usage row |
| **Admin routes** `gateway/admin.py` | `_BootstrapLiveState` (phase, digest, lease watchdog), registry | load, unload, unload-all, PATCH, DELETE, bootstrap-sync (activate, confirm, rollback) | a refused unload changes nothing, a disabled model serves nobody, an activation is confirmed or rolled back |
| **Rate limiter** `gateway/rate_limiter.py` | window of timestamps per user | `is_allowed`, `cleanup_stale`, monthly quota | at most `rpm_limit` in any 60 s; the quota is soft |
| **Background tasks** `gateway/background.py` | set of tasks | `fire_and_forget`, `drain_pending` | usage rows survive a shutdown, within a deadline |
| **Cluster manager** `gateway/cluster/cluster_manager.py` | node states, inventories, pending loads and operations, unloads in flight | `ensure_model_loaded`, `_finish_pending_load`, `unload_model`, `unload_all_models`, reconciliation | no double load, no forgotten server, no over-commitment, an unload is reported done only when it is |
| **Scheduler** `gateway/cluster/scheduler.py` | none (pure) | placement of a model on a node | chosen node is eligible and best |
| **Node client, protocol** `gateway/cluster/node_client.py`, `node_protocol.py` | HTTP client | load, poll, unload, status | an uncertain answer is never taken for a certain one |
| **Node agent** `node_agent/main.py` | managers, ports, load operations and their tasks | `start_load`, `_run_load`, `operation_status`, `unload` | idempotent per operation, one load per model, release by identity |
| **Model registry** `gateway/model_registry.py` | models in memory, `models.yaml` | load, add, update, remove, publish snapshot | memory and disk agree, hand-made keys survive |
| **Artefact integrity** `gateway/integrity.py` | verdict cache | verify | nothing unverified is started |
| **Bootstrap** `gateway/bootstrap/` | plan, journal of an execution, registry file, downloaded files, runtimes | inventory, plan, apply, download, install, calibrate, enable | each step resumable; the registry is never half written |
| **Database** `gateway/database.py` | SQLite | users, keys, usage, migrations | SQLite transactions |
| **Application, settings, auth, schemas** `main.py`, `config.py`, `auth.py`, `schemas.py` … | settings, app | start-up, shutdown, middleware | start and stop order |
| **Readiness, metrics, GPU inventory** | none of its own | reports | reports the truth |
| **Operator tools, deployment scripts, dashboard** | the host | run by hand | — |

### How the parts interact

```
client ──> proxy ──ensure_model_loaded──> LocalModelManager ──owns──> ServerManager ──spawns──> llama-server
             │                                ▲   ▲   ▲                │    │
             └── pin / unpin ─────────────────┼───┼───┼───────────────>│    │
admin ── unload_model, unload_all, gate ──────┘   │   └─ on_unload ────┘    │
idle monitor, crash watchdog (one task per server)┴── on_capacity_change <──┘
```

Everything in a gateway runs on one asyncio loop. Tasks share objects, not
messages; they interleave at each `await`. Three locks matter: one `model_lock`
per model (requests and the unload route), the `_capacity_cond` condition
(admission; an eviction keeps it while awaiting the victim's death), and each
server's `_state_lock` (never kept across a blocking await). Two paths take
**no** `model_lock`: the idle monitor's unload and `unload_all_models`.

### What is hard

- A server's unload takes up to ten seconds and may be started by four
  different actors; requests arrive meanwhile and want the same model back.
- Callbacks of a manager may run after it has been replaced.
- A place becomes free in five ways (unload, crash, end of a generation, failed
  load, abandoned ticket); each must wake the queue.
- A load can fail at every stage, be timed out by its caller, be cancelled by an
  unload, or be refused by the admission gates after it succeeded.
- Drains wait for generations that may never end.
- In cluster mode answers are lost or late and loads outlive the calls that
  started them.
- A stream's pins are given back by whichever of a timer, a generator and a
  cancellation comes first.
- An activation is decided by two processes and one file; a lease, an
  administrator, a kill or a lost answer may come between any two of its steps.
- Installation steps (downloads, runtimes, migrations, measurements) are resumed
  on files that an earlier, killed run left behind.

The complete list, by line, is under `hazards` in `PROJECT.json`, with the
properties that address each; two carry a note instead.

## What is modelled

| Module | Models |
|---|---|
| `ServerManager` | The life cycle of each `ServerManager` object and of its sub-process, for any caller. Its variables are functions over `Instance`. |
| `LocalPool` | `LocalModelManager` composed with its `ServerManager`s, the requests that use them, the unload routes and the gates. Extends `ServerManager`: each action of a server is conjoined with what its callbacks do to the pool. |
| `StreamProxy` | What a request holds in `proxy.py` and `rate_limiter.py`: rate window, quota, pins, guard timer, upstream connection, usage row. |
| `OperationRegister` | The abstract promise of a node agent: operations accepted once, one pending per model, final outcomes, "ready" only of a model served from the definition asked for, no server taken for one of another definition. |
| `NodeAgent` | `node_agent/main.py`: load operations, unloads, crash and restart of the agents. |
| `Cluster` | `ClusterManager` over `NodeAgent`s (which it extends) and calls that are lost, late or refused. |
| `Activation` | The applier, `registry_writer.py`, and the bootstrap-sync transitions of `admin.py`, around one file. |
| `Calibration`, `Download`, `RuntimeInstall`, `Attestation`, `Migrations` | One job each, against files, rows and a GPU, with the interruptions it must survive. |
| `Jobs` | One of the eight jobs `Migrations`, `Download`, `RuntimeInstall`, `Attestation`, `Calibration`, `FirstToken`, `PlanRun`, `Planner`, chosen in the initial state, with their properties and the assumptions on their constants. |
| `Accounts`, `FirstToken` | Users and keys behind the admin routes; the recipe of the first token and the warm-up that use them (`FirstToken` extends `Accounts`). |
| `PlanRun`, `Planner` | Executing a plan and reporting on it; deciding what to install, apply, and decide again. |
| `MCLocalPool`, `MCCluster`, `MCStreamProxy`, `MCActivation`, `MCSteps`, `PlannerCases` | Small instances for TLC: values for the constants and the cases explored; `MCSteps` and `PlannerCases` those of `Jobs`. |
| `ServerManagerProofs`, `LocalPoolProofs` | Theorems about a manager and about the pool: types, ports, implementation. |
| `CapacityProofs`, `UnloadProofs` | Further theorems about the pool, over the invariant of `LocalPoolProofs`: budget, tickets and wake-ups; loads, drains, the admin routes, ports. |
| `StreamProxyProofs`, `ActivationProofs`, `ClusterProofs` | Theorems about the module they are named after; `ClusterProofs` has the refinement of `OperationRegister`. |
| `JobProofs` | Theorems about the eight jobs, as `Jobs` instantiates them. |

An **action is the code a task runs between two awaits that can block**. Awaits
that cannot block (an uncontended `_state_lock`, whose holders never wait) are
not interleaving points in asyncio and are not in the model. Across processes an
action is one system call or one message.

Modules other than `LocalPool` bound their faults with a *budget*: `left` counts
how often each kind may still happen (`Spend`); a scenario in the MC module
chooses the counts. A scenario says how much goes wrong, never when.

### `ServerManager`

`state` is `_state`; `process` is `_process` and whether its return code is
known; `loadTask` is the position of `_load_and_signal` (*starting*: integrity
check and `create_subprocess_exec`; *probing*: `_wait_for_health`; *failing*:
the `_kill_process` of its `except`); `loadError` keeps only whether the message
carries a CUDA/out-of-memory marker, since the pool branches on nothing else.

| Action | Code |
|---|---|
| `BeginLoad` | `ensure_loaded`, UNLOADED branch |
| `StartProcess`, `BecomeReady`, `LoadRaises`, `LoadFailed` | `_load_and_signal` |
| `BeginUnload`, `FinishUnload` | `unload`, before and after `_kill_process` |
| `ProcessExits` | the sub-process: killed, or by itself at any time |
| `MarkCrashed` | `_idle_monitor` → `_mark_crashed` |

### `LocalPool`

`pc[r]` says where a request is suspended; `handle[r]` is its local variable
`manager` (the victim, while it evicts). `modelLock` and `condHolder` are the
locks, `capacityWaiters` the tickets, `woken` the sleepers of the condition that
have been notified but have not run. `notifyPending` stands for the
`_notify_capacity_waiters` tasks: several of them have the effect of one.
`older` orders the managers by `_last_request_time`, all that the LRU choice
reads. `modelOf` and `portOf` are the arguments a manager was built with — what
its late callback still knows.

| Action | Code |
|---|---|
| `StartRequest`, `EnterModel` | `ensure_model_loaded`, READY fast path |
| `WaitForUnload` | `_wait_for_unload_locked` |
| `EvictLru`, `CreateManager`, `QueueUp`, `Refuse`, `QueueTimeout` | `_ensure_capacity` and its callers |
| `ObtainLoaded`, `LoadRefused`, `LoadTimeout`, `ForgetFailedManager` | after `ensure_loaded`; the retry after a CUDA refusal |
| `FinishRequest` | `unpin` |
| `SpawnServer` … `UnloadDone`, `CrashNoticed`, `IdleUnload` | the server's actions with `on_unload` / `on_capacity_change` |
| `NotifyWaiters` | `_notify_capacity_waiters` |
| `AdminStart`, `AdminLock`, `AdminQuarantine`, `AdminDrained`, `AdminEnd` | `unload_model`, and the PATCH `enabled=false` / DELETE that follow it |
| `EnableModel`, `BlockBootstrap`, `UnblockBootstrap` | PATCH `enabled=true`; the bootstrap gate |
| `StartUnloadAll`, `UnloadAll`, `UnloadAllBusy` | `unload_all_models`, `shutdown` |

Choices worth knowing:

- *Time* is nondeterministic: a timer that runs may fire at any moment. Two
  timers are known to be long compared with a turn of the loop: the idle window
  and the crash poll are armed when a server becomes READY and cannot fire before
  the request that loaded it has resumed (`ResumePending`).
- *Managers are recycled.* A `ServerManager` nobody refers to any more is the
  next one to be created (`Fresh`): `Instance` bounds the objects that exist at
  once, not the number of loads.
- *The health probe knows only a port.* `ServerReady` lets any server that
  listens on the same port answer (`Squatter`).
- *Requests.* `Preload` requests are `POST /admin/models/{id}/load`: they obtain
  a server and do not pin it. A request is not cancelled before its response
  starts: uvicorn runs without a graceful timeout and Starlette does not cancel
  an endpoint when its client leaves. The branch of
  `_ensure_model_loaded_locked` that reuses a LOADING or UNLOADED manager is
  therefore unreachable; `LoadingHasOwner` is the invariant that says so.
- *Bootstrap transitions* appear only through their admission gate. The routes that
  are refused while one is open (unload, PATCH, DELETE) are allowed here: more
  behaviours than the code has. `Activation` has the phases.
- *PATCH and DELETE* change the registry in the same turn of the loop as the end
  of the unload; one flag `disable` stands for both.

### `StreamProxy`

`req[r]` is the request: `pc`; `guard`, the pin taken by `proxy_request` until the
generator takes over or the 30 s timer fires; `pinned`, the pin of the generator or
of the non-streaming call; `upstream`, the connection; `row`, its usage row.
`window` is the deque of `SlidingWindowRateLimiter`, `allowed` (history) all that
it let through. The server of the model may crash or be unloaded when it has no
pins. Bodies and SSE chunks are abstracted away; a request consumes one unit of
quota.

### `NodeAgent`, `OperationRegister`, `Cluster`

`ops[n][o]` is the agent's record of an operation, `agentLock` the per-model lock,
`server` what runs. `Cluster` adds the gateway: the fields of its `_NodeState`, one
variable each (`failures`, `avail`, `loaded`, `pending`, `suspect`, together `book`),
`placement` the primary routes, `req` the requests inside `ensure_model_loaded`,
`posts` the load calls the gateway stopped waiting for, `beat` a heartbeat whose answer
is being applied, `purge` the `unload_all` of each node.
`ClusterManager._lock` never covers an await and is a step.

| Action | Code |
|---|---|
| `Decide` (`Refuse`, `Resume`, `Serve`, `Refresh`, `Unusable`) | `ensure_model_loaded`, its first section under the lock |
| `PlaceAtOnce`, `PlaceByEviction`, `NoPlacement` | reservation, `pick_node`, eviction |
| `UnloadModel` … `UnloadLost`, `UnloadAll` … `NodeUnloadLost` | `unload_model`, `unload_all_models` and the certainty of their outcome |
| `Posted`, `PostRefused`, `PostLost`, `LatePost`, `Polled`, `Abandoned`, `Uncertain` | `_start_load`, polling, `_resume_pending_load` |
| `Finish`, `Fail` | `_finish_pending_load`, `_clear_pending_load` |
| `Heartbeat`, `HeartbeatRead`, `HeartbeatLost`, `ApplyInventory` | the heartbeat loop and the reconciliation |
| `EditModel`, `GatewayRestarts`, `BackendFailed` | registry edits, restart, failed streams |

The scheduler takes the node with the least room among those that have some
(`BestFit`), or else evicts. Its tie-break by name is a nondeterministic choice, and so
are which idle model is evicted, and on which of the nodes that could (the code takes the
least recently used one and the cheapest plan); every model here takes one place. Two consequences of deadlines are assumed: a 404 of an operation is
final only when its POST can no longer arrive; a reservation expires only when
its operation no longer runs.

### `Activation`

`disk` and `memory` are models.yaml and the gateway's registry; `boot` the
`_BootstrapLiveState` (phase, digest, baseline, live entry, lease); `gate` the
admission; `run` the applier's ledger; `wire`, `reply` its call to the gateway.
`Start` … `Undone` are the steps of `apply_loaded_plan` for one model, `Publish` the
atomic replacement; `Activate`, `Confirm`, `Rollback`, `LeaseExpires`, `DrainEnds`
the gateway; `PatchBegins`, `PatchCommits` an administrator's edit. `Crash`,
`Cancel`, `GatewayRestart`, `LoseCall`, `LoseReply` may strike anywhere within budget.

### The jobs

- `Calibration`: two passes; the sampler task runs beside the load and the prompt;
  reuse of a report is decided by its identity. `Probe` asks the binary for its version,
  which labels the measure; `Fork` starts whatever build is there by then. `Cancel` strikes
  any await of the pass. Memory is in units.
- `Download`: `final`, `part`, `sidecar`, `manifest` are names that refer to inodes
  with `data`; a kill may truncate what was buffered.
- `RuntimeInstall`: `incoming`, `releases`, `previous` and the link `here`; the
  gateway may start the server through the link at any moment.
- `Attestation`: identities of a file stand for (device, inode, size, mtime);
  stat and hash are steps between which the file may be replaced.
- `Migrations`: processes of two code versions start together on one database.
- `FirstToken`: a call that timed out stays in `requests` and may be executed later. The
  recipe answers for its user (`state.created`) once the call that creates it is over, and
  not before; a cancelled recipe cleans up and returns no report.
- `PlanRun`: executors are adversarial within `StepResult`; the report is read back
  by someone who recomputes the verdict.
- `Planner`: host, binary, manifest, files and policy may change between two plans.

## What is checked

| Run | Instance | Shows |
|---|---|---|
| `server_manager` | 2 managers | `ProcessOwned`, `LoadTaskMatchesState`, `TransitionsTerminate` |
| `pool_safety` | weights 2 and 1 under budget 2, 3 managers, 2 ports, queue of 1; 3 requests, or 1–2 with an admin task (`SafetyCases`) | the types and the safety of the pool |
| `pool_drain` | 3 models (two fit together), or 2 with a pre-load or an unload-all; no queue (`UnloadCases`) | `DrainOnlyShrinks` |
| `pool_live` | 2 models that exclude each other and 1 port, or one model with the bootstrap gate; 2 requests (`LiveCases`) | `EveryRequestAnswered`, `OrphanReaped` |
| `pool_unload_live` | 1 model, 1 request, 1 unload route, 1 unload-all | `EveryUnloadAnswered` |
| `cluster` | 1–2 nodes with one place, 2 models, 2 requests, ten scenarios of trouble | `EvictingNotPinned`, `ServedAsAsked`, `NoConcurrentFailover`, `ImplementsRegister` |
| `cluster_live` | four of these scenarios, under fairness | `EveryRequestAnswered`, `EveryServerCounted` |
| `stream` | 3 requests, limit 2 in a window of 2 ticks, four scenarios | `PinsBalanced`, `OneRowPerStream`, `RateRespected`, `NoUnloadInUse`, `EverythingGivenBack` |
| `activation` | one model, two or three runs of the applier, eight scenarios | `PhaseGoverns`, `EnabledOnProof`, `DoneMeansServed`, `BorrowedTimeEnds`, `EveryRunEnds` |
| `steps` | one job per behaviour, chosen in the initial state | one property per job |
| `find_orphan_port`, `find_compensation` | the smallest instance that shows it | [below](#where-code-and-documentation-disagree) |

**The properties of the pool.** `PoolConsistent` — each port is in the FIFO once
or belongs to the current manager of one model. `OneServerPerPort` — a live
process never has its port in the FIFO or shared. `BudgetRespected` — the
estimated VRAM of LOADING and READY models stays within the budget.
`NoLostWakeup` — when nothing is about to wake the head of the queue, it really
could not proceed. `TicketsAreLive` — tickets belong to requests that wait.
`LoadingHasOwner` — no LOADING manager is left behind. `DisabledNotServing` — after
PATCH `enabled=false` or DELETE has answered, the model is neither READY nor
LOADING. `PinnedNeverUnloadedSilently` — only an explicit `force` unloads a server
that is serving. `DrainOnlyShrinks` — no new request is served by a model while an
operation drains it. `OneServerPerPort` and `PinnedNeverUnloadedSilently` are not
listed with `unload_all` or the gate because they fail there: see below.

**Cluster.** `EvictingNotPinned` — no stream holds a model whose eviction has
begun. `ServedAsAsked` — a stream whose record is current is served by the
definition it asked for. `NoConcurrentFailover` — a reservation is withdrawn from a
node that answers only when its operation cannot bring a server up any more.
`ImplementsRegister` — under the mapping `RegisterOf`, `ServedBy`, each agent
implements `OperationRegister`. The register remembers from which definition each
model is served, so the refinement also says what `docs/architecture.md:1648` claims:
a new definition never passes off a server of an old one, although the check is made
when the call arrives and the server is looked at again when the task gets its lock.

**Stream.** `PinsBalanced`, `EverythingGivenBack` — pins are counted once and given
back. `OneRowPerStream` — a stream ends with one usage row. `RateRespected` — no
window holds more than the limit, over the whole history. `NoUnloadInUse` — a
server in use goes away only by crashing.

**Activation.** `PhaseGoverns` — phase, gate and memory agree. `EnabledOnProof` — the
file turns to enabled only on this run's recipe, for the calibrated parameters.
`DoneMeansServed` — a plan reported done has left the model enabled and admitted as
the file says. `BorrowedTimeEnds` — what is served but not enabled on disk is
confirmed or closed in the end. `EveryRunEnds`.

**Jobs.** `CalibrationSafe` — the proposed memory covers what a server of the measured
build holds, that build is the plan's own unless it was replaced between the probe and the
fork (finding 13), and no measured server outlives its run, cancelled or not, but for the
two waits of finding 18. `CleanedMeansGone` — an identity reported as removed, or removed
by a cancelled recipe that answered for it, can never connect again, and no traffic is
authorised while it remains (what a cancelled creation leaves is finding 19).
`MigrationsSafe` — none applied twice, a copy survives. `DownloadSafe` — a
definitive name only holds what the catalogue pins; a step that succeeds leaves the
whole set. `RuntimeIsSound` — what the gateway would start is attested and above
the floor; a failure changes nothing, a success can be rolled back.
`VouchedIsDeclared` — what vouches for a file is a hash of the declared bytes.
`PlanIsHonest` — a believed "complete" was earned and nothing happens unreported.
`RuntimeIsChosenWell` — a kept or installed runtime is above the floor and for this
host, and is kept by the next plan. Each of these, and `PinsBalanced`,
`PhaseGoverns`, `EvictingNotPinned`, includes the type invariant of its module.

**Bounds.** In the pool, weights 2 and 1 under budget 2 make the two models exclude
each other, so that admission must evict, queue or refuse; three requests give one
being served, one queued and one that finds the queue full or could overtake;
`Ports` is at most the number of models. Three managers for two models leave room
for a current one, its dying predecessor and the other model's. A case of
`MCLocalPool` bounds who takes part (`InCase`). TLC uses symmetry on managers and
requests in the safety runs, and a view that ignores what is left inside a manager
nobody refers to (`CreateManager` rewrites every field before it is read). In the
cluster one place per node makes every second model an eviction; two operations
per node suffice for a retry that meets its predecessor; combinations of more than
two kinds of fault are not explored. In `stream` slow backends are not combined
with cancellations (finding 6). In `activation`, peak 1 keeps the catalogue's estimate,
2 raises it and 3 exceeds the budget; an edit and a crash are combined, three
kinds of fault are not. `Download` has two files of two blocks so that a set can be
half there and a file half written; `Migrations` two versions and one kill.

**Fairness.** In the pool `Fairness` assumes what asyncio, its timers and the kernel
give: a task that can run does; locks and conditions are FIFO, so a task that waits
for a lock which is free again and again gets it (strong fairness for the steps
that take a lock); timers fire; SIGKILL ends a process; the idle monitor polls for
ever. It does not assume that a generation ends, a client comes, a load succeeds
or an operator acts. `Cluster`: every call ends (answered, or by its timeout), the
heartbeat loop runs, agents carry on, late posts are handled in the end; streams
need not end and faults need not happen. `StreamProxy`: a request's own task, its
timer and the task of its usage row run; cancellation is never assumed.
`Activation`: the applier's own steps, the gateway's handling of a call, the lease,
the drain of users that finish, the commit of a begun edit; a run of the applier is
never forced to begin. The jobs are checked for safety only.

**Deadlock** is checked in the pool and in `activation`; the other runs stop when the
requests, faults or runs they have are spent.

Each property of a passing run is accompanied in `PROJECT.json` by at least one
mutation of the modelled code (an operator named after its original in the modules)
that makes TLC find it violated.

## What is proved

`tlapm` checks eight modules completely, for any set of models, managers, requests,
admin tasks, nodes, operations, artefacts, builds, processes, plans, catalogues, hosts and
policies, any weights, budget, number of ports, limits and numbers of faults. What TLC checks on the instances above and what is proved here are the
same definitions.

| Theorem | Statement |
|---|---|
| **`ServerManagerProofs`** | |
| `SMTypeCorrect`, `ProcessAlwaysOwned`, `LoadTaskAlwaysMatches` | `SMSafety => []SMTypeOK`, `[]ProcessOwned`, `[]LoadTaskMatchesState` |
| **`LocalPoolProofs`** | |
| `TypeCorrect`, `PortsAlwaysConsistent` | `Spec => []TypeOK`, `Spec => []PoolConsistent` |
| `PoolImplementsServerManager` | `Spec => SMSafety`: composing the managers into the pool adds no behaviour to any of them |
| `PoolProcessesOwned` | `Spec => []ProcessOwned`, by the two above |
| **`CapacityProofs`** | |
| `BudgetAlwaysRespected` | `Spec => []BudgetRespected` |
| `TicketsAlwaysLive` | `Spec => []TicketsAreLive` |
| `WakeupNeverLost` | `Spec => []NoLostWakeup` |
| **`UnloadProofs`** | |
| `LoadingAlwaysOwned`, `DisabledNeverServing` | `Spec => []LoadingHasOwner`, `Spec => []DisabledNotServing` |
| `PinnedSafeFromSilentUnload` | `Spec => PinnedNeverUnloadedSilently`, if `Unloader = {}` |
| `DrainAlwaysShrinks` | `Spec => DrainOnlyShrinks`, if at most one `unload_all` and no admin route may drain, or no `unload_all` at all |
| `OnePortOneServer` | `Spec => []OneServerPerPort`, if `Unloader = {}` and `Provisional = {}` |
| **`StreamProxyProofs`** | |
| `PinsAlwaysBalanced`, `OneRowAlways`, `NeverUnloadedInUse`, `RateAlwaysRespected` | `Spec => []PinsBalanced`, `[]OneRowPerStream`, `NoUnloadInUse`, `[]RateRespected` |
| **`ActivationProofs`** | |
| `TransitionAlwaysGoverns`, `FileEnabledOnProof`, `DoneIsServed` | `Spec => []PhaseGoverns`, `EnabledOnProof`, `DoneMeansServed` |
| **`ClusterProofs`** | |
| `EvictionAlwaysUnpinned`, `FailoverAlwaysAlone` | `Spec => []EvictingNotPinned`, `NoConcurrentFailover` |
| `AgentsImplementRegister` | for every node, `Spec => OperationRegister!Spec` under the mapping `RegisterOf(n)`, `ServedBy(n)` |
| **`JobProofs`** | |
| `RuntimeAlwaysSound` | `Spec => []RuntimeIsSound` |
| `VouchedAlwaysDeclared` | `Spec => []VouchedIsDeclared` |
| `MigrationsAppliedOnce` | `Spec => []AppliedOnce` of a migration, for any number of processes |
| `MigrationsAlwaysSafe` | `Spec => []MigrationsSafe`, if no more processes start than copies are kept |
| `DownloadAlwaysSafe` | `Spec => []DownloadSafe`, if one applier is at work |
| `CalibrationAlwaysSafe`, `CleanedAlwaysGone`, `PlanAlwaysHonest` | `Spec => []CalibrationSafe`, `[]CleanedMeansGone`, `[]PlanIsHonest` |
| `RuntimeAlwaysChosenWell` | `Spec => []RuntimeIsChosenWell`, if the pinned build is neither 0 nor 1 |

The three hypotheses of `UnloadProofs` are not conveniences of the proof. Without them the
property is false of the code: findings 4, 5, and 1 with 3 [below](#where-code-and-documentation-disagree)
are the counterexamples. The theorems say that nothing else breaks it. The same goes for
the hypotheses of `MigrationsAlwaysSafe` (finding 12), of `DownloadAlwaysSafe` (`OneApplier`:
finding 10) and of `RuntimeAlwaysChosenWell` (`PinnedIsARelease`: finding 16).

**Assumptions on the constants**, named where they are declared:
`PoolAssumption` (finite registry, disjoint sets of tasks, at least one port, `None`
outside everything), `StreamAssumption` (the limiter forgets a user only after
at least a rate window, as 300 s and 60 s do; counts of faults are natural), `ActivationAssumption`, `AgentAssumption` (finite registry,
`None` and `"unload"` are not operations), `ClusterAssumption` (a natural threshold, `None`
outside, each count of faults natural or `None` for no bound), `InstallAssumption`
(natural build numbers), `AttestationAssumption` (at least one artefact, and as
many file versions as there are artefacts), `MigrationAssumption` (what each process's code
knows is between no migration and the last), `DownloadAssumption` (natural sizes), `MeasureAssumption` (natural needs and margin, at least
one sample), `RecipeAssumption` (counts of faults are natural), `PlanAssumption` (the steps of a
plan are a list), `PlannerAssumption` (hosts, finite catalogue and policies have the shape of
`RawHost`, `CatalogEntry` and `ResolverPolicy`; the floor is not above the pinned build, as
`ReleasePolicy` refuses at construction). `FewProcesses`, `OneApplier` and `PinnedIsARelease`
are the hypotheses of single theorems and are named in `JobProofs`.

### The inductive invariants

*A manager.* `ProcessOwned` is not inductive: a load task that survived an unload could
start a process behind an UNLOADED manager, or publish READY without one. `SMInv` adds
the correspondence between `loadTask` and `state`, and that a starting load has no process
yet while a probing one has.

*Ports.* `PoolConsistent` is not inductive either: that a released port is not already in
the FIFO and that a port taken from it is nobody's rests on which request holds which
lock. `PoolInv` is the conjunction of `TypeOK`, `RequestInv` and `AdminInv` (a request or
admin task between `EnterModel` / `AdminLock` and its return has a target model and holds
its `model_lock`, whose holder is unique) and `PoolConsistent`.

*Budget.* `BudgetRespected` is inductive over `PoolInv`; the work is in the sum. It is a
fold over a finite set, and the library's induction cannot be instantiated; the lemmas on
sums are proved instead by a smallest counterexample (`WFMin`: a finite set without the
property has a minimal subset without it).

*Tickets and wake-ups.* `TicketInv` adds to `TicketsAreLive` which requests may hold the
condition. `WakeupInv` says more than `NoLostWakeup`: if the head of the queue sleeps,
nothing has happened since that would let it proceed, also while an evictor keeps the
condition through its unload.

*Loads, drains, routes.* `LockInv`: a `model_lock` that is held is held by a task that will
give it back. `OwnerInv`: a LOADING manager, or an UNLOADED one still in the pool, has the
request that will see its load through. `AdminUnloadInv`, `AdminDrainInv` and
`UnloaderDrainInv` say what a route knows at each await. For `OneServerPerPort`,
`NoOrphan` and `HandInv`: a manager that is not UNLOADED is in the pool, or the one
task that took it out awaits its end.

*Streams.* `StreamInv` is the types, `RequestInv` (where a request stands, whether it is
pinned and whether its timer is armed agree; the pins of the model are the number of those
that pinned it, counted over a finite set even if requests are without number) and
`LimitInv` (the deque is a suffix of the whole history, and any limit + 1 consecutive entries
of the history span more than a window).

*Activation.* `ActivationInv` has what an open transition, its gate and its drain imply of
each other (`TransitionInv`); that at most one call or drain will still answer the
applier, and is the one it waits for (`CallsInv`); what the applier has established before
each of its steps (`PlanInv`); and that a run finds no confirmation but its own, after which
the gateway holds what the file says (`ConfirmInv`).

*Cluster.* `ClusterInv` joins, for the agents, who holds each per-model lock, that one
operation per model is active, and that an accepted load that has not begun finds no server
of its model (`LockInv`), so that the "already served" branch of `_load_serialized` is never
taken after a POST was accepted and its overwriting of the identity never happens; for the gateway, what a request knows at each
await, `Sound` (`RequestInv`); that a victim is known where it is evicted and unused once
marked, that one eviction runs per node and that a gateway just restarted has none
(`EvictInv`); and for the operations, that a load is posted by one request alone, that the
agent does not know an operation whose POST is still late, that one polled for was accepted
(`OpInv`). One lemma per action proves `Good`: the invariant is kept, every agent
takes a step of its register or none, and a failover is safe.

*Jobs.* `InstallInv`: the link and the release it replaced are each sound, and what a step
in progress lays out is neither. `AttestationInv`: identities are never taken again, so a
hash between two equal stats is of the bytes under that identity (`FlightInv`); what a
caller has accumulated and what the table keeps are such hashes (`CallerInv`, `CacheInv`).
`MigrationInv`: only the lock's holder applies, and the version bounds what was applied
(`SchemaInv`); as long as nobody was killed there are at most as many copies as processes
that made one, so that the purge removes none, and nobody reaches a migration before a copy
of what was found exists (`CopyInv`).

`DownloadInv`: no handle on a partial file reaches a file that has its definitive name
(`Apart`), what has such a name is a whole revision (`Genuine`), and an applier's running
hash is that of the bytes under its handle, also after a resumption (`WorkInv`). The property
alone is not inductive: a definitive file is sound because the partial it was renamed from
equalled the hash that was compared, through cuts, resumptions and kills.

`MeasureInv`: a sampler that still runs has a reading left (`SamplerInv`); where the executor believes in a server there is one, and a
live server of this run is believed in, being unloaded, declared stray, or left by a kill or a
cancellation in one of the two exempted waits (`ServerInv`); the
peaks and the reports cover the need, for the build that served, of their pass, or the reading
that will make them is next (`CoverInv`); and, as long as no server was forked from another
build than the probed one, what the probes, the peaks, the reports and the result are labelled
with is the build that served (`BuildInv`).

`RecipeInv`: each request of the recipe is made once, and answering it ends it (`AskedOnce`); what
each stage has established (`Progress`), except for a user whose creation was awaited when the
recipe was cancelled, for which it no longer answers (`Disarmed`); and how the account follows, also from requests executed
after the recipe gave up on them: erased, it is inactive unless somebody else edits it, and its key does not open if the
recipe ever knew the key's prefix (`AccountInv`).

`PlanRunInv`: the results are those of the loaded steps, in order and under the executor's
guard (`ResultsInv`), and the fingerprint of the archived journal is that of what ran, since no
alteration recomputes it (`DocumentInv`).

`PlannerInv`: a manifest whose hash is that of the bytes in place speaks of that binary
(`ManifestInv`); an installation is the first step of a plan, or there is none (`StepsInv`); what the plan
decided of the runtime still holds of the host while it is applied (`DecisionInv`), since only
disk and memory change in between (`DiskDoesNotDecide`); and after a plan applied in full the
next judgement is *reuse* (`QuietInv`). A plan's steps are the flattened steps of its retained models;
what a chain of any length is flattened to is a fact about data, proved like the sums by a smallest counterexample (`SmallestOf`, `FlattenedSteps`), as is that a finite
set of models can be put in the order of the advice (`SortedSequence`).

The proofs have one lemma per action and, in each, one step per conjunct the action can
disturb.

### What is only model-checked

- *Liveness*, everywhere: fairness and ENABLED are beyond these provers.
- *`ServedAsAsked`*. It holds in the ten scenarios of `MCCluster`, with one place per node,
  and is not an invariant of every combination of faults. With `Places = 2` one edit refutes
  it together with just one of: a crash of the server; a restart of the agent; and, when the model
  is also unloaded by hand, a load left in doubt, a gateway restart, or two lost calls. The cause is the same
  each time: a stream that has not noticed that its server is gone, while the new definition
  is loaded beside its record on the same node. With one place that record keeps the node
  full. A hypothesis that excludes all of these leaves nothing to prove, so the property
  is claimed for the scenarios listed there and no more.
- *What lies outside the hypotheses* named above: with several appliers, an unloader and so on,
  the property in question is not claimed, and does not hold.


## Where code and documentation disagree

Shown by a run:

1. **`find_orphan_port`.** `_ensure_model_loaded_locked` re-checks the gates after
   the load (model_manager.py:296). If `block_bootstrap_admission` ran during the load
   (a rollback and an expired lease close the gate before they wait for
   `model_lock`), the exception sends a READY manager to `_forget_failed_manager`:
   the port of a live server returns to the pool, and the next model's health probe
   is answered by the wrong server. docs/architecture.md:632-637 gives this situation as the
   one its two invariants exclude, and :722 says no port leaks. (The orphan is
   eventually ended by its own idle monitor: `OrphanReaped`.)
2. **`find_compensation`.** An applier is cancelled while its confirmation is being
   handled, after a calibration that raised `vram_gb`. The disk rollback writes
   `enabled: false` but keeps the raised `vram_gb`; the live rollback then finds a
   disk entry that is not the baseline and is refused (admin.py:553). The gateway
   serves the model, phase *confirmed*, no lease, disk disabled.
   docs/architecture.md:358-362 and applier.py:609 promise that every failure and
   cancellation is compensated on disk *and* in the gateway.

Met while modelling and reproduced with TLC on a larger instance or scenario, or by
reading; no run of this directory shows them:

3. `unload()` on a LOADING manager wakes its waiters before the process is dead; the
   awakened request returns the port at once, through `unload_all_models`, which takes
   no `model_lock` (docs/architecture.md:622-630). `OneServerPerPort` fails with an
   unloader.
4. `unload_all_models` drains the models loaded when it starts, then unloads those
   loaded when the drain ends (model_manager.py:797): a model loaded in between and
   serving is killed without `force`, against docs/admin.md:797 and admin.py:917.
5. Two operations that drain the same model share its entry in `_draining`; the first
   to end removes it for both (model_manager.py:806, comment at :190-192).
   `DrainOnlyShrinks` fails with an admin task beside the unloader.
6. `proxy.py`: the guard timer may fire while a slow upstream is being opened, and the
   stream then runs unpinned for a while (comments at :463-476 and :739-742); a response
   opened slowly and never iterated never discards its connection (docstring
   :489-500); a cancelled pre-flight or a generator never started leaves no usage row,
   though :234-242 says exactly once.
7. A load left in doubt and whose definition is edited keeps its reservation for ever:
   each later request is refused because another definition is reserved, and only a
   request resolves one (cluster_manager.py:157-160 says a reservation cannot outlive the
   agent's deadline indefinitely).
8. `runtime_resolver.py:1211-1234`: a runtime installed *degraded* (CPU, with consent)
   is reused with `degraded=False` by the next plan on a host with a GPU; the docstring
   (:35-45) says there is no path where the flag is lost.
9. `bootstrap_sync`'s docstring says a gateway crash stays fail-closed because the disk
   keeps `enabled: false` until confirm; `enable_model_entry` writes `enabled: true`
   before confirm. An applier killed between the two leaves, once the lease expires,
   the disk enabled, the memory disabled and mutations refused until a restart.
10. Downloads: two appliers on the same entry can publish an unverified file (one
    renames the `.part` the other still writes, downloader.py:925, against :13-14);
    `DownloadSafe` fails with two processes. Resumption forecasts the full size again.
11. Accounts: a PATCH that read the user before an erasure writes after it
    (admin.py:1014, database.py:596; docs/admin.md:186-203).
12. Migrations: with `keep=2`, two processes and one kill, the purge removes the only copy
    from before the series when the retry makes new ones (docs/architecture.md:1150-1157);
    without any kill, three processes that all read the version before the first migrates
    do the same.
13. Calibration: `load_model` asks the binary for its version (production.py:858) before it
    starts the server (:869) and returns that version (:930). A runtime switched between the
    two is measured under the label of the other, which calibration.py:1407-1412 says would
    be reused wrongly and the docstring :447-451 that M2 makes impossible. In
    `CalibrationSafe`, without `~mislabelled`, TLC finds it.
14. Planner: a model already on disk counts against free space again (`_fits`), so a
    re-plan is blocked by the files it installed; with `max_models` above 1 the disk
    budget is not cumulative. `install_report`: "complete" needs an `install_runtime` and an
    `accept_license` step in that very plan. `execute_plan` interrupted leaves no report.
15. Runtimes: `_deja_satisfait` does not check the floor again; killed installations leave
    their incubation directories. Integrity: a caller that stats a replaced file while
    the flight of the old content has not delivered shares its positive answer.
16. `ReleasePolicy` accepts the tags `b0` and `b1` (runtime_resolver.py:777-818), which
    `_judge_existing_binary` never trusts: a shallow clone reports build 1 (:172). With such a
    pin every plan installs again the runtime that the last one installed, although nothing
    changed. Met in the proof of `RuntimeAlwaysChosenWell`.
17. Cluster: a load in doubt that completes, and whose server is then unloaded by hand, is
    resumed by the next request: the unload leaves the reservation
    (docs/architecture.md:1684 says so), the agent's record still says ready
    (node_agent/main.py:358), and the request gets a handle to a server that is gone
    (cluster_manager.py:815-843). Met while looking for hypotheses for `ServedAsAsked`.
18. Calibration: one cancellation is enough to leave the measured llama-server running.
    When the server has loaded, `PeakSampler.during` still awaits the sampler
    (calibration.py:657), and the pass notes the server as its own only after that
    (:1405): a cancellation there skips the unload, against :1373-1377 (the unload is in a
    `finally`) and production.py:934-936 (a cancellation must never leave the process).
    Cancelled while it waits for the server to stop, the executor may leave it too, and so
    it may when cancelled twice more during the clean-up of `load_model` (:937-944; one
    step in the model). In `CalibrationSafe`, without `"loadJoin"`, TLC finds the first.
19. First token: `identity_created` is set when the creation has been answered
    (first_token.py:1006), and `_call` lets a cancellation through (:924-927). Cancelled
    while that call is awaited, the clean-up sees no identity, sets `identity_cleaned` and
    removes nothing (:1228-1230), while the gateway has created the user or still will. The
    docstring (:780-783) says the identity is removed however the recipe ends. (It has no
    key yet.) In `CleanedMeansGone`, without `state.created`, TLC finds it.

## What is left out, and why

- *Measured VRAM.* `_available_vram_gb` takes the minimum of the estimate and of an
  `nvidia-smi` reading. The reading can only refuse more; admission under it is
  not modelled, so nothing is said about waiting for memory held by others.
- *Edits of `vram_gb`* while a model is loaded change the sum under the admission's
  feet; the registry's validation, not the pool, bounds them.
- *Cancellation of requests* in the pool: see the choices above.
- *Classification of load errors*: the pool recognises a CUDA failure by words of its
  message; `LoadRaises` chooses which kind it was.
- *Accepted operations in an agent's inventory*: the agent also lists those that wait or are
  validated as loading; `ApplyInventory` takes the servers that are loading. The gateway keeps
  its reservation in both cases.
- *Activation*: `AskConfirm` sends the digest of the file as it is, the code that of the
  text it read just before; the branch of `Provision` that takes proofs supplied by the caller
  (applier.py:815-816), so that `EnabledOnProof` speaks of the proofs of the run; and an
  administrator's edits are those `PatchCommits` lists.
- *Migrations*: two copies wanting one file name (`O_EXCL`), and migrations that fail
  otherwise than by a kill.
- *A subprocess start that is cancelled*: asyncio ends the child it had begun, so a `Cancel`
  at `Fork` leaves no server.
- *The start-up probe for orphan ports* runs before the first request.
- *The scheduler's tie-breaks* (see `Cluster`) and the relay of metrics in cluster mode.
- *Doctor, command line, readiness, metrics, schemas, settings*: reports on or
  validation of documents, without state of their own.
- *YAML layout, evidence and digests* of the bootstrap documents: a fingerprint is the
  value it is the digest of; field-by-field validation is left out.
- *Statistics queries, dashboard, shell scripts*: I/O or run by hand; `components` in
  `PROJECT.json` gives the reason for each part.

## Plan

Done: every module of the table above with its runs; the proof of every safety invariant and
action property of the runs but `ServedAsAsked`.

What could come next, in this order:

1. **`ServedAsAsked`** restated for streams whose server has not been replaced since they got
   their handle, if the gateway comes to check the operation behind a handle (finding 17).
2. **Larger sizes**: clusters with three kinds of fault, two models in `Activation`.
