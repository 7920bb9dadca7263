------------------------------- MODULE LocalPool -------------------------------
(***************************************************************************)
(* gateway/model_manager.py: LocalModelManager, the pool of llama-servers  *)
(* of one gateway, composed with the ServerManager objects it owns, the    *)
(* requests that use them (gateway/proxy.py) and the administrative        *)
(* operations that take them away (gateway/admin.py).                      *)
(*                                                                         *)
(* Everything runs on one asyncio loop: an action is the code a task runs  *)
(* from one await that can block to the next.  model_lock is modelLock,    *)
(* _capacity_cond is its lock (condHolder: only an eviction keeps it       *)
(* across an await) and its sleepers (waiting and not in woken).           *)
(*                                                                         *)
(* Time is nondeterministic: a timeout may fire whenever its timer runs.   *)
(* Not modelled: cancellation of a request by the HTTP server, the         *)
(* nvidia-smi measurement that can lower the free VRAM, edits of vram_gb.  *)
(***************************************************************************)
EXTENDS ServerManager, Naturals, Sequences, FiniteSets, FiniteSetsExt

CONSTANTS
  Model,        \* the models of the registry
  Request,      \* client requests; each may be issued again once it is over
  Preload,      \* the requests that are POST /admin/models/{id}/load: no pin
  Admin,        \* tasks running an admin route that unloads one model
  AdminOp,      \* what they may ask: records [force, disable]
  Unloader,     \* tasks running unload_all_models
  ForceAll,     \* the values its "force" argument takes
  Provisional,  \* the models a bootstrap transition may close and reopen
  Ports,        \* max_loaded_models
  VramGb,       \* vram_gb of each model
  Budget,       \* effective_vram_budget_gb()
  QueueEnabled, \* capacity_queue_enabled
  MaxWaiters,   \* capacity_queue_max_waiters
  None          \* no task, no manager, no port, no model

ASSUME PoolAssumption ==
  /\ IsFiniteSet(Model)
  /\ Preload \subseteq Request
  /\ Provisional \subseteq Model
  /\ AdminOp \subseteq [force : BOOLEAN, disable : BOOLEAN]
  /\ ForceAll \subseteq BOOLEAN
  /\ Ports \in Nat \ {0}
  /\ VramGb \in [Model -> Nat]
  /\ Budget \in Nat
  /\ QueueEnabled \in BOOLEAN
  /\ MaxWaiters \in Nat
  /\ Request \cap (Admin \cup Unloader) = {}
  /\ Admin \cap Unloader = {}
  /\ None \notin Instance \cup Model \cup Request \cup Admin \cup Unloader \cup Nat

Port == 1..Ports

VARIABLES
  (* the pool *)
  managers,         \* _managers: model -> its current ServerManager
  allocatedPorts,   \* _allocated_ports
  portPool,         \* _port_pool, a FIFO
  modelOf, portOf,  \* the arguments each ServerManager was built with
  older,            \* <<a, b>>: a's _last_request_time is before b's
  (* admission *)
  modelLock,        \* _model_locks: the task holding each
  condHolder,       \* the request holding _capacity_cond across an await
  capacityWaiters,  \* _capacity_waiters: the tickets, by request
  woken,            \* the sleepers of _capacity_cond that were notified
  notifyPending,    \* a _notify_capacity_waiters task is scheduled
  draining,         \* _draining
  bootstrapBlocked, \* _bootstrap_blocked
  enabled,          \* the models the registry holds and enables
  (* requests *)
  pc, target, handle, attempt, forceExtra,
  (* admin tasks *)
  adminPc, adminModel, adminOp, adminHandle,
  unloaderPc, unloaderForce, quarantined, remaining, unloaderHandle

poolVars  == <<managers, allocatedPorts, portPool, modelOf, portOf, older>>
condVars  == <<condHolder, capacityWaiters, woken, notifyPending>>
gateVars  == <<draining, bootstrapBlocked, enabled>>
reqVars   == <<pc, target, handle, attempt, forceExtra>>
adminVars == <<adminPc, adminModel, adminOp, adminHandle>>
allVars   == <<unloaderPc, unloaderForce, quarantined, remaining, unloaderHandle>>

vars == <<smVars, poolVars, modelLock, condVars, gateVars, reqVars, adminVars, allVars>>

RequestPc ==
  {"idle",          \* not in the gateway
   "modelLock",     \* waiting for model_lock
   "capacity",      \* holds model_lock, about to take _capacity_cond
   "waitUnload",    \* asleep in _wait_for_unload_locked
   "waitTurn",      \* asleep in _ensure_capacity, with a ticket
   "evicting",      \* awaiting its victim's unload, holding _capacity_cond
   "waitReady",     \* asleep in ServerManager.ensure_loaded
   "timeoutUnload", \* unloading a load that took too long
   "forget", "forgetCapacity",  \* about to run _forget_failed_manager
   "serving"}       \* the manager is pinned

PoolTypeOK ==
  /\ managers \in [Model -> Instance \cup {None}]
  /\ allocatedPorts \in [Model -> Port \cup {None}]
  /\ portPool \in Seq(Port)
  /\ modelOf \in [Instance -> Model \cup {None}]
  /\ portOf \in [Instance -> Port \cup {None}]
  /\ older \subseteq Model \X Model

AdmissionTypeOK ==
  /\ modelLock \in [Model -> Request \cup Admin \cup {None}]
  /\ condHolder \in Request \cup {None}
  /\ capacityWaiters \in Seq(Request)
  /\ woken \subseteq Request
  /\ notifyPending \in BOOLEAN
  /\ draining \subseteq Model
  /\ bootstrapBlocked \subseteq Model
  /\ enabled \subseteq Model

RequestTypeOK ==
  /\ pc \in [Request -> RequestPc]
  /\ target \in [Request -> Model \cup {None}]
  /\ handle \in [Request -> Instance \cup {None}]
  /\ attempt \in [Request -> {0, 1}]
  /\ forceExtra \in [Request -> BOOLEAN]

AdminTypeOK ==
  /\ adminPc \in [Admin -> {"idle", "modelLock", "lookup", "drain", "unloading"}]
  /\ adminModel \in [Admin -> Model \cup {None}]
  /\ adminOp \in [Admin -> AdminOp \cup {None}]
  /\ adminHandle \in [Admin -> Instance \cup {None}]

UnloaderTypeOK ==
  /\ unloaderPc \in [Unloader -> {"idle", "drain", "unloading"}]
  /\ unloaderForce \in [Unloader -> BOOLEAN]
  /\ quarantined \in [Unloader -> SUBSET Model]
  /\ remaining \in [Unloader -> SUBSET Model]
  /\ unloaderHandle \in [Unloader -> Instance \cup {None}]

TypeOK ==
  /\ SMTypeOK
  /\ PoolTypeOK
  /\ AdmissionTypeOK
  /\ RequestTypeOK
  /\ AdminTypeOK
  /\ UnloaderTypeOK

Init ==
  /\ SMInit
  /\ managers = [m \in Model |-> None]
  /\ allocatedPorts = [m \in Model |-> None]
  /\ portPool = [p \in Port |-> p]
  /\ modelOf = [i \in Instance |-> None]
  /\ portOf = [i \in Instance |-> None]
  /\ older = {}
  /\ modelLock = [m \in Model |-> None]
  /\ condHolder = None
  /\ capacityWaiters = <<>>
  /\ woken = {}
  /\ notifyPending = FALSE
  /\ draining = {}
  /\ bootstrapBlocked = {}
  /\ enabled = Model
  /\ pc = [r \in Request |-> "idle"]
  /\ target = [r \in Request |-> None]
  /\ handle = [r \in Request |-> None]
  /\ attempt = [r \in Request |-> 0]
  /\ forceExtra = [r \in Request |-> FALSE]
  /\ adminPc = [a \in Admin |-> "idle"]
  /\ adminModel = [a \in Admin |-> None]
  /\ adminOp = [a \in Admin |-> None]
  /\ adminHandle = [a \in Admin |-> None]
  /\ unloaderPc = [u \in Unloader |-> "idle"]
  /\ unloaderForce = [u \in Unloader |-> FALSE]
  /\ quarantined = [u \in Unloader |-> {}]
  /\ remaining = [u \in Unloader |-> {}]
  /\ unloaderHandle = [u \in Unloader |-> None]

-----------------------------------------------------------------------------
(* Reading the pool                                                        *)

InPool(i) == \E m \in Model : managers[m] = i

\* is_pinned: _active_requests counts the requests being served.
Pinned(i) == \E r \in Request : pc[r] = "serving" /\ handle[r] = i

Loaded == {m \in Model : managers[m] # None}

\* Mutation of Admitted: a quarantined model is still open to new requests.
AdmittedWhileDraining(m) == m \notin bootstrapBlocked /\ m \in enabled

\* _admitted_model raises unless this holds.
Admitted(m) == m \notin bootstrapBlocked /\ m \notin draining /\ m \in enabled

\* _used_vram_gb
UsedVram ==
  MapThenSumSet(LAMBDA m : VramGb[m],
                {m \in Loaded : state[managers[m]] \in {"LOADING", "READY"}})

\* Mutation of HasCapacityFor: the models still loading are not counted.
HasCapacityIgnoringLoads(m) ==
  /\ MapThenSumSet(LAMBDA x : VramGb[x], {x \in Loaded : state[managers[x]] = "READY"})
       + VramGb[m] <= Budget
  /\ portPool # <<>>

HasCapacityFor(m) == UsedVram + VramGb[m] <= Budget /\ portPool # <<>>

\* Mutation of IdleModels: the pinned models are candidates too.
ReadyModels(m) == {x \in Loaded \ {m} : state[managers[x]] = "READY"}

\* The candidates of _evict_lru_idle(exclude = m), and its choice among them.
IdleModels(m) ==
  {x \in Loaded \ {m} : state[managers[x]] = "READY" /\ ~Pinned(managers[x])}

LeastRecentlyUsed(x, models) ==
  x \in models /\ \A y \in models : <<y, x>> \notin older

\* _has_temporary_capacity_blocker
TemporaryBlocker(m) ==
  \E x \in Loaded \ {m} :
    \/ state[managers[x]] = "LOADING"
    \/ state[managers[x]] = "READY" /\ Pinned(managers[x])

\* A ServerManager nobody refers to any more: the next object to be created.
\* (A request forgets the victim of its eviction once that is UNLOADED.)
Fresh(i) ==
  /\ state[i] = "UNLOADED" /\ process[i] = "none" /\ loadTask[i] = "none"
  /\ ~InPool(i)
  /\ \A r \in Request : handle[r] = i => pc[r] = "evicting"
  /\ \A a \in Admin : adminHandle[a] # i
  /\ \A u \in Unloader : unloaderHandle[u] # i

-----------------------------------------------------------------------------
(* Updating the pool                                                       *)

\* manager._last_request_time = now
Touch(m) == older' = {p \in older : p[1] # m} \cup {<<x, m>> : x \in Loaded \ {m}}

\* Mutation of Release: the port of the manager is not returned.
ReleaseLosesPort(m, i) ==
  IF m # None /\ managers[m] = i
  THEN /\ managers' = [managers EXCEPT ![m] = None]
       /\ allocatedPorts' = [allocatedPorts EXCEPT ![m] = None]
       /\ older' = {p \in older : m \notin {p[1], p[2]}}
       /\ UNCHANGED <<portPool, modelOf, portOf>>
  ELSE UNCHANGED poolVars

\* Mutation of Release: no identity guard, so a second release returns nothing.
ReleaseTwice(m, i) ==
  /\ managers' = [managers EXCEPT ![m] = None]
  /\ portPool' = Append(portPool, allocatedPorts[m])
  /\ allocatedPorts' = [allocatedPorts EXCEPT ![m] = None]
  /\ older' = {p \in older : m \notin {p[1], p[2]}}
  /\ UNCHANGED <<modelOf, portOf>>

\* _release_manager(m, i): only the current manager gives its port back.
Release(m, i) ==
  IF m # None /\ managers[m] = i
  THEN /\ managers' = [managers EXCEPT ![m] = None]
       /\ portPool' = Append(portPool, allocatedPorts[m])
       /\ allocatedPorts' = [allocatedPorts EXCEPT ![m] = None]
       /\ older' = {p \in older : m \notin {p[1], p[2]}}
       /\ UNCHANGED <<modelOf, portOf>>
  ELSE UNCHANGED poolVars

CondFree == condHolder = None

Sleeping == {r \in Request : pc[r] \in {"waitUnload", "waitTurn"}}

Queued(r) == \E k \in 1..Len(capacityWaiters) : capacityWaiters[k] = r

DropTicket(queue, r) ==
  LET k == CHOOSE j \in 1..Len(queue) : queue[j] = r
  IN  [j \in 1..(Len(queue) - 1) |-> IF j < k THEN queue[j] ELSE queue[j + 1]]

\* Mutation of LeaveCondition: the ticket stays in the queue.
LeaveConditionKeepsTicket(r) ==
  /\ condHolder' = None
  /\ woken' = (woken \cup Sleeping) \ {r}
  /\ UNCHANGED <<capacityWaiters, notifyPending>>

\* The finally block of _ensure_capacity, and leaving "async with _capacity_cond".
LeaveCondition(r) ==
  /\ condHolder' = None
  /\ IF Queued(r)
     THEN /\ capacityWaiters' = DropTicket(capacityWaiters, r)
          /\ woken' = (woken \cup Sleeping) \ {r}
     ELSE /\ woken' = woken \ {r}
          /\ UNCHANGED capacityWaiters
  /\ UNCHANGED notifyPending

\* r's local variables once it waits at "where" for the manager h.
Goto(r, where, h) ==
  /\ pc' = [pc EXCEPT ![r] = where]
  /\ handle' = [handle EXCEPT ![r] = h]

\* The request is over: an error, or the end of a pre-load.
Over(r) ==
  /\ Goto(r, "idle", None)
  /\ target' = [target EXCEPT ![r] = None]
  /\ attempt' = [attempt EXCEPT ![r] = 0]
  /\ forceExtra' = [forceExtra EXCEPT ![r] = FALSE]

\* ensure_model_loaded returns i: the proxy pins it before any other await.
Obtain(r, i) ==
  IF r \in Preload
  THEN Over(r)
  ELSE /\ Goto(r, "serving", i)
       /\ attempt' = [attempt EXCEPT ![r] = 0]
       /\ forceExtra' = [forceExtra EXCEPT ![r] = FALSE]
       /\ UNCHANGED target

Unlock(m) == modelLock' = [modelLock EXCEPT ![m] = None]

-----------------------------------------------------------------------------
(* A request: ensure_model_loaded                                          *)

\* First admission check, before model_lock.
StartRequest(r, m) ==
  /\ pc[r] = "idle"
  /\ Admitted(m)
  /\ pc' = [pc EXCEPT ![r] = "modelLock"]
  /\ target' = [target EXCEPT ![r] = m]
  /\ UNCHANGED <<smVars, poolVars, modelLock, condVars, gateVars, handle, attempt,
                 forceExtra, adminVars, allVars>>

\* With model_lock: refused, served by a READY manager, or on to the pool.
EnterModel(r) ==
  LET m == target[r]
      i == managers[m]
  IN  /\ pc[r] = "modelLock"
      /\ modelLock[m] = None
      /\ \/ /\ ~Admitted(m)
            /\ Over(r)
            /\ UNCHANGED <<modelLock, older>>
         \/ /\ Admitted(m) /\ i # None /\ state[i] = "READY"
            /\ Touch(m)
            /\ Obtain(r, i)
            /\ UNCHANGED modelLock
         \/ /\ Admitted(m) /\ (i # None => state[i] # "READY")
            /\ modelLock' = [modelLock EXCEPT ![m] = r]
            /\ pc' = [pc EXCEPT ![r] = "capacity"]
            /\ UNCHANGED <<target, handle, attempt, forceExtra, older>>
      /\ UNCHANGED <<smVars, managers, allocatedPorts, portPool, modelOf, portOf,
                     condVars, gateVars, adminVars, allVars>>

\* r holds _capacity_cond at the head of _wait_for_unload_locked's loop.
AtUnloadCheck(r) ==
  /\ CondFree
  /\ \/ pc[r] = "capacity"
     \/ pc[r] = "waitUnload" /\ r \in woken /\ Admitted(target[r])

Unloading(m) == managers[m] # None /\ state[managers[m]] = "UNLOADING"

\* The model is being unloaded: wait for its port and its pool entry.
WaitForUnload(r) ==
  /\ AtUnloadCheck(r)
  /\ Unloading(target[r])
  /\ QueueEnabled
  /\ pc' = [pc EXCEPT ![r] = "waitUnload"]
  /\ woken' = woken \ {r}
  /\ UNCHANGED <<smVars, poolVars, modelLock, condHolder, capacityWaiters, notifyPending,
                 gateVars, target, handle, attempt, forceExtra, adminVars, allVars>>

-----------------------------------------------------------------------------
(* A request: _ensure_capacity                                             *)

\* r evaluates its chances under _capacity_cond: on arrival, on a wake-up, or
\* when the victim it was evicting is gone.
AtCapacityCheck(r) ==
  \/ AtUnloadCheck(r) /\ managers[target[r]] = None
  \/ CondFree /\ pc[r] = "waitTurn" /\ r \in woken
  \/ pc[r] = "evicting" /\ state[handle[r]] # "UNLOADING"

MyTurn(r) ==
  IF Queued(r) THEN capacityWaiters[1] = r ELSE capacityWaiters = <<>>

Fits(m) == VramGb[m] <= Budget

\* The loop re-reads the admission gates, except right after an eviction.
MayGoOn(r) == Fits(target[r]) /\ (pc[r] = "evicting" \/ Admitted(target[r]))

\* An eviction beyond the estimated budget is still owed (a CUDA refusal).
OwesEviction(r) ==
  /\ forceExtra[r]
  /\ IdleModels(target[r]) # {} \/ TemporaryBlocker(target[r])

CanBuild(r) == MyTurn(r) /\ HasCapacityFor(target[r]) /\ ~OwesEviction(r)

MustWait(r) ==
  \/ ~MyTurn(r)
  \/ IdleModels(target[r]) = {} /\ ~CanBuild(r)

\* _evict_lru_idle: unload the victim while keeping _capacity_cond.
EvictLru(r, x) ==
  /\ AtCapacityCheck(r)
  /\ MayGoOn(r)
  /\ MyTurn(r)
  /\ forceExtra[r] \/ ~HasCapacityFor(target[r])
  /\ LeastRecentlyUsed(x, IdleModels(target[r]))
  /\ BeginUnload(managers[x])
  /\ condHolder' = r
  /\ woken' = woken \ {r}
  /\ Goto(r, "evicting", managers[x])
  /\ forceExtra' = [forceExtra EXCEPT ![r] = FALSE]
  /\ UNCHANGED <<poolVars, modelLock, capacityWaiters, notifyPending, gateVars, target,
                 attempt, adminVars, allVars>>

\* Capacity found: take a port, create the manager, and start loading it.
CreateManager(r, i) ==
  LET m == target[r]
      port == Head(portPool)
  IN  /\ AtCapacityCheck(r)
      /\ Fits(m) /\ Admitted(m)
      /\ CanBuild(r)
      /\ Fresh(i)
      /\ portPool' = Tail(portPool)
      /\ allocatedPorts' = [allocatedPorts EXCEPT ![m] = port]
      /\ managers' = [managers EXCEPT ![m] = i]
      /\ modelOf' = [modelOf EXCEPT ![i] = m]
      /\ portOf' = [portOf EXCEPT ![i] = port]
      /\ BeginLoad(i)
      /\ Goto(r, "waitReady", i)
      /\ forceExtra' = [forceExtra EXCEPT ![r] = FALSE]
      /\ LeaveCondition(r)
      /\ UNCHANGED <<older, modelLock, gateVars, target, attempt, adminVars, allVars>>

\* Not now: keep the ticket, or take one, and sleep.
QueueUp(r) ==
  /\ AtCapacityCheck(r)
  /\ MayGoOn(r) /\ MustWait(r)
  /\ QueueEnabled
  /\ Queued(r) \/ Len(capacityWaiters) < MaxWaiters
  /\ capacityWaiters' = IF Queued(r) THEN capacityWaiters ELSE Append(capacityWaiters, r)
  /\ condHolder' = None
  /\ woken' = woken \ {r}
  /\ Goto(r, "waitTurn", None)
  /\ forceExtra' = [forceExtra EXCEPT
                      ![r] = IF MyTurn(r) THEN OwesEviction(r) ELSE forceExtra[r]]
  /\ UNCHANGED <<smVars, poolVars, modelLock, notifyPending, gateVars, target, attempt,
                 adminVars, allVars>>

\* The exception that leaves _capacity_cond, model_lock and the gateway.
Fail(r) ==
  /\ Over(r)
  /\ Unlock(target[r])
  /\ LeaveCondition(r)
  /\ UNCHANGED <<smVars, poolVars, gateVars, adminVars, allVars>>

\* The model cannot fit, its gate has closed, or there is no queue to wait in.
Refuse(r) ==
  /\ \/ AtUnloadCheck(r) /\ Unloading(target[r]) /\ ~QueueEnabled
     \/ CondFree /\ pc[r] = "waitUnload" /\ r \in woken /\ ~Admitted(target[r])
     \/ AtCapacityCheck(r) /\ ~MayGoOn(r)
     \/ AtCapacityCheck(r) /\ CanBuild(r) /\ ~Admitted(target[r])
     \/ /\ AtCapacityCheck(r) /\ MayGoOn(r) /\ MustWait(r)
        /\ ~QueueEnabled \/ (~Queued(r) /\ Len(capacityWaiters) >= MaxWaiters)
  /\ Fail(r)

\* Mutation of QueueTimeout: only the wait for an unload is bounded.
QueueTimeoutOfUnload(r) ==
  /\ CondFree
  /\ pc[r] = "waitUnload"
  /\ Fail(r)

\* capacity_queue_timeout_seconds expired; the sleeper takes the lock again.
QueueTimeout(r) ==
  /\ CondFree
  /\ pc[r] \in {"waitUnload", "waitTurn"}
  /\ Fail(r)

-----------------------------------------------------------------------------
(* A request: the load, and what follows                                   *)

LoadSucceeded(i) == loadError[i] = "none" /\ state[i] = "READY"

\* The waiter of ensure_loaded resumes on a READY manager that is still admitted.
ObtainLoaded(r) ==
  LET i == handle[r]
  IN  /\ pc[r] = "waitReady"
      /\ readyEvent[i]
      /\ LoadSucceeded(i) /\ Admitted(target[r])
      /\ IF managers[target[r]] = i THEN Touch(target[r]) ELSE UNCHANGED older
      /\ Obtain(r, i)
      /\ Unlock(target[r])
      /\ UNCHANGED <<smVars, managers, allocatedPorts, portPool, modelOf, portOf,
                     condVars, gateVars, adminVars, allVars>>

\* Mutation of LoadRefused: the failed manager is not forgotten.
LoadRefusedKeepsManager(r) ==
  /\ pc[r] = "waitReady"
  /\ readyEvent[handle[r]]
  /\ ~(LoadSucceeded(handle[r]) /\ Admitted(target[r]))
  /\ Over(r)
  /\ Unlock(target[r])
  /\ UNCHANGED <<smVars, poolVars, condVars, gateVars, adminVars, allVars>>

\* ... or gets an exception: the load failed, an unload won, the gate closed.
LoadRefused(r) ==
  LET i == handle[r]
  IN  /\ pc[r] = "waitReady"
      /\ readyEvent[i]
      /\ ~(LoadSucceeded(i) /\ Admitted(target[r]))
      /\ Goto(r, IF loadError[i] = "capacity" THEN "forgetCapacity" ELSE "forget", i)
      /\ UNCHANGED <<smVars, poolVars, modelLock, condVars, gateVars, target, attempt,
                     forceExtra, adminVars, allVars>>

\* BeginUnload, with the notification the cancelled load task leaves behind.
StopManager(i) ==
  /\ BeginUnload(i)
  /\ notifyPending' = (notifyPending \/ loadTask[i] # "none")
  /\ UNCHANGED <<condHolder, capacityWaiters, woken>>

\* ensure_loaded ran out of time: it unloads the manager before raising.
LoadTimeout(r) ==
  /\ pc[r] = "waitReady"
  /\ ~readyEvent[handle[r]]
  /\ StopManager(handle[r])
  /\ pc' = [pc EXCEPT ![r] = "timeoutUnload"]
  /\ UNCHANGED <<poolVars, modelLock, gateVars, target, handle, attempt, forceExtra,
                 adminVars, allVars>>

\* _forget_failed_manager, then one retry after a CUDA refusal, or the error.
ForgetFailedManager(r) ==
  LET m == target[r]
  IN  /\ CondFree
      /\ \/ pc[r] \in {"forget", "forgetCapacity"}
         \/ pc[r] = "timeoutUnload" /\ state[handle[r]] # "UNLOADING"
      /\ Release(m, handle[r])
      /\ woken' = woken \cup Sleeping
      /\ IF pc[r] = "forgetCapacity" /\ attempt[r] = 0 /\ Admitted(m)
         THEN /\ Goto(r, "capacity", None)
              /\ attempt' = [attempt EXCEPT ![r] = 1]
              /\ forceExtra' = [forceExtra EXCEPT ![r] = TRUE]
              /\ UNCHANGED <<target, modelLock>>
         ELSE Over(r) /\ Unlock(m)
      /\ UNCHANGED <<smVars, condHolder, capacityWaiters, notifyPending, gateVars,
                     adminVars, allVars>>

\* The response ends: unpin() refreshes the idle window and, at zero, wakes
\* the queue.
FinishRequest(r) ==
  LET i == handle[r]
  IN  /\ pc[r] = "serving"
      /\ Over(r)
      /\ IF managers[target[r]] = i THEN Touch(target[r]) ELSE UNCHANGED older
      /\ notifyPending' =
           (notifyPending \/ \A q \in Request \ {r} : ~(pc[q] = "serving" /\ handle[q] = i))
      /\ UNCHANGED <<smVars, managers, allocatedPorts, portPool, modelOf, portOf,
                     modelLock, condHolder, capacityWaiters, woken, gateVars,
                     adminVars, allVars>>

-----------------------------------------------------------------------------
(* The ServerManagers at work, with their callbacks into the pool          *)

\* Another server that still listens on i's port.
Squatter(i) == \E j \in Instance \ {i} : portOf[j] = portOf[i] /\ process[j] = "alive"

\* The waiter of i has been woken but has not run yet.  It runs in the next
\* turns of the loop, long before a timer armed at READY can expire.
ResumePending(i) == \E r \in Request : pc[r] = "waitReady" /\ handle[r] = i

othersUnchanged ==
  UNCHANGED <<modelLock, condHolder, capacityWaiters, woken, gateVars, reqVars,
              adminVars, allVars>>

SpawnServer(i) == StartProcess(i) /\ UNCHANGED <<poolVars, notifyPending>> /\ othersUnchanged

\* The health probe only knows the port: any server that listens there answers.
ServerReady(i) ==
  /\ BecomeReady(i)
  /\ process[i] = "alive" \/ Squatter(i)
  /\ IF InPool(i) THEN Touch(modelOf[i]) ELSE UNCHANGED older
  /\ notifyPending' = TRUE
  /\ UNCHANGED <<managers, allocatedPorts, portPool, modelOf, portOf>>
  /\ othersUnchanged

ServerLoadRaises(i) ==
  /\ \E error \in LoadError : LoadRaises(i, error)
  /\ UNCHANGED <<poolVars, notifyPending>>
  /\ othersUnchanged

ServerLoadFailed(i) ==
  /\ LoadFailed(i)
  /\ notifyPending' = TRUE
  /\ UNCHANGED poolVars
  /\ othersUnchanged

ServerExits(i) == ProcessExits(i) /\ UNCHANGED <<poolVars, notifyPending>> /\ othersUnchanged

\* unload() is over: on_unload releases the manager if it is still current.
UnloadDone(i) ==
  /\ FinishUnload(i)
  /\ Release(modelOf[i], i)
  /\ notifyPending' = TRUE
  /\ othersUnchanged

\* Mutation of CrashNoticed: nobody is told that the place is free.
CrashNoticedSilently(i) ==
  /\ ~ResumePending(i)
  /\ MarkCrashed(i)
  /\ Release(modelOf[i], i)
  /\ UNCHANGED notifyPending
  /\ othersUnchanged

\* _idle_monitor: a crash is noticed, an idle model unloaded, never a pinned one.
CrashNoticed(i) ==
  /\ ~ResumePending(i)
  /\ MarkCrashed(i)
  /\ Release(modelOf[i], i)
  /\ notifyPending' = TRUE
  /\ othersUnchanged

\* Mutation of IdleUnload: the monitor gives up on a manager the pool replaced.
IdleUnloadOfCurrent(i) ==
  /\ state[i] = "READY" /\ process[i] = "alive"
  /\ InPool(i) /\ ~Pinned(i) /\ ~ResumePending(i)
  /\ BeginUnload(i)
  /\ UNCHANGED <<poolVars, notifyPending>>
  /\ othersUnchanged

IdleUnload(i) ==
  /\ state[i] = "READY" /\ process[i] = "alive"
  /\ ~Pinned(i) /\ ~ResumePending(i)
  /\ BeginUnload(i)
  /\ UNCHANGED <<poolVars, notifyPending>>
  /\ othersUnchanged

\* _notify_capacity_waiters
NotifyWaiters ==
  /\ notifyPending
  /\ CondFree
  /\ notifyPending' = FALSE
  /\ woken' = woken \cup Sleeping
  /\ UNCHANGED <<smVars, poolVars, modelLock, condHolder, capacityWaiters, gateVars,
                 reqVars, adminVars, allVars>>

-----------------------------------------------------------------------------
(* Admin routes: unload_model, and the registry change that may follow it  *)

AdminStart(a, m, op) ==
  /\ adminPc[a] = "idle"
  /\ adminPc' = [adminPc EXCEPT ![a] = "modelLock"]
  /\ adminModel' = [adminModel EXCEPT ![a] = m]
  /\ adminOp' = [adminOp EXCEPT ![a] = op]
  /\ UNCHANGED <<smVars, poolVars, modelLock, condVars, gateVars, reqVars, adminHandle,
                 allVars>>

AdminLock(a) ==
  /\ adminPc[a] = "modelLock"
  /\ modelLock[adminModel[a]] = None
  /\ modelLock' = [modelLock EXCEPT ![adminModel[a]] = a]
  /\ adminPc' = [adminPc EXCEPT ![a] = "lookup"]
  /\ UNCHANGED <<smVars, poolVars, condVars, gateVars, reqVars, adminModel, adminOp,
                 adminHandle, allVars>>

\* Mutation of AdminReturn: the registry changes even when the unload is refused.
AdminReturnAlwaysApplies(a, done) ==
  LET m == adminModel[a]
  IN  /\ adminPc' = [adminPc EXCEPT ![a] = "idle"]
      /\ adminModel' = [adminModel EXCEPT ![a] = None]
      /\ adminOp' = [adminOp EXCEPT ![a] = None]
      /\ adminHandle' = [adminHandle EXCEPT ![a] = None]
      /\ Unlock(m)
      /\ enabled' = IF adminOp[a].disable THEN enabled \ {m} ELSE enabled

\* The route returns.  "disable" also stands for a deletion: the registry
\* changes only once nothing refused the unload, in the same loop turn.
AdminReturn(a, done) ==
  LET m == adminModel[a]
  IN  /\ adminPc' = [adminPc EXCEPT ![a] = "idle"]
      /\ adminModel' = [adminModel EXCEPT ![a] = None]
      /\ adminOp' = [adminOp EXCEPT ![a] = None]
      /\ adminHandle' = [adminHandle EXCEPT ![a] = None]
      /\ Unlock(m)
      /\ enabled' = IF done /\ adminOp[a].disable THEN enabled \ {m} ELSE enabled

\* manager.unload() by the route, or nothing to do: an unload already under way
\* is not awaited.  "closed" is _draining as the route has left it so far.
AdminProceed(a, i, closed) ==
  IF Unloadable(i)
  THEN /\ StopManager(i)
       /\ draining' = closed
       /\ adminPc' = [adminPc EXCEPT ![a] = "unloading"]
       /\ adminHandle' = [adminHandle EXCEPT ![a] = i]
       /\ UNCHANGED <<adminModel, adminOp, modelLock, enabled>>
  ELSE /\ AdminReturn(a, TRUE)
       /\ draining' = closed \ {adminModel[a]}
       /\ UNCHANGED <<smVars, condVars>>

\* Quarantine the model; the drain returns at once if nothing is pinned.
AdminQuarantine(a) ==
  LET m == adminModel[a]
      i == managers[m]
  IN  /\ adminPc[a] = "lookup"
      /\ CondFree
      /\ \/ /\ i = None
            /\ AdminReturn(a, TRUE)
            /\ UNCHANGED <<smVars, condVars, draining>>
         \/ /\ i # None /\ Pinned(i)
            /\ draining' = draining \cup {m}
            /\ adminPc' = [adminPc EXCEPT ![a] = "drain"]
            /\ UNCHANGED <<smVars, condVars, adminModel, adminOp, adminHandle, modelLock,
                           enabled>>
         \/ /\ i # None /\ ~Pinned(i)
            /\ AdminProceed(a, i, draining \cup {m})
      /\ UNCHANGED <<poolVars, bootstrapBlocked, reqVars, allVars>>

\* Mutation of AdminDrained: the end of the drain is not checked.
AdminDrainedAnyway(a) ==
  /\ adminPc[a] = "drain"
  /\ managers[adminModel[a]] # None
  /\ AdminProceed(a, managers[adminModel[a]], draining)
  /\ UNCHANGED <<poolVars, bootstrapBlocked, reqVars, allVars>>

\* The drain is over: drained, or timed out with force.
AdminDrained(a) ==
  LET i == managers[adminModel[a]]
  IN  /\ adminPc[a] = "drain"
      /\ i # None
      /\ ~Pinned(i) \/ adminOp[a].force
      /\ AdminProceed(a, i, draining)
      /\ UNCHANGED <<poolVars, bootstrapBlocked, reqVars, allVars>>

\* The model has gone meanwhile, its unload is finished, or ModelBusyError.
AdminEnd(a) ==
  LET i == managers[adminModel[a]]
  IN  /\ \/ adminPc[a] = "drain" /\ i = None /\ AdminReturn(a, TRUE)
         \/ /\ adminPc[a] = "unloading" /\ state[adminHandle[a]] # "UNLOADING"
            /\ AdminReturn(a, TRUE)
         \/ /\ adminPc[a] = "drain" /\ i # None /\ Pinned(i) /\ ~adminOp[a].force
            /\ AdminReturn(a, FALSE)
      /\ draining' = draining \ {adminModel[a]}
      /\ UNCHANGED <<smVars, poolVars, condVars, bootstrapBlocked, reqVars, allVars>>

\* PATCH enabled=true
EnableModel(m) ==
  /\ m \notin enabled
  /\ enabled' = enabled \cup {m}
  /\ UNCHANGED <<smVars, poolVars, modelLock, condVars, draining, bootstrapBlocked,
                 reqVars, adminVars, allVars>>

\* block_bootstrap_admission and unblock_bootstrap_admission: no lock, no wait.
BlockBootstrap(m) ==
  /\ bootstrapBlocked' = bootstrapBlocked \cup {m}
  /\ m \notin bootstrapBlocked
  /\ notifyPending' = TRUE
  /\ UNCHANGED <<smVars, poolVars, modelLock, condHolder, capacityWaiters, woken, draining,
                 enabled, reqVars, adminVars, allVars>>

UnblockBootstrap(m) ==
  /\ m \in bootstrapBlocked
  /\ bootstrapBlocked' = bootstrapBlocked \ {m}
  /\ notifyPending' = TRUE
  /\ UNCHANGED <<smVars, poolVars, modelLock, condHolder, capacityWaiters, woken, draining,
                 enabled, reqVars, adminVars, allVars>>

-----------------------------------------------------------------------------
(* unload_all_models: POST /admin/unload, and shutdown with force          *)

Busy(models) == \E m \in models \cap Loaded : Pinned(managers[m])

\* u has left its critical section: "closed" minus what it had quarantined.
UnloaderReturn(u, mine, closed) ==
  /\ draining' = closed \ mine
  /\ unloaderPc' = [unloaderPc EXCEPT ![u] = "idle"]
  /\ unloaderForce' = [unloaderForce EXCEPT ![u] = FALSE]
  /\ quarantined' = [quarantined EXCEPT ![u] = {}]
  /\ remaining' = [remaining EXCEPT ![u] = {}]
  /\ unloaderHandle' = [unloaderHandle EXCEPT ![u] = None]

\* The loop over the models that were loaded when the drain ended: start the
\* next unload that is not a no-op, or return.
UnloadNext(u, force, mine, models, closed) ==
  LET todo == {m \in models \cap Loaded : Unloadable(managers[m])}
  IN  IF todo = {}
      THEN UnloaderReturn(u, mine, closed) /\ UNCHANGED <<smVars, condVars>>
      ELSE \E m \in todo :
             /\ StopManager(managers[m])
             /\ draining' = closed
             /\ unloaderPc' = [unloaderPc EXCEPT ![u] = "unloading"]
             /\ unloaderForce' = [unloaderForce EXCEPT ![u] = force]
             /\ quarantined' = [quarantined EXCEPT ![u] = mine]
             /\ remaining' = [remaining EXCEPT ![u] = models \ {m}]
             /\ unloaderHandle' = [unloaderHandle EXCEPT ![u] = managers[m]]

\* Quarantine what is loaded, then drain it: at once if nothing is pinned.
StartUnloadAll(u, force) ==
  /\ unloaderPc[u] = "idle"
  /\ IF Busy(Loaded)
     THEN /\ unloaderPc' = [unloaderPc EXCEPT ![u] = "drain"]
          /\ unloaderForce' = [unloaderForce EXCEPT ![u] = force]
          /\ quarantined' = [quarantined EXCEPT ![u] = Loaded]
          /\ draining' = draining \cup Loaded
          /\ UNCHANGED <<smVars, condVars, remaining, unloaderHandle>>
     ELSE UnloadNext(u, force, Loaded, Loaded, draining \cup Loaded)
  /\ UNCHANGED <<poolVars, modelLock, bootstrapBlocked, enabled, reqVars, adminVars>>

\* Drained, or timed out with force; then each unload is awaited in turn.
UnloadAll(u) ==
  /\ \/ /\ unloaderPc[u] = "drain"
        /\ ~Busy(quarantined[u]) \/ unloaderForce[u]
        /\ UnloadNext(u, unloaderForce[u], quarantined[u], Loaded, draining)
     \/ /\ unloaderPc[u] = "unloading"
        /\ state[unloaderHandle[u]] # "UNLOADING"
        /\ UnloadNext(u, unloaderForce[u], quarantined[u], remaining[u], draining)
  /\ UNCHANGED <<poolVars, modelLock, bootstrapBlocked, enabled, reqVars, adminVars>>

\* Mutation of UnloadAllBusy: the test of "force" is inverted.
UnloadAllBusyWhenForced(u) ==
  /\ unloaderPc[u] = "drain"
  /\ Busy(quarantined[u]) /\ unloaderForce[u]
  /\ UnloaderReturn(u, quarantined[u], draining)
  /\ UNCHANGED <<smVars, poolVars, modelLock, condVars, bootstrapBlocked, enabled, reqVars,
                 adminVars>>

\* ModelBusyError: nothing is unloaded.
UnloadAllBusy(u) ==
  /\ unloaderPc[u] = "drain"
  /\ Busy(quarantined[u]) /\ ~unloaderForce[u]
  /\ UnloaderReturn(u, quarantined[u], draining)
  /\ UNCHANGED <<smVars, poolVars, modelLock, condVars, bootstrapBlocked, enabled, reqVars,
                 adminVars>>

-----------------------------------------------------------------------------
RequestStep(r) ==
  \/ EnterModel(r)
  \/ WaitForUnload(r)
  \/ \E x \in Model : EvictLru(r, x)
  \/ \E i \in Instance : CreateManager(r, i)
  \/ QueueUp(r)
  \/ Refuse(r)
  \/ ObtainLoaded(r)
  \/ LoadRefused(r)
  \/ ForgetFailedManager(r)

ServerStep(i) ==
  \/ SpawnServer(i) \/ ServerReady(i) \/ ServerLoadRaises(i) \/ ServerLoadFailed(i)
  \/ ServerExits(i) \/ UnloadDone(i) \/ CrashNoticed(i) \/ IdleUnload(i)

AdminStep(a) == AdminLock(a) \/ AdminQuarantine(a) \/ AdminDrained(a) \/ AdminEnd(a)

Next ==
  \/ \E r \in Request, m \in Model : StartRequest(r, m)
  \/ \E r \in Request : RequestStep(r)
  \/ \E r \in Request : QueueTimeout(r)
  \/ \E r \in Request : LoadTimeout(r)
  \/ \E r \in Request : FinishRequest(r)
  \/ \E i \in Instance : ServerStep(i)
  \/ NotifyWaiters
  \/ \E a \in Admin, m \in Model, op \in AdminOp : AdminStart(a, m, op)
  \/ \E a \in Admin : AdminStep(a)
  \/ \E m \in Model : EnableModel(m)
  \/ \E m \in Provisional : BlockBootstrap(m)
  \/ \E m \in Provisional : UnblockBootstrap(m)
  \/ \E u \in Unloader, force \in ForceAll : StartUnloadAll(u, force)
  \/ \E u \in Unloader : UnloadAll(u)
  \/ \E u \in Unloader : UnloadAllBusy(u)

\* asyncio runs every ready task, its locks are FIFO (hence SF where a lock is
\* taken), timers fire, drains are bounded, SIGKILL kills, and the idle monitor
\* polls for ever.  Generations need not end and nobody has to send requests.
Fairness ==
  /\ \A r \in Request :
       /\ SF_vars(RequestStep(r))
       /\ SF_vars(QueueTimeout(r))
  /\ \A i \in Instance :
       /\ WF_vars(SpawnServer(i) \/ ServerReady(i) \/ ServerLoadRaises(i))
       /\ WF_vars(ServerLoadFailed(i))
       /\ WF_vars(BeingKilled(i) /\ ServerExits(i))
       /\ WF_vars(UnloadDone(i))
       /\ WF_vars(CrashNoticed(i))
       /\ WF_vars(IdleUnload(i))
  /\ SF_vars(NotifyWaiters)
  /\ \A a \in Admin : SF_vars(AdminStep(a))
  /\ \A u \in Unloader : WF_vars(UnloadAll(u) \/ UnloadAllBusy(u))

Spec     == Init /\ [][Next]_vars
FairSpec == Spec /\ Fairness

-----------------------------------------------------------------------------
(* Safety                                                                  *)

PortsInPool == {portPool[k] : k \in 1..Len(portPool)}

\* Every port is in the pool, once, or allocated to the current manager of one
\* model: none is lost, none is handed out twice (_release_manager's identity
\* guard; the pool the tests of test_local_unload_race.py call consistent).
PoolConsistent ==
  /\ \A j, k \in 1..Len(portPool) : portPool[j] = portPool[k] => j = k
  /\ \A m \in Model :
       /\ managers[m] = None <=> allocatedPorts[m] = None
       /\ managers[m] # None =>
            /\ modelOf[managers[m]] = m
            /\ portOf[managers[m]] = allocatedPorts[m]
            /\ allocatedPorts[m] \notin PortsInPool
  /\ \A m, n \in Model :
       allocatedPorts[m] # None /\ allocatedPorts[m] = allocatedPorts[n] => m = n
  /\ Port = PortsInPool \cup {allocatedPorts[m] : m \in Loaded}

\* A port is returned only when its llama-server is dead: no second server is
\* ever started on a port that still answers (architecture.md, "Requete pendant
\* un dechargement": the health probe must not validate another model).
OneServerPerPort ==
  \A i \in Instance :
    process[i] = "alive" =>
      /\ portOf[i] \notin PortsInPool
      /\ \A j \in Instance \ {i} : process[j] = "alive" => portOf[j] # portOf[i]

\* The estimated VRAM of the loading and loaded models never exceeds the budget,
\* whatever is evicted, queued, retried or reloaded meanwhile (_ensure_capacity).
BudgetRespected == UsedVram <= Budget

\* The head of the capacity queue never sleeps on a free place: if nobody is
\* about to wake it and no unload is under way, it could not proceed anyway.
NoLostWakeup ==
  \A r \in Request :
    /\ Queued(r) /\ capacityWaiters[1] = r
    /\ pc[r] = "waitTurn" /\ r \notin woken
    /\ CondFree /\ ~notifyPending
    /\ \A m \in Model : ~Unloading(m)
    => MustWait(r)

\* A ticket belongs to a request that is still in the queue: no exit of
\* _ensure_capacity leaves one behind to block everybody after it.
TicketsAreLive ==
  /\ Len(capacityWaiters) <= MaxWaiters
  /\ \A j, k \in 1..Len(capacityWaiters) : capacityWaiters[j] = capacityWaiters[k] => j = k
  /\ \A r \in Request :
       /\ pc[r] = "waitTurn" => Queued(r)
       /\ Queued(r) => pc[r] \in {"waitTurn", "evicting"}

\* A manager that is not READY yet is in the hands of the request that holds its
\* model_lock: nobody inherits a half-loaded manager without a capacity check.
LoadingHasOwner ==
  \A m \in Loaded :
    state[managers[m]] \in {"LOADING", "UNLOADED"} =>
      /\ modelLock[m] \in Request
      /\ handle[modelLock[m]] = managers[m]

\* Once PATCH enabled=false or DELETE has answered, the model serves no more and
\* is not being loaded, until it is enabled again.
DisabledNotServing ==
  \A m \in Loaded \ enabled : ~Unloadable(managers[m])

\* Only an explicit force takes a server away from the requests it is serving
\* (COR-004: never silently, neither by eviction nor by idleness nor by admin).
PinnedNeverUnloadedSilently ==
  [][\A i \in Instance :
       Pinned(i) /\ state[i] = "READY" /\ state'[i] = "UNLOADING" =>
         \/ \E a \in Admin : adminPc[a] = "drain" /\ adminOp[a].force
                               /\ managers[adminModel[a]] = i
         \/ \E u \in Unloader : unloaderPc[u] # "idle" /\ unloaderForce[u]]_vars

ServedOf(models) == {r \in Request : pc[r] = "serving" /\ target[r] \in models}

\* While a drain waits, the requests it waits for only become fewer: nothing new
\* is admitted on a quarantined model, so the drain converges (_draining).
DrainOnlyShrinks ==
  [][/\ \A a \in Admin :
          adminPc[a] = "drain" => ServedOf({adminModel[a]})' \subseteq ServedOf({adminModel[a]})
     /\ \A u \in Unloader :
          unloaderPc[u] = "drain" => ServedOf(quarantined[u])' \subseteq ServedOf(quarantined[u])]_vars

-----------------------------------------------------------------------------
(* Liveness                                                                *)

\* Every request that entered the gateway is served or refused: no lock, queue,
\* eviction or load keeps it for ever.
EveryRequestAnswered ==
  \A r \in Request : (pc[r] \notin {"idle", "serving"}) ~> (pc[r] \in {"idle", "serving"})

\* Every unload route answers, even when the generations it waits for never end:
\* the drains are bounded and no lock is held by a task that waits for it.
EveryUnloadAnswered ==
  /\ \A a \in Admin : (adminPc[a] # "idle") ~> (adminPc[a] = "idle")
  /\ \A u \in Unloader : (unloaderPc[u] # "idle") ~> (unloaderPc[u] = "idle")

\* A llama-server the pool has lost track of does not keep its VRAM for ever: its
\* own idle monitor ends it.
OrphanReaped ==
  \A i \in Instance :
    (process[i] = "alive" /\ ~InPool(i)) ~> (process[i] # "alive")
=============================================================================
