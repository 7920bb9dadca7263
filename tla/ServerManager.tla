---------------------------- MODULE ServerManager ----------------------------
(***************************************************************************)
(* gateway/server_manager.py: one ServerManager drives one llama-server    *)
(* sub-process through UNLOADED -> LOADING -> READY -> UNLOADING.          *)
(*                                                                         *)
(* The variables are functions over Instance, the ServerManager objects.   *)
(* An action is what one asyncio task does between two awaits; the         *)
(* sections under _state_lock contain no await that can block, so the lock *)
(* itself needs no variable.  The callers (pool, idle monitor) and the     *)
(* callbacks on_unload / on_capacity_change are the business of LocalPool, *)
(* which conjoins its own updates to these actions.                        *)
(***************************************************************************)

CONSTANT Instance           \* the ServerManager objects

VARIABLES
  state,        \* _state
  process,      \* _process: "none", "alive", or "dead" (returncode known)
  loadTask,     \* where _load_and_signal is: "none" when it is not running
  loadError,    \* _load_error: "none", a CUDA "capacity" refusal, or "other"
  readyEvent    \* _ready_event.is_set()

smVars == <<state, process, loadTask, loadError, readyEvent>>

ModelState == {"UNLOADED", "LOADING", "READY", "UNLOADING"}
LoadStage  == {"none", "starting", "probing", "failing"}
LoadError  == {"none", "capacity", "other"}

SMTypeOK ==
  /\ state \in [Instance -> ModelState]
  /\ process \in [Instance -> {"none", "alive", "dead"}]
  /\ loadTask \in [Instance -> LoadStage]
  /\ loadError \in [Instance -> LoadError]
  /\ readyEvent \in [Instance -> BOOLEAN]

SMInit ==
  /\ state = [i \in Instance |-> "UNLOADED"]
  /\ process = [i \in Instance |-> "none"]
  /\ loadTask = [i \in Instance |-> "none"]
  /\ loadError = [i \in Instance |-> "none"]
  /\ readyEvent = [i \in Instance |-> FALSE]

-----------------------------------------------------------------------------
(* Loading                                                                 *)

\* ensure_loaded on an UNLOADED manager: one coroutine creates the load task.
BeginLoad(i) ==
  /\ state[i] = "UNLOADED"
  /\ loadTask[i] = "none"
  /\ state' = [state EXCEPT ![i] = "LOADING"]
  /\ loadTask' = [loadTask EXCEPT ![i] = "starting"]
  /\ loadError' = [loadError EXCEPT ![i] = "none"]
  /\ readyEvent' = [readyEvent EXCEPT ![i] = FALSE]
  /\ UNCHANGED process

\* _verify_artifact_integrity passed and create_subprocess_exec returned.
StartProcess(i) ==
  /\ loadTask[i] = "starting"
  /\ loadTask' = [loadTask EXCEPT ![i] = "probing"]
  /\ process' = [process EXCEPT ![i] = "alive"]
  /\ UNCHANGED <<state, loadError, readyEvent>>

\* /health answered "ok" on the manager's port, and the load is still wanted.
BecomeReady(i) ==
  /\ loadTask[i] = "probing"
  /\ state[i] = "LOADING"
  /\ state' = [state EXCEPT ![i] = "READY"]
  /\ loadTask' = [loadTask EXCEPT ![i] = "none"]
  /\ readyEvent' = [readyEvent EXCEPT ![i] = TRUE]
  /\ UNCHANGED <<process, loadError>>

\* An exception in _load_and_signal: the artefact is refused before anything
\* runs, llama-server exits early (out of memory or not), or /health stays
\* silent until the timeout.  The handler then kills what is left.
LoadRaises(i, error) ==
  /\ \/ loadTask[i] = "starting" /\ error = "other"
     \/ loadTask[i] = "probing" /\ process[i] = "alive" /\ error = "other"
     \/ loadTask[i] = "probing" /\ process[i] = "dead" /\ error \in {"capacity", "other"}
  /\ loadTask' = [loadTask EXCEPT ![i] = "failing"]
  /\ loadError' = [loadError EXCEPT ![i] = error]
  /\ UNCHANGED <<state, process, readyEvent>>

\* ... and, once _kill_process has returned, publishes UNLOADED and the event.
LoadFailed(i) ==
  /\ loadTask[i] = "failing"
  /\ process[i] # "alive"
  /\ state' = [state EXCEPT ![i] = "UNLOADED"]
  /\ process' = [process EXCEPT ![i] = "none"]
  /\ loadTask' = [loadTask EXCEPT ![i] = "none"]
  /\ readyEvent' = [readyEvent EXCEPT ![i] = TRUE]
  /\ UNCHANGED loadError

-----------------------------------------------------------------------------
(* Unloading and crashes                                                   *)

\* unload() does nothing on an UNLOADED or UNLOADING manager.
Unloadable(i) == state[i] \in {"LOADING", "READY"}

\* Mutation of BeginUnload: the load task is not cancelled and probes on.
BeginUnloadKeepsProbing(i) ==
  /\ Unloadable(i)
  /\ state' = [state EXCEPT ![i] = "UNLOADING"]
  /\ readyEvent' = [readyEvent EXCEPT ![i] = TRUE]
  /\ UNCHANGED <<process, loadTask, loadError>>

\* Mutation of BeginUnload: the cancelled task never ran, nobody sets its event.
BeginUnloadWakesNobody(i) ==
  /\ Unloadable(i)
  /\ state' = [state EXCEPT ![i] = "UNLOADING"]
  /\ loadTask' = [loadTask EXCEPT ![i] = "none"]
  /\ UNCHANGED <<process, loadError, readyEvent>>

\* unload(): UNLOADING, then the load task is cancelled and its waiters woken.
BeginUnload(i) ==
  /\ Unloadable(i)
  /\ state' = [state EXCEPT ![i] = "UNLOADING"]
  /\ loadTask' = [loadTask EXCEPT ![i] = "none"]
  /\ readyEvent' = [readyEvent EXCEPT ![i] = TRUE]
  /\ UNCHANGED <<process, loadError>>

\* Mutation of FinishUnload: SIGTERM is sent and nobody awaits the exit.
FinishUnloadAtOnce(i) ==
  /\ state[i] = "UNLOADING"
  /\ state' = [state EXCEPT ![i] = "UNLOADED"]
  /\ UNCHANGED <<process, loadTask, loadError, readyEvent>>

\* unload(), after _kill_process: UNLOADED, then the on_unload callback.
FinishUnload(i) ==
  /\ state[i] = "UNLOADING"
  /\ process[i] # "alive"
  /\ state' = [state EXCEPT ![i] = "UNLOADED"]
  /\ process' = [process EXCEPT ![i] = "none"]
  /\ UNCHANGED <<loadTask, loadError, readyEvent>>

\* llama-server exits: under SIGTERM or SIGKILL, or by itself.
ProcessExits(i) ==
  /\ process[i] = "alive"
  /\ process' = [process EXCEPT ![i] = "dead"]
  /\ UNCHANGED <<state, loadTask, loadError, readyEvent>>

\* Someone has sent the process SIGTERM, and SIGKILL will follow.
BeingKilled(i) == state[i] = "UNLOADING" \/ loadTask[i] = "failing"

\* _idle_monitor found the process of a READY manager dead.
MarkCrashed(i) ==
  /\ state[i] = "READY"
  /\ process[i] = "dead"
  /\ state' = [state EXCEPT ![i] = "UNLOADED"]
  /\ process' = [process EXCEPT ![i] = "none"]
  /\ UNCHANGED <<loadTask, loadError, readyEvent>>

-----------------------------------------------------------------------------
SMStep(i) ==
  \/ BeginLoad(i)
  \/ StartProcess(i)
  \/ BecomeReady(i)
  \/ \E error \in LoadError : LoadRaises(i, error)
  \/ LoadFailed(i)
  \/ BeginUnload(i)
  \/ FinishUnload(i)
  \/ ProcessExits(i)
  \/ MarkCrashed(i)

SMNext == \E i \in Instance : SMStep(i)

\* The event loop runs every task that is not waiting, and a process that has
\* been sent SIGKILL exits.  Nobody has to ask for a load or an unload.
SMFairness ==
  \A i \in Instance :
    /\ WF_smVars(StartProcess(i) \/ BecomeReady(i)
                   \/ \E error \in LoadError : LoadRaises(i, error))
    /\ WF_smVars(LoadFailed(i))
    /\ WF_smVars(FinishUnload(i))
    /\ WF_smVars(BeingKilled(i) /\ ProcessExits(i))

SMSafety == SMInit /\ [][SMNext]_smVars
SMSpec   == SMSafety /\ SMFairness

-----------------------------------------------------------------------------
(* Properties                                                              *)

\* A process outlives every state but those that still own it: once a manager
\* is UNLOADED nothing of it runs, and a READY manager is never a phantom
\* whose process is gone and forgotten (_load_and_signal, unload).
ProcessOwned ==
  \A i \in Instance :
    /\ state[i] = "UNLOADED" => process[i] = "none"
    /\ state[i] = "READY" => process[i] # "none"

\* A load task runs exactly while the manager is LOADING: no coroutine goes on
\* probing after an unload, and no LOADING manager is left without the task
\* that will wake its waiters.
LoadTaskMatchesState ==
  \A i \in Instance : (loadTask[i] # "none") <=> (state[i] = "LOADING")

\* Every load comes to an end and wakes its waiters, and every unload comes to
\* an end and leaves no process behind, whatever happens.
TransitionsTerminate ==
  \A i \in Instance :
    /\ (state[i] = "LOADING") ~> readyEvent[i]
    /\ (state[i] = "UNLOADING") ~> (process[i] = "none")
=============================================================================
