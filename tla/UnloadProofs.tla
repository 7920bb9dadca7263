------------------------------ MODULE UnloadProofs ------------------------------
(***************************************************************************)
(* Loads and unloads in LocalPool, for any number of models, requests and  *)
(* admin tasks: who may take a server away, from whom, and what becomes of *)
(* a manager that is not ready.                                            *)
(***************************************************************************)
EXTENDS CapacityProofs

USE PoolAssumption

-----------------------------------------------------------------------------
(* Who moves                                                               *)

\* What a request may do.
RequestAction(r) ==
  \/ \E m \in Model : StartRequest(r, m)
  \/ RequestStep(r)
  \/ QueueTimeout(r)
  \/ LoadTimeout(r)
  \/ FinishRequest(r)

AdminAction(a) ==
  \/ \E m \in Model, op \in AdminOp : AdminStart(a, m, op)
  \/ AdminStep(a)

UnloaderAction(u) ==
  \/ \E force \in ForceAll : StartUnloadAll(u, force)
  \/ UnloadAll(u)
  \/ UnloadAllBusy(u)

\* Nobody in particular: the servers, the notification, the gates.
LoopAction ==
  \/ \E i \in Instance : ServerStep(i)
  \/ NotifyWaiters
  \/ \E m \in Model : EnableModel(m)
  \/ \E m \in Provisional : BlockBootstrap(m) \/ UnblockBootstrap(m)

LEMMA WhoMoves ==
  ASSUME [Next]_vars
  PROVE  \/ \E r \in Request : RequestAction(r)
         \/ \E a \in Admin : AdminAction(a)
         \/ \E u \in Unloader : UnloaderAction(u)
         \/ LoopAction
         \/ UNCHANGED vars
  BY DEF Next, RequestAction, AdminAction, UnloaderAction, LoopAction

\* A request moves alone: it touches neither the other requests nor the admin
\* tasks, and of the locks only its own or a free one.
LEMMA RequestMovesAlone ==
  ASSUME PoolInv, NEW r \in Request, RequestAction(r)
  PROVE  /\ \A q \in Request \ {r} :
              pc'[q] = pc[q] /\ target'[q] = target[q] /\ handle'[q] = handle[q]
         /\ UNCHANGED <<gateVars, adminVars, allVars>>
         /\ \A m \in Model : \/ modelLock'[m] = modelLock[m]
                             \/ modelLock[m] \in {None, r} /\ modelLock'[m] \in {None, r}
<1> USE DEF PoolInv, TypeOK
<1>1. UNCHANGED <<gateVars, adminVars, allVars>>
  BY DEF RequestAction, RequestStep, StartRequest, EnterModel, WaitForUnload, EvictLru,
         CreateManager, QueueUp, Refuse, QueueTimeout, Fail, ObtainLoaded, LoadRefused, LoadTimeout,
         ForgetFailedManager, FinishRequest
<1>2. /\ \/ pc' = pc
         \/ \E where : pc' = [pc EXCEPT ![r] = where]
      /\ \/ handle' = handle
         \/ \E h : handle' = [handle EXCEPT ![r] = h]
      /\ \/ target' = target
         \/ \E m : target' = [target EXCEPT ![r] = m]
  <2>1. CASE \E m \in Model : StartRequest(r, m)
    BY <2>1 DEF StartRequest
  <2>2. CASE EnterModel(r) \/ ObtainLoaded(r)
    BY <2>2 DEF EnterModel, ObtainLoaded, Obtain, Over, Goto
  <2>3. CASE WaitForUnload(r) \/ QueueUp(r) \/ LoadRefused(r) \/ LoadTimeout(r)
    BY <2>3 DEF WaitForUnload, QueueUp, LoadRefused, LoadTimeout, Goto
  <2>4. CASE (\E x \in Model : EvictLru(r, x)) \/ (\E i \in Instance : CreateManager(r, i))
    BY <2>4 DEF EvictLru, CreateManager, Goto
  <2>5. CASE Refuse(r) \/ QueueTimeout(r) \/ ForgetFailedManager(r) \/ FinishRequest(r)
    BY <2>5 DEF Refuse, QueueTimeout, Fail, ForgetFailedManager, FinishRequest, Over, Goto
  <2> QED BY <2>1, <2>2, <2>3, <2>4, <2>5 DEF RequestAction, RequestStep
<1>3. \A q \in Request \ {r} :
        pc'[q] = pc[q] /\ target'[q] = target[q] /\ handle'[q] = handle[q]
  BY <1>2 DEF RequestTypeOK
<1>4. \/ UNCHANGED modelLock
      \/ /\ pc[r] = "modelLock" /\ modelLock[target[r]] = None
         /\ modelLock' = [modelLock EXCEPT ![target[r]] = r]
      \/ pc[r] \in HoldsLock /\ modelLock' = [modelLock EXCEPT ![target[r]] = None]
  <2>1. CASE EnterModel(r)
    BY <2>1 DEF EnterModel
  <2>2. CASE ObtainLoaded(r) \/ ForgetFailedManager(r)
    BY <2>2 DEF ObtainLoaded, ForgetFailedManager, Unlock, HoldsLock, RequestPc
  <2>3. CASE Refuse(r) \/ QueueTimeout(r)
    BY <2>3 DEF Refuse, QueueTimeout, Fail, Unlock, AtCapacityCheck, AtUnloadCheck, HoldsLock, RequestPc
  <2>4. CASE \/ \E m \in Model : StartRequest(r, m)
             \/ WaitForUnload(r) \/ QueueUp(r) \/ LoadRefused(r) \/ LoadTimeout(r) \/ FinishRequest(r)
             \/ \E x \in Model : EvictLru(r, x)
             \/ \E i \in Instance : CreateManager(r, i)
    BY <2>4 DEF StartRequest, WaitForUnload, QueueUp, LoadRefused, LoadTimeout, FinishRequest,
                EvictLru, CreateManager
  <2> QED BY <2>1, <2>2, <2>3, <2>4 DEF RequestAction, RequestStep
<1>5. pc[r] \in HoldsLock => modelLock[target[r]] = r
  BY DEF RequestInv, RequestInvOf
<1>6. \A m \in Model : \/ modelLock'[m] = modelLock[m]
                       \/ modelLock[m] \in {None, r} /\ modelLock'[m] \in {None, r}
  BY <1>4, <1>5 DEF AdmissionTypeOK
<1> QED BY <1>1, <1>3, <1>6

\* An admin task moves alone too.
LEMMA AdminMovesAlone ==
  ASSUME PoolInv, NEW a \in Admin, AdminAction(a)
  PROVE  /\ \A b \in Admin \ {a} :
              /\ adminPc'[b] = adminPc[b] /\ adminModel'[b] = adminModel[b]
              /\ adminOp'[b] = adminOp[b] /\ adminHandle'[b] = adminHandle[b]
         /\ UNCHANGED <<poolVars, bootstrapBlocked, reqVars, allVars>>
         /\ \A m \in Model : \/ modelLock'[m] = modelLock[m]
                             \/ modelLock[m] \in {None, a} /\ modelLock'[m] \in {None, a}
<1> USE DEF PoolInv, TypeOK
<1>1. UNCHANGED <<poolVars, bootstrapBlocked, reqVars, allVars>>
  BY DEF AdminAction, AdminStep, AdminStart, AdminLock, AdminQuarantine, AdminDrained, AdminEnd, gateVars
<1>2. /\ \/ adminPc' = adminPc
         \/ \E where : adminPc' = [adminPc EXCEPT ![a] = where]
      /\ \/ adminModel' = adminModel
         \/ \E m : adminModel' = [adminModel EXCEPT ![a] = m]
      /\ \/ adminOp' = adminOp
         \/ \E op : adminOp' = [adminOp EXCEPT ![a] = op]
      /\ \/ adminHandle' = adminHandle
         \/ \E h : adminHandle' = [adminHandle EXCEPT ![a] = h]
  <2>1. CASE (\E m \in Model, op \in AdminOp : AdminStart(a, m, op)) \/ AdminLock(a)
    BY <2>1 DEF AdminStart, AdminLock
  <2>2. CASE AdminQuarantine(a)
    BY <2>2 DEF AdminQuarantine, AdminProceed, AdminReturn
  <2>3. CASE AdminDrained(a) \/ AdminEnd(a)
    BY <2>3 DEF AdminDrained, AdminEnd, AdminProceed, AdminReturn
  <2> QED BY <2>1, <2>2, <2>3 DEF AdminAction, AdminStep
<1>3. \A b \in Admin \ {a} :
        /\ adminPc'[b] = adminPc[b] /\ adminModel'[b] = adminModel[b]
        /\ adminOp'[b] = adminOp[b] /\ adminHandle'[b] = adminHandle[b]
  BY <1>2 DEF AdminTypeOK
<1>4. \/ UNCHANGED modelLock
      \/ modelLock[adminModel[a]] = None /\ modelLock' = [modelLock EXCEPT ![adminModel[a]] = a]
      \/ /\ adminPc[a] \in {"lookup", "drain", "unloading"}
         /\ modelLock' = [modelLock EXCEPT ![adminModel[a]] = None]
  <2>1. CASE (\E m \in Model, op \in AdminOp : AdminStart(a, m, op)) \/ AdminLock(a)
    BY <2>1 DEF AdminStart, AdminLock
  <2>2. CASE AdminQuarantine(a)
    BY <2>2 DEF AdminQuarantine, AdminProceed, AdminReturn, Unlock
  <2>3. CASE AdminDrained(a) \/ AdminEnd(a)
    BY <2>3 DEF AdminDrained, AdminEnd, AdminProceed, AdminReturn, Unlock
  <2> QED BY <2>1, <2>2, <2>3 DEF AdminAction, AdminStep
<1>5. adminPc[a] \in {"lookup", "drain", "unloading"} => modelLock[adminModel[a]] = a
  BY DEF AdminInv, AdminInvOf
<1>6. \A m \in Model : \/ modelLock'[m] = modelLock[m]
                       \/ modelLock[m] \in {None, a} /\ modelLock'[m] \in {None, a}
  BY <1>4, <1>5 DEF AdmissionTypeOK
<1> QED BY <1>1, <1>3, <1>6

\* Nobody else moves a request, an admin task or a lock.
LEMMA LoopMovesNobody ==
  ASSUME \/ \E u \in Unloader : UnloaderAction(u)
         \/ LoopAction
         \/ UNCHANGED vars
  PROVE  UNCHANGED <<reqVars, adminVars, modelLock>>
  BY DEF UnloaderAction, StartUnloadAll, UnloadAll, UnloadAllBusy, LoopAction, ServerStep, SpawnServer,
         ServerReady, ServerLoadRaises, ServerLoadFailed, ServerExits, UnloadDone, CrashNoticed,
         IdleUnload, othersUnchanged, NotifyWaiters, EnableModel, BlockBootstrap, UnblockBootstrap, vars

\* A model_lock is held by the request or the admin task that is using it: with
\* RequestInv and AdminInv, by that one alone.
LockInv ==
  \A m \in Model :
    /\ modelLock[m] \in Request => pc[modelLock[m]] \in HoldsLock /\ target[modelLock[m]] = m
    /\ modelLock[m] \in Admin =>
         /\ adminPc[modelLock[m]] \in {"lookup", "drain", "unloading"}
         /\ adminModel[modelLock[m]] = m

\* What a request does with its own lock.
LEMMA RequestKeepsItsLock ==
  ASSUME PoolInv, LockInv, NEW r \in Request, RequestAction(r), NEW m \in Model, modelLock'[m] = r
  PROVE  pc'[r] \in HoldsLock /\ target'[r] = m
<1> USE DEF PoolInv, TypeOK, AdmissionTypeOK, RequestTypeOK
<1>0. modelLock[m] = r => pc[r] \in HoldsLock /\ target[r] = m
  BY DEF LockInv
<1>1. CASE (\E n \in Model : StartRequest(r, n)) \/ FinishRequest(r)
  BY <1>0, <1>1 DEF StartRequest, FinishRequest, HoldsLock
<1>2. CASE EnterModel(r)
  <2>1. pc[r] = "modelLock" /\ modelLock[m] # r
    BY <1>0, <1>2 DEF EnterModel, HoldsLock
  <2>2. target[r] = m /\ UNCHANGED target /\ pc' = [pc EXCEPT ![r] = "capacity"]
    BY <1>2, <2>1 DEF EnterModel
  <2> QED BY <2>2 DEF HoldsLock, RequestPc
<1>3. CASE ObtainLoaded(r) \/ Refuse(r) \/ QueueTimeout(r)
  <2>1. modelLock' = [modelLock EXCEPT ![target[r]] = None]
    BY <1>3 DEF ObtainLoaded, Refuse, QueueTimeout, Fail, Unlock
  <2> QED BY <1>0, <2>1, NoneIsNothing
<1>4. CASE ForgetFailedManager(r)
  <2>1. CASE modelLock' = [modelLock EXCEPT ![target[r]] = None]
    BY <1>0, <2>1, NoneIsNothing
  <2>2. CASE UNCHANGED <<target, modelLock>> /\ pc' = [pc EXCEPT ![r] = "capacity"]
    BY <1>0, <2>2 DEF HoldsLock, RequestPc
  <2> QED BY <1>4, <2>1, <2>2 DEF ForgetFailedManager, Unlock, Goto
<1>5. CASE \/ WaitForUnload(r) \/ QueueUp(r) \/ LoadRefused(r) \/ LoadTimeout(r)
           \/ \E x \in Model : EvictLru(r, x)
           \/ \E i \in Instance : CreateManager(r, i)
  <2>1. /\ UNCHANGED <<modelLock, target>>
        /\ \E where \in RequestPc \ {"idle", "modelLock", "serving"} : pc' = [pc EXCEPT ![r] = where]
    BY <1>5 DEF WaitForUnload, QueueUp, LoadRefused, LoadTimeout, EvictLru, CreateManager, Goto, RequestPc
  <2> QED BY <1>0, <2>1 DEF HoldsLock
<1> QED BY <1>1, <1>2, <1>3, <1>4, <1>5 DEF RequestAction, RequestStep

\* What an admin task does with its own lock.
LEMMA AdminKeepsItsLock ==
  ASSUME PoolInv, LockInv, NEW a \in Admin, AdminAction(a), NEW m \in Model, modelLock'[m] = a
  PROVE  /\ adminPc'[a] \in {"lookup", "drain", "unloading"}
         /\ adminModel'[a] = m
<1> USE DEF PoolInv, TypeOK, AdmissionTypeOK, AdminTypeOK
<1>0. modelLock[m] = a =>
        adminPc[a] \in {"lookup", "drain", "unloading"} /\ adminModel[a] = m
  BY DEF LockInv
<1>1. CASE \E n \in Model, op \in AdminOp : AdminStart(a, n, op)
  BY <1>0, <1>1 DEF AdminStart
<1>2. CASE AdminLock(a)
  BY <1>0, <1>2 DEF AdminLock
<1>3. CASE AdminQuarantine(a) \/ AdminDrained(a) \/ AdminEnd(a)
  <2>1. \/ modelLock' = [modelLock EXCEPT ![adminModel[a]] = None]
        \/ /\ UNCHANGED <<modelLock, adminModel>>
           /\ \E where \in {"drain", "unloading"} : adminPc' = [adminPc EXCEPT ![a] = where]
    <3>1. CASE AdminQuarantine(a)
      BY <3>1 DEF AdminQuarantine, AdminProceed, AdminReturn, Unlock
    <3>2. CASE AdminDrained(a) \/ AdminEnd(a)
      BY <3>2 DEF AdminDrained, AdminEnd, AdminProceed, AdminReturn, Unlock
    <3> QED BY <1>3, <3>1, <3>2
  <2> QED BY <1>0, <2>1, NoneIsNothing
<1> QED BY <1>1, <1>2, <1>3 DEF AdminAction, AdminStep

LEMMA LockInvStep == PoolInv /\ LockInv /\ [Next]_vars => LockInv'
<1> SUFFICES ASSUME PoolInv, LockInv, [Next]_vars, NEW m \in Model
             PROVE  /\ modelLock'[m] \in Request =>
                         pc'[modelLock'[m]] \in HoldsLock /\ target'[modelLock'[m]] = m
                    /\ modelLock'[m] \in Admin =>
                         /\ adminPc'[modelLock'[m]] \in {"lookup", "drain", "unloading"}
                         /\ adminModel'[modelLock'[m]] = m
  BY DEF LockInv
<1>1. ASSUME NEW r \in Request, RequestAction(r)
      PROVE  /\ modelLock'[m] \in Request =>
                  pc'[modelLock'[m]] \in HoldsLock /\ target'[modelLock'[m]] = m
             /\ modelLock'[m] \in Admin =>
                  /\ adminPc'[modelLock'[m]] \in {"lookup", "drain", "unloading"}
                  /\ adminModel'[modelLock'[m]] = m
  <2>1. UNCHANGED adminVars /\ (modelLock'[m] = modelLock[m] \/ modelLock'[m] \in {None, r})
    BY <1>1, RequestMovesAlone
  <2>2. CASE modelLock'[m] = r
    BY <1>1, <2>2, RequestKeepsItsLock, NoneIsNothing
  <2>3. CASE modelLock'[m] # r /\ modelLock'[m] = modelLock[m]
    BY <1>1, <2>1, <2>3, RequestMovesAlone DEF LockInv, adminVars
  <2> QED BY <2>1, <2>2, <2>3, NoneIsNothing
<1>2. ASSUME NEW a \in Admin, AdminAction(a)
      PROVE  /\ modelLock'[m] \in Request =>
                  pc'[modelLock'[m]] \in HoldsLock /\ target'[modelLock'[m]] = m
             /\ modelLock'[m] \in Admin =>
                  /\ adminPc'[modelLock'[m]] \in {"lookup", "drain", "unloading"}
                  /\ adminModel'[modelLock'[m]] = m
  <2>1. UNCHANGED reqVars /\ (modelLock'[m] = modelLock[m] \/ modelLock'[m] \in {None, a})
    BY <1>2, AdminMovesAlone
  <2>2. CASE modelLock'[m] = a
    BY <1>2, <2>2, AdminKeepsItsLock, NoneIsNothing
  <2>3. CASE modelLock'[m] # a /\ modelLock'[m] = modelLock[m]
    BY <1>2, <2>1, <2>3, AdminMovesAlone DEF LockInv, reqVars
  <2> QED BY <2>1, <2>2, <2>3, NoneIsNothing
<1>3. CASE UNCHANGED <<reqVars, adminVars, modelLock>>
  BY <1>3 DEF LockInv, reqVars, adminVars
<1> QED BY <1>1, <1>2, <1>3, WhoMoves, LoopMovesNobody

LEMMA LockInvariant == Spec => []LockInv
<1>1. Init => LockInv
  BY NoneIsNothing DEF Init, LockInv
<1> QED BY <1>1, PoolInvariant, LockInvStep, PTL DEF Spec

-----------------------------------------------------------------------------
(* What becomes of a server                                                *)

\* A manager's _ready_event and _load_error tell the truth about its state: a
\* load that goes on has no event and no error, and a READY manager has an event
\* that brings no error to those it wakes.
EventsMatch ==
  \A i \in Instance :
    /\ state[i] = "LOADING" => ~readyEvent[i]
    /\ loadTask[i] \in {"starting", "probing"} => loadError[i] = "none"
    /\ state[i] = "READY" => readyEvent[i] /\ loadError[i] = "none"

LEMMA EventsMatchStep == SMInv /\ EventsMatch /\ [SMNext]_smVars => EventsMatch'
<1> SUFFICES ASSUME SMInv, EventsMatch, [SMNext]_smVars
             PROVE  EventsMatch'
  OBVIOUS
<1> USE DEF SMInv, SMTypeOK, LoadTaskMatchesState, EventsMatch
<1>1. ASSUME NEW i \in Instance, SMStep(i)
      PROVE  EventsMatch'
  <2>1. CASE BeginLoad(i)    BY <2>1 DEF BeginLoad
  <2>2. CASE StartProcess(i) BY <2>2 DEF StartProcess
  <2>3. CASE BecomeReady(i)  BY <2>3 DEF BecomeReady
  <2>4. ASSUME NEW error \in LoadError, LoadRaises(i, error)
        PROVE  EventsMatch'
    BY <2>4 DEF LoadRaises
  <2>5. CASE LoadFailed(i)   BY <2>5 DEF LoadFailed
  <2>6. CASE BeginUnload(i)  BY <2>6 DEF BeginUnload
  <2>7. CASE FinishUnload(i) BY <2>7 DEF FinishUnload
  <2>8. CASE ProcessExits(i) BY <2>8 DEF ProcessExits
  <2>9. CASE MarkCrashed(i)  BY <2>9 DEF MarkCrashed
  <2> QED BY <1>1, <2>1, <2>2, <2>3, <2>4, <2>5, <2>6, <2>7, <2>8, <2>9 DEF SMStep
<1>2. CASE UNCHANGED smVars
  BY <1>2 DEF smVars
<1> QED BY <1>1, <1>2 DEF SMNext

LEMMA PoolSMInvariant == Spec => [](SMInv /\ EventsMatch)
<1>1. SMInit => EventsMatch
  BY DEF SMInit, EventsMatch
<1>2. SMSafety => []EventsMatch
  BY <1>1, SMInvariant, EventsMatchStep, PTL DEF SMSafety
<1> QED BY <1>2, SMInvariant, PoolImplementsServerManager, PTL

\* The callers that may stop the server of a manager i, each with its reason.
Evicts(i)     == \E r \in Request, x \in Model : EvictLru(r, x) /\ managers[x] = i
TimesOut(i)   == \E r \in Request : LoadTimeout(r) /\ handle[r] = i
AdminStops(i) == \E a \in Admin : /\ AdminQuarantine(a) \/ AdminDrained(a)
                                  /\ adminModel[a] \in Model /\ managers[adminModel[a]] = i
UnloaderStops(i) ==
  /\ \E u \in Unloader : UnloaderAction(u)
  /\ InPool(i)

StopCause(i) ==
  /\ BeginUnload(i)
  /\ UNCHANGED poolVars
  /\ Evicts(i) \/ TimesOut(i) \/ AdminStops(i) \/ UnloaderStops(i) \/ IdleUnload(i)

\* Whatever changes the state of a server is one of these.
LEMMA StepKinds ==
  ASSUME PoolInv, [Next]_vars
  PROVE  \/ UNCHANGED smVars
         \/ \E r \in Request, i \in Instance : CreateManager(r, i)
         \/ \E i \in Instance : ServerStep(i) /\ ~IdleUnload(i)
         \/ \E i \in Instance : StopCause(i)
<1> USE DEF PoolInv, TypeOK
<1> DEFINE Goal == \/ UNCHANGED smVars
                   \/ \E r \in Request, i \in Instance : CreateManager(r, i)
                   \/ \E i \in Instance : ServerStep(i) /\ ~IdleUnload(i)
                   \/ \E i \in Instance : StopCause(i)
<1>1. ASSUME NEW r \in Request, RequestAction(r)
      PROVE  Goal
  <2>1. ASSUME NEW x \in Model, EvictLru(r, x)
        PROVE  \E i \in Instance : StopCause(i)
    <3>1. managers[x] \in Instance
      BY <2>1 DEF EvictLru, LeastRecentlyUsed, IdleModels, Loaded, PoolTypeOK
    <3>2. BeginUnload(managers[x]) /\ UNCHANGED poolVars /\ Evicts(managers[x])
      BY <2>1 DEF EvictLru, Evicts
    <3> QED BY <3>1, <3>2 DEF StopCause
  <2>2. ASSUME LoadTimeout(r)
        PROVE  \E i \in Instance : StopCause(i)
    <3>1. handle[r] \in Instance
      BY <2>2 DEF LoadTimeout, RequestInv, RequestInvOf, KnowsManager
    <3>2. BeginUnload(handle[r]) /\ UNCHANGED poolVars /\ TimesOut(handle[r])
      BY <2>2 DEF LoadTimeout, StopManager, TimesOut
    <3> QED BY <3>1, <3>2 DEF StopCause
  <2>3. CASE \/ \E m \in Model : StartRequest(r, m)
             \/ EnterModel(r) \/ WaitForUnload(r) \/ QueueUp(r) \/ Refuse(r) \/ QueueTimeout(r)
             \/ ObtainLoaded(r) \/ LoadRefused(r) \/ ForgetFailedManager(r) \/ FinishRequest(r)
    BY <2>3 DEF StartRequest, EnterModel, WaitForUnload, QueueUp, Refuse, QueueTimeout, Fail,
                ObtainLoaded, LoadRefused, ForgetFailedManager, FinishRequest
  <2> QED BY <1>1, <2>1, <2>2, <2>3 DEF RequestAction, RequestStep
<1>2. ASSUME NEW a \in Admin, AdminAction(a)
      PROVE  Goal
  <2>1. ASSUME ~ UNCHANGED smVars
        PROVE  \E i \in Instance : StopCause(i)
    <3>1. AdminQuarantine(a) \/ AdminDrained(a)
      BY <1>2, <2>1 DEF AdminAction, AdminStep, AdminStart, AdminLock, AdminEnd
    <3>2. adminModel[a] \in Model
      BY <3>1 DEF AdminQuarantine, AdminDrained, AdminInv, AdminInvOf
    <3>3. managers[adminModel[a]] \in Instance /\ StopManager(managers[adminModel[a]])
      BY <2>1, <3>1, <3>2 DEF AdminQuarantine, AdminDrained, AdminProceed, PoolTypeOK
    <3>4. UNCHANGED poolVars /\ AdminStops(managers[adminModel[a]])
      BY <3>1, <3>2 DEF AdminQuarantine, AdminDrained, AdminStops
    <3> QED BY <3>3, <3>4 DEF StopCause, StopManager
  <2> QED BY <2>1
<1>3. ASSUME NEW u \in Unloader, UnloaderAction(u)
      PROVE  Goal
  <2>1. UNCHANGED smVars \/ \E m \in Loaded : StopManager(managers[m])
    BY <1>3 DEF UnloaderAction, StartUnloadAll, UnloadAll, UnloadAllBusy, UnloadNext
  <2>2. ASSUME NEW m \in Loaded, StopManager(managers[m])
        PROVE  \E i \in Instance : StopCause(i)
    <3>1. managers[m] \in Instance /\ InPool(managers[m])
      BY DEF Loaded, PoolTypeOK, InPool
    <3>2. UNCHANGED poolVars
      BY <1>3 DEF UnloaderAction, StartUnloadAll, UnloadAll, UnloadAllBusy
    <3> QED BY <1>3, <2>2, <3>1, <3>2 DEF StopCause, StopManager, UnloaderStops
  <2> QED BY <2>1, <2>2
<1>4. ASSUME NEW i \in Instance, ServerStep(i)
      PROVE  Goal
  BY <1>4 DEF StopCause, IdleUnload
<1>5. CASE NotifyWaiters \/ (\E m \in Model : EnableModel(m) \/ BlockBootstrap(m) \/ UnblockBootstrap(m))
  BY <1>5 DEF NotifyWaiters, EnableModel, BlockBootstrap, UnblockBootstrap
<1>6. CASE UNCHANGED vars
  BY <1>6 DEF vars
<1> QED BY <1>1, <1>2, <1>3, <1>4, <1>5, <1>6, WhoMoves DEF LoopAction

\* A server that was up, or going down, is UNLOADED only by the two steps that
\* release it from the pool at once.
LEMMA ServerEnds ==
  ASSUME PoolInv, SMInv, [Next]_vars, NEW i \in Instance,
         state[i] \in {"READY", "UNLOADING"}, state'[i] = "UNLOADED"
  PROVE  UnloadDone(i) \/ CrashNoticed(i)
<1> USE DEF PoolInv, TypeOK, SMTypeOK
<1>1. CASE UNCHANGED smVars
  BY <1>1 DEF smVars
<1>2. ASSUME NEW r \in Request, NEW j \in Instance, CreateManager(r, j)
      PROVE  FALSE
  BY <1>2 DEF CreateManager, BeginLoad
<1>3. ASSUME NEW j \in Instance, ServerStep(j), ~IdleUnload(j)
      PROVE  UnloadDone(i) \/ CrashNoticed(i)
  <2>1. CASE UnloadDone(j) \/ CrashNoticed(j)
    BY <2>1 DEF UnloadDone, CrashNoticed, FinishUnload, MarkCrashed
  <2>2. CASE SpawnServer(j) \/ ServerReady(j) \/ ServerLoadRaises(j) \/ ServerExits(j)
    BY <2>2 DEF SpawnServer, StartProcess, ServerReady, BecomeReady, ServerLoadRaises, LoadRaises,
                ServerExits, ProcessExits
  <2>3. ASSUME ServerLoadFailed(j)
        PROVE  FALSE
    <3>1. loadTask[j] = "failing" /\ state' = [state EXCEPT ![j] = "UNLOADED"]
      BY <2>3 DEF ServerLoadFailed, LoadFailed
    <3>2. state[j] = "LOADING"
      BY <3>1 DEF SMInv, LoadTaskMatchesState
    <3> QED BY <3>1, <3>2
  <2> QED BY <1>3, <2>1, <2>2, <2>3 DEF ServerStep
<1>4. ASSUME NEW j \in Instance, StopCause(j)
      PROVE  FALSE
  BY <1>4 DEF StopCause, BeginUnload
<1> QED BY <1>1, <1>2, <1>3, <1>4, StepKinds

\* A manager that a step leaves in the pool, not ready, was there and not ready
\* before, unless the step has just created it.
LEMMA KeepsState ==
  ASSUME PoolInv, SMInv, [Next]_vars, NothingBuilt, NEW m \in Model, managers'[m] # None,
         state'[managers'[m]] \in {"LOADING", "UNLOADED"}
  PROVE  /\ managers'[m] = managers[m] /\ managers[m] \in Instance
         /\ state[managers[m]] \in {"LOADING", "UNLOADED"}
<1> USE DEF PoolInv, TypeOK
<1> DEFINE i == managers[m]
<1>1. managers'[m] = i /\ i \in Instance
  BY DEF NothingBuilt, PoolTypeOK
<1>2. CASE state'[i] = "LOADING"
  <2>1. Unloadable(i)
    BY <1>1, <1>2 DEF NothingBuilt, Unloadable
  <2>2. ASSUME state[i] = "READY" PROVE FALSE
    <3>1. CASE \E j \in Instance : SMStep(j)
      BY <1>1, <1>2, <2>2, <3>1 DEF SMStep, BeginLoad, StartProcess, BecomeReady, LoadRaises, LoadFailed,
         BeginUnload, FinishUnload, ProcessExits, MarkCrashed, SMTypeOK
    <3>2. CASE UNCHANGED smVars
      BY <1>2, <2>2, <3>2 DEF smVars
    <3> QED BY <3>1, <3>2, PoolStepIsServerStep DEF SMNext
  <2> QED BY <1>1, <2>1, <2>2 DEF Unloadable
<1>3. CASE state'[i] = "UNLOADED"
  <2>1. ASSUME state[i] \in {"READY", "UNLOADING"} PROVE FALSE
    <3>1. UnloadDone(i) \/ CrashNoticed(i)
      BY <1>1, <1>3, <2>1, ServerEnds
    <3>2. Release(modelOf[i], i)
      BY <3>1 DEF UnloadDone, CrashNoticed
    <3>3. modelOf[i] = m
      BY <1>1, NoneIsNothing DEF PoolConsistent
    <3>4. managers'[m] = None
      BY <3>2, <3>3, NoneIsNothing DEF Release, PoolTypeOK
    <3> QED BY <3>4
  <2> QED BY <1>1, <2>1 DEF SMTypeOK, ModelState
<1> QED BY <1>1, <1>2, <1>3

Loader == {"waitReady", "timeoutUnload", "forget", "forgetCapacity"}

\* LoadingHasOwner, and what its owner is doing: seeing the load through.
OwnerInv ==
  \A m \in Loaded :
    state[managers[m]] \in {"LOADING", "UNLOADED"} =>
      /\ modelLock[m] \in Request
      /\ pc[modelLock[m]] \in Loader
      /\ handle[modelLock[m]] = managers[m]

\* A request keeps the load it sees through until it has it or forgets it.
LEMMA LoaderKeeps ==
  ASSUME PoolInv, [Next]_vars, NEW r \in Request, pc[r] \in Loader
  PROVE  \/ /\ pc'[r] \in Loader /\ handle'[r] = handle[r] /\ target'[r] = target[r]
            /\ modelLock'[target[r]] = r
            /\ pc'[r] = pc[r] \/ LoadTimeout(r) \/ LoadRefused(r)
         \/ ObtainLoaded(r)
         \/ ForgetFailedManager(r)
<1> USE DEF PoolInv, TypeOK
<1>0. target[r] \in Model /\ modelLock[target[r]] = r
  BY DEF Loader, RequestInv, RequestInvOf, HoldsLock, RequestPc
<1>1. CASE LoadTimeout(r) \/ LoadRefused(r)
  BY <1>0, <1>1 DEF LoadTimeout, LoadRefused, Goto, Loader, RequestTypeOK
<1>2. CASE RequestAction(r) /\ ~LoadTimeout(r) /\ ~LoadRefused(r)
  BY <1>2 DEF RequestAction, RequestStep, Loader, StartRequest, EnterModel, WaitForUnload, EvictLru,
     CreateManager, QueueUp, Refuse, QueueTimeout, AtCapacityCheck, AtUnloadCheck, FinishRequest
<1>3. ASSUME NEW q \in Request \ {r}, RequestAction(q)
      PROVE  /\ pc'[r] = pc[r] /\ handle'[r] = handle[r] /\ target'[r] = target[r]
             /\ modelLock'[target[r]] = r
  BY <1>0, <1>3, RequestMovesAlone, NoneIsNothing
<1>4. ASSUME NEW a \in Admin, AdminAction(a)
      PROVE  /\ pc'[r] = pc[r] /\ handle'[r] = handle[r] /\ target'[r] = target[r]
             /\ modelLock'[target[r]] = r
  BY <1>0, <1>4, AdminMovesAlone, NoneIsNothing DEF reqVars
<1>5. CASE UNCHANGED <<reqVars, adminVars, modelLock>>
  BY <1>0, <1>5 DEF reqVars
<1> QED BY <1>1, <1>2, <1>3, <1>4, <1>5, WhoMoves, LoopMovesNobody

LEMMA OwnerInvStep ==
  PoolInv /\ SMInv /\ LockInv /\ OwnerInv /\ [Next]_vars => OwnerInv'
<1> SUFFICES ASSUME PoolInv, SMInv, LockInv, OwnerInv, [Next]_vars,
                    NEW m \in Model, managers'[m] # None,
                    state'[managers'[m]] \in {"LOADING", "UNLOADED"}
             PROVE  /\ modelLock'[m] \in Request
                    /\ pc'[modelLock'[m]] \in Loader
                    /\ handle'[modelLock'[m]] = managers'[m]
  BY DEF OwnerInv, Loaded
<1> USE DEF PoolInv, TypeOK
<1> DEFINE Kept == /\ managers'[m] = managers[m] /\ managers[m] \in Instance
                   /\ state[managers[m]] \in {"LOADING", "UNLOADED"}
<1>1. ASSUME Kept
      PROVE  /\ modelLock'[m] \in Request
             /\ pc'[modelLock'[m]] \in Loader
             /\ handle'[modelLock'[m]] = managers'[m]
  <2> DEFINE r == modelLock[m]
  <2>1. r \in Request /\ pc[r] \in Loader /\ handle[r] = managers[m] /\ target[r] = m
    BY <1>1, NoneIsNothing DEF OwnerInv, Loaded, LockInv
  <2>2. ~ObtainLoaded(r)
    BY <1>1, <2>1 DEF ObtainLoaded, LoadSucceeded
  <2>3. ~ForgetFailedManager(r)
    BY <1>1, <2>1, NoneIsNothing DEF ForgetFailedManager, Release, PoolTypeOK
  <2> HIDE DEF r
  <2>4. pc'[r] \in Loader /\ handle'[r] = handle[r] /\ modelLock'[target[r]] = r
    BY <2>1, <2>2, <2>3, LoaderKeeps
  <2> QED BY <1>1, <2>1, <2>4
<1>2. CASE NothingBuilt
  BY <1>1, <1>2, KeepsState
<1>3. ASSUME NEW r \in Request, NEW i \in Instance, CreateManager(r, i)
      PROVE  /\ modelLock'[m] \in Request
             /\ pc'[modelLock'[m]] \in Loader
             /\ handle'[modelLock'[m]] = managers'[m]
  <2>1. /\ target[r] \in Model
        /\ managers' = [managers EXCEPT ![target[r]] = i]
        /\ state' = [state EXCEPT ![i] = "LOADING"]
        /\ \A n \in Model : managers[n] # i
    BY <1>3, CreateBuildsOne
  <2>2. CASE m = target[r]
    <3>1. /\ modelLock[m] = r /\ UNCHANGED modelLock
          /\ pc' = [pc EXCEPT ![r] = "waitReady"] /\ handle' = [handle EXCEPT ![r] = i]
      BY <1>3, <2>2, AtCheck DEF CreateManager, Goto
    <3> QED BY <2>1, <2>2, <3>1 DEF RequestTypeOK, PoolTypeOK, Loader
  <2>3. CASE m # target[r]
    BY <1>1, <2>1, <2>3 DEF PoolTypeOK, SMTypeOK
  <2> QED BY <2>2, <2>3
<1> QED BY <1>2, <1>3, OnlyCreateBuilds

LEMMA OwnerInvariant == Spec => []OwnerInv
<1>1. Init => OwnerInv
  BY DEF Init, OwnerInv, Loaded
<1> QED BY <1>1, PoolInvariant, PoolSMInvariant, LockInvariant, OwnerInvStep, PTL DEF Spec

\* For any number of models and requests, and whatever unloads, crashes or times
\* out meanwhile, a manager that is not READY belongs to the request that holds
\* its model_lock, which sees the load through or forgets the manager
\* (ensure_model_loaded, _forget_failed_manager).
THEOREM LoadingAlwaysOwned == Spec => []LoadingHasOwner
<1>1. OwnerInv => LoadingHasOwner
  BY DEF OwnerInv, LoadingHasOwner
<1> QED BY <1>1, OwnerInvariant, PTL

-----------------------------------------------------------------------------
(* Admin routes                                                            *)

\* What an admin route has unloaded stays unloaded until the route returns: its
\* lock keeps the model from being created anew.
AdminUnloadInv ==
  \A a \in Admin : adminPc[a] = "unloading" =>
    /\ adminHandle[a] \in Instance
    /\ ~Unloadable(adminHandle[a])
    /\ managers[adminModel[a]] \in {None, adminHandle[a]}

LEMMA AdminProceedUnloads ==
  ASSUME PoolInv, NEW a \in Admin, NEW closed, adminPc'[a] = "unloading",
         adminModel[a] \in Model, managers[adminModel[a]] # None,
         AdminProceed(a, managers[adminModel[a]], closed), UNCHANGED poolVars
  PROVE  /\ adminHandle'[a] \in Instance /\ state'[adminHandle'[a]] = "UNLOADING"
         /\ managers'[adminModel'[a]] = adminHandle'[a]
<1> USE DEF PoolInv, TypeOK
<1> DEFINE i == managers[adminModel[a]]
<1>0. i \in Instance
  BY DEF PoolTypeOK
<1>1. Unloadable(i)
  BY DEF AdminProceed, AdminReturn, AdminTypeOK
<1>2. /\ BeginUnload(i) /\ adminHandle' = [adminHandle EXCEPT ![a] = i] /\ adminModel' = adminModel
  BY <1>1 DEF AdminProceed, StopManager
<1>3. state'[i] = "UNLOADING" /\ adminHandle'[a] = i
  BY <1>0, <1>2 DEF BeginUnload, SMTypeOK, AdminTypeOK
<1> QED BY <1>0, <1>2, <1>3 DEF poolVars

\* A route that is unloading got there by its own step, or was there already.
LEMMA AdminUnloading ==
  ASSUME PoolInv, [Next]_vars, NEW a \in Admin, adminPc'[a] = "unloading"
  PROVE  \/ /\ adminPc[a] = "unloading"
            /\ adminHandle'[a] = adminHandle[a] /\ adminModel'[a] = adminModel[a]
         \/ /\ adminHandle'[a] \in Instance /\ state'[adminHandle'[a]] = "UNLOADING"
            /\ managers'[adminModel'[a]] = adminHandle'[a]
<1> USE DEF PoolInv, TypeOK
<1>1. CASE AdminAction(a)
  <2>1. CASE AdminQuarantine(a) \/ AdminDrained(a)
    <3>1. adminModel[a] \in Model
      BY <2>1 DEF AdminQuarantine, AdminDrained, AdminInv, AdminInvOf
    <3>2. CASE AdminQuarantine(a)
      <4>1. /\ managers[adminModel[a]] # None
            /\ AdminProceed(a, managers[adminModel[a]], draining \cup {adminModel[a]})
        BY <3>2 DEF AdminQuarantine, AdminReturn, AdminTypeOK
      <4> QED BY <3>1, <3>2, <4>1, AdminProceedUnloads DEF AdminQuarantine
    <3>3. CASE AdminDrained(a)
      BY <3>1, <3>3, AdminProceedUnloads DEF AdminDrained
    <3> QED BY <2>1, <3>2, <3>3
  <2>2. CASE (\E m \in Model, op \in AdminOp : AdminStart(a, m, op)) \/ AdminLock(a) \/ AdminEnd(a)
    BY <2>2 DEF AdminStart, AdminLock, AdminEnd, AdminReturn, AdminTypeOK
  <2> QED BY <1>1, <2>1, <2>2 DEF AdminAction, AdminStep
<1>2. ASSUME NEW b \in Admin \ {a}, AdminAction(b)
      PROVE  /\ adminPc[a] = "unloading"
             /\ adminHandle'[a] = adminHandle[a] /\ adminModel'[a] = adminModel[a]
  BY <1>2, AdminMovesAlone
<1>3. CASE UNCHANGED adminVars
  BY <1>3 DEF adminVars
<1> QED BY <1>1, <1>2, <1>3, WhoMoves, LoopMovesNobody, RequestMovesAlone

LEMMA AdminUnloadInvStep == PoolInv /\ AdminUnloadInv /\ [Next]_vars => AdminUnloadInv'
<1> SUFFICES ASSUME PoolInv, AdminUnloadInv, [Next]_vars, NEW a \in Admin, adminPc'[a] = "unloading"
             PROVE  /\ adminHandle'[a] \in Instance
                    /\ state'[adminHandle'[a]] \notin {"LOADING", "READY"}
                    /\ managers'[adminModel'[a]] \in {None, adminHandle'[a]}
  BY DEF AdminUnloadInv, Unloadable
<1> USE DEF PoolInv, TypeOK
<1>1. CASE /\ adminHandle'[a] \in Instance /\ state'[adminHandle'[a]] = "UNLOADING"
           /\ managers'[adminModel'[a]] = adminHandle'[a]
  BY <1>1
<1>2. CASE /\ adminPc[a] = "unloading"
           /\ adminHandle'[a] = adminHandle[a] /\ adminModel'[a] = adminModel[a]
  <2>1. /\ adminHandle[a] \in Instance /\ ~Unloadable(adminHandle[a])
        /\ managers[adminModel[a]] \in {None, adminHandle[a]}
        /\ adminModel[a] \in Model /\ modelLock[adminModel[a]] = a
    BY <1>2 DEF AdminUnloadInv, AdminInv, AdminInvOf
  <2>2. CASE NothingBuilt
    BY <1>2, <2>1, <2>2 DEF NothingBuilt, Unloadable
  <2>3. ASSUME NEW r \in Request, NEW i \in Instance, CreateManager(r, i)
        PROVE  /\ state'[adminHandle[a]] = state[adminHandle[a]]
               /\ managers'[adminModel[a]] = managers[adminModel[a]]
    <3>1. /\ adminHandle[a] # i
          /\ managers' = [managers EXCEPT ![target[r]] = i]
          /\ state' = [state EXCEPT ![i] = "LOADING"]
      BY <2>3, CreateBuildsOne DEF CreateManager, Fresh
    <3>2. target[r] # adminModel[a]
      BY <2>1, <2>3, AtCheck, NoneIsNothing DEF CreateManager
    <3> QED BY <2>1, <3>1, <3>2 DEF PoolTypeOK, SMTypeOK
  <2> QED BY <1>2, <2>1, <2>2, <2>3, OnlyCreateBuilds DEF Unloadable
<1> QED BY <1>1, <1>2, AdminUnloading

LEMMA AdminUnloadInvariant == Spec => []AdminUnloadInv
<1>1. Init => AdminUnloadInv
  BY DEF Init, AdminUnloadInv
<1> QED BY <1>1, PoolInvariant, AdminUnloadInvStep, PTL DEF Spec

\* A model is disabled only when nothing of it can be unloaded any more.
LEMMA DisabledIsUnloaded ==
  ASSUME PoolInv, AdminUnloadInv, [Next]_vars, NEW m \in enabled \ enabled', managers[m] # None
  PROVE  ~Unloadable(managers[m])
<1> USE DEF PoolInv, TypeOK
<1>1. ASSUME NEW a \in Admin, AdminAction(a)
      PROVE  ~Unloadable(managers[m])
  <2>1. CASE (\E n \in Model, op \in AdminOp : AdminStart(a, n, op)) \/ AdminLock(a)
    BY <2>1 DEF AdminStart, AdminLock, gateVars
  <2>2. CASE AdminQuarantine(a)
    BY <2>2 DEF AdminQuarantine, AdminProceed, AdminReturn
  <2>3. CASE AdminDrained(a)
    BY <2>3 DEF AdminDrained, AdminProceed, AdminReturn
  <2>4. CASE AdminEnd(a)
    <3>1. m = adminModel[a]
      BY <2>4 DEF AdminEnd, AdminReturn
    <3>2. adminPc[a] = "unloading"
      BY <2>4, <3>1 DEF AdminEnd, AdminReturn
    <3> QED BY <3>1, <3>2 DEF AdminUnloadInv
  <2> QED BY <1>1, <2>1, <2>2, <2>3, <2>4 DEF AdminAction, AdminStep
<1>2. ASSUME NEW u \in Unloader, UnloaderAction(u)
      PROVE  FALSE
  BY <1>2 DEF UnloaderAction, StartUnloadAll, UnloadAll, UnloadAllBusy
<1>3. CASE LoopAction
  BY <1>3 DEF LoopAction, ServerStep, SpawnServer, ServerReady, ServerLoadRaises, ServerLoadFailed,
     ServerExits, UnloadDone, CrashNoticed, IdleUnload, othersUnchanged, NotifyWaiters,
     EnableModel, BlockBootstrap, UnblockBootstrap, gateVars
<1>4. CASE UNCHANGED vars
  BY <1>4 DEF vars, gateVars
<1>5. ASSUME NEW r \in Request, RequestAction(r)
      PROVE  FALSE
  BY <1>5, RequestMovesAlone DEF gateVars
<1> QED BY <1>1, <1>2, <1>3, <1>4, <1>5, WhoMoves

\* Once PATCH enabled=false or DELETE has answered, nothing of the model serves or
\* loads, for any number of admin tasks, requests and unload_all_models, and none
\* starts before it is enabled again (unload_model and its model_lock).
THEOREM DisabledNeverServing == Spec => []DisabledNotServing
<1>1. Init => DisabledNotServing
  BY DEF Init, DisabledNotServing, Loaded
<1>2. PoolInv /\ AdminUnloadInv /\ DisabledNotServing /\ [Next]_vars => DisabledNotServing'
  <2> SUFFICES ASSUME PoolInv, AdminUnloadInv, DisabledNotServing, [Next]_vars,
                      NEW m \in Model, managers'[m] # None, m \notin enabled'
               PROVE  state'[managers'[m]] \notin {"LOADING", "READY"}
    BY DEF DisabledNotServing, Loaded, Unloadable
  <2> USE DEF PoolInv, TypeOK
  <2>1. managers[m] # None => ~Unloadable(managers[m])
    BY DisabledIsUnloaded DEF DisabledNotServing, Loaded
  <2>2. CASE NothingBuilt
    BY <2>1, <2>2 DEF NothingBuilt, Unloadable, PoolTypeOK
  <2>3. ASSUME NEW r \in Request, NEW i \in Instance, CreateManager(r, i)
        PROVE  state'[managers'[m]] \notin {"LOADING", "READY"}
    <3>1. /\ managers' = [managers EXCEPT ![target[r]] = i]
          /\ state' = [state EXCEPT ![i] = "LOADING"]
          /\ \A n \in Model : managers[n] # i
      BY <2>3, CreateBuildsOne
    <3>2. m # target[r]
      BY <2>3 DEF CreateManager, Admitted, gateVars
    <3> QED BY <2>1, <3>1, <3>2 DEF PoolTypeOK, SMTypeOK, Unloadable
  <2> QED BY <2>2, <2>3, OnlyCreateBuilds
<1> QED BY <1>1, <1>2, PoolInvariant, AdminUnloadInvariant, PTL DEF Spec

\* Without unload_all_models, a pinned server that goes down does so under the
\* force of an admin route: an eviction and the idle monitor look for a pin before
\* they unload, a load that timed out was never READY, and a drain that ended found
\* none (COR-004).  unload_all_models is left out because it tests the pins before
\* its loop and not at each of its unloads.
THEOREM PinnedSafeFromSilentUnload ==
  ASSUME Unloader = {}
  PROVE  Spec => PinnedNeverUnloadedSilently
<1> DEFINE Forced(i) ==
      \/ \E a \in Admin : /\ adminPc[a] = "drain" /\ adminOp[a].force
                          /\ managers[adminModel[a]] = i
      \/ \E u \in Unloader : unloaderPc[u] # "idle" /\ unloaderForce[u]
<1>1. ASSUME PoolInv, SMInv, EventsMatch, [Next]_vars,
             NEW i \in Instance, Pinned(i), state[i] = "READY", state'[i] = "UNLOADING"
      PROVE  Forced(i)
  <2> USE DEF PoolInv, TypeOK, SMTypeOK
  <2>1. CASE UNCHANGED smVars
    BY <1>1, <2>1 DEF smVars
  <2>2. ASSUME NEW r \in Request, NEW j \in Instance, CreateManager(r, j)
        PROVE  FALSE
    BY <1>1, <2>2, CreateBuildsOne
  <2>3. ASSUME NEW j \in Instance, ServerStep(j), ~IdleUnload(j)
        PROVE  FALSE
    BY <1>1, <2>3 DEF ServerStep, SpawnServer, StartProcess, ServerReady, BecomeReady,
       ServerLoadRaises, LoadRaises, ServerLoadFailed, LoadFailed, ServerExits, ProcessExits,
       UnloadDone, FinishUnload, CrashNoticed, MarkCrashed
  <2>4. ASSUME NEW j \in Instance, StopCause(j)
        PROVE  Forced(i)
    <3>1. j = i
      BY <1>1, <2>4 DEF StopCause, BeginUnload
    <3>2. ~Evicts(i) /\ ~IdleUnload(i)
      BY <1>1 DEF Evicts, EvictLru, LeastRecentlyUsed, IdleModels, IdleUnload
    <3>3. ~TimesOut(i)
      BY <1>1 DEF TimesOut, LoadTimeout, EventsMatch
    <3>4. ~UnloaderStops(i)
      BY <1>1 DEF UnloaderStops
    <3>5. AdminStops(i) => Forced(i)
      <4> SUFFICES ASSUME NEW a \in Admin, AdminQuarantine(a) \/ AdminDrained(a),
                          adminModel[a] \in Model, managers[adminModel[a]] = i
                   PROVE  Forced(i)
        BY DEF AdminStops
      <4>1. CASE AdminQuarantine(a)
        <5>1. UNCHANGED smVars
          BY <1>1, <4>1, NoneIsNothing DEF AdminQuarantine
        <5> QED BY <1>1, <5>1 DEF smVars
      <4>2. CASE AdminDrained(a)
        BY <1>1, <4>2 DEF AdminDrained
      <4> QED BY <4>1, <4>2
    <3> QED BY <2>4, <3>1, <3>2, <3>3, <3>4, <3>5 DEF StopCause
  <2> QED BY <1>1, <2>1, <2>2, <2>3, <2>4, StepKinds
<1>2. PoolInv /\ SMInv /\ EventsMatch /\ [Next]_vars =>
        [\A i \in Instance :
           Pinned(i) /\ state[i] = "READY" /\ state'[i] = "UNLOADING" =>
             \/ \E a \in Admin : adminPc[a] = "drain" /\ adminOp[a].force
                                   /\ managers[adminModel[a]] = i
             \/ \E u \in Unloader : unloaderPc[u] # "idle" /\ unloaderForce[u]]_vars
  <2> SUFFICES ASSUME PoolInv, SMInv, EventsMatch, [Next]_vars,
                      NEW i \in Instance, Pinned(i), state[i] = "READY", state'[i] = "UNLOADING"
               PROVE  Forced(i)
    OBVIOUS
  <2> HIDE DEF Forced
  <2> QED BY <1>1
<1> QED
  BY <1>2, PoolInvariant, PoolSMInvariant, PTL DEF Spec, PinnedNeverUnloadedSilently

-----------------------------------------------------------------------------
(* Drains                                                                  *)

\* A request begins to be served only on a model that is admitted, and is served
\* on the model it asked for.
LEMMA NewServing ==
  ASSUME PoolInv, [Next]_vars, NEW r \in Request, pc'[r] = "serving"
  PROVE  /\ target'[r] = target[r]
         /\ pc[r] = "serving" \/ Admitted(target[r])
<1> USE DEF PoolInv, TypeOK, RequestTypeOK
<1>1. CASE RequestAction(r)
  <2>1. CASE EnterModel(r)
    BY <2>1 DEF EnterModel, Obtain, Over, Goto
  <2>2. CASE ObtainLoaded(r)
    BY <2>2 DEF ObtainLoaded, Obtain, Over, Goto
  <2>3. CASE \/ \E m \in Model : StartRequest(r, m)
             \/ Refuse(r) \/ QueueTimeout(r) \/ FinishRequest(r) \/ ForgetFailedManager(r)
    BY <2>3 DEF StartRequest, Refuse, QueueTimeout, Fail, FinishRequest, ForgetFailedManager, Over, Goto
  <2>4. CASE \/ WaitForUnload(r) \/ QueueUp(r) \/ LoadRefused(r) \/ LoadTimeout(r)
             \/ \E x \in Model : EvictLru(r, x)
             \/ \E i \in Instance : CreateManager(r, i)
    BY <2>4 DEF WaitForUnload, QueueUp, LoadRefused, LoadTimeout, EvictLru, CreateManager, Goto
  <2> QED BY <1>1, <2>1, <2>2, <2>3, <2>4 DEF RequestAction, RequestStep
<1>2. ASSUME NEW q \in Request \ {r}, RequestAction(q)
      PROVE  target'[r] = target[r] /\ pc[r] = "serving"
  BY <1>2, RequestMovesAlone
<1>3. CASE UNCHANGED reqVars
  BY <1>3 DEF reqVars
<1> QED BY <1>1, <1>2, <1>3, WhoMoves, LoopMovesNobody, AdminMovesAlone

\* While an admin route drains, its model is closed.
AdminDrainInv == \A a \in Admin : adminPc[a] = "drain" => adminModel[a] \in draining

\* While unload_all_models drains, what it quarantined is closed.
UnloaderDrainInv == \A u \in Unloader : unloaderPc[u] = "drain" => quarantined[u] \subseteq draining

\* Nobody but an admin route and unload_all_models writes _draining.
LEMMA WhoDrains ==
  ASSUME PoolInv, [Next]_vars
  PROVE  \/ draining' = draining
         \/ \E a \in Admin : AdminAction(a)
         \/ \E u \in Unloader : UnloaderAction(u)
<1>1. ASSUME LoopAction PROVE draining' = draining
  BY <1>1 DEF LoopAction, ServerStep, SpawnServer, ServerReady, ServerLoadRaises, ServerLoadFailed,
     ServerExits, UnloadDone, CrashNoticed, IdleUnload, othersUnchanged, NotifyWaiters,
     EnableModel, BlockBootstrap, UnblockBootstrap, gateVars
<1>2. ASSUME UNCHANGED vars PROVE draining' = draining
  BY <1>2 DEF vars, gateVars
<1> QED BY <1>1, <1>2, WhoMoves, RequestMovesAlone DEF gateVars

\* An admin route opens no model but its own, and only when its drain is over.
LEMMA AdminDrains ==
  ASSUME PoolInv, NEW a \in Admin, AdminAction(a)
  PROVE  /\ draining \subseteq draining' \cup {adminModel[a]}
         /\ draining' # draining \/ adminPc'[a] = "unloading" => modelLock[adminModel[a]] = a
         /\ \A m \in draining \ draining' : adminPc'[a] = "idle"
         /\ draining' \subseteq draining \cup {adminModel[a]}
         /\ adminPc'[a] = "drain" => /\ adminModel'[a] = adminModel[a]
                                     /\ adminModel[a] \in draining' /\ modelLock[adminModel[a]] = a
<1> USE DEF PoolInv, TypeOK, AdminTypeOK
<1>1. CASE (\E m \in Model, op \in AdminOp : AdminStart(a, m, op)) \/ AdminLock(a)
  BY <1>1 DEF AdminStart, AdminLock, gateVars
<1>2. CASE AdminQuarantine(a)
  <2>1. modelLock[adminModel[a]] = a
    BY <1>2 DEF AdminQuarantine, AdminInv, AdminInvOf
  <2> QED BY <1>2, <2>1 DEF AdminQuarantine, AdminProceed, AdminReturn
<1>3. CASE AdminDrained(a)
  <2>1. modelLock[adminModel[a]] = a
    BY <1>3 DEF AdminDrained, AdminInv, AdminInvOf
  <2> QED BY <1>3, <2>1 DEF AdminDrained, AdminProceed, AdminReturn
<1>4. CASE AdminEnd(a)
  <2>1. modelLock[adminModel[a]] = a
    BY <1>4 DEF AdminEnd, AdminInv, AdminInvOf
  <2> QED BY <1>4, <2>1 DEF AdminEnd, AdminReturn
<1> QED BY <1>1, <1>2, <1>3, <1>4 DEF AdminAction, AdminStep

LEMMA AdminDrainStep ==
  ASSUME PoolInv, AdminDrainInv, Unloader = {}, [Next]_vars
  PROVE  AdminDrainInv'
<1> SUFFICES ASSUME NEW a \in Admin, adminPc'[a] = "drain"
             PROVE  adminModel'[a] \in draining'
  BY DEF AdminDrainInv
<1>1. CASE AdminAction(a)
  BY <1>1, AdminDrains
<1>2. ASSUME NEW b \in Admin \ {a}, AdminAction(b)
      PROVE  adminModel'[a] \in draining'
  <2>1. adminPc[a] = "drain" /\ adminModel'[a] = adminModel[a]
    BY <1>2, AdminMovesAlone
  <2>2. adminModel[a] \in draining /\ modelLock[adminModel[a]] = a
    BY <2>1 DEF AdminDrainInv, PoolInv, AdminInv, AdminInvOf
  <2>3. CASE draining' = draining
    BY <2>1, <2>2, <2>3
  <2>4. CASE draining' # draining
    <3>1. modelLock[adminModel[b]] = b /\ draining \subseteq draining' \cup {adminModel[b]}
      BY <1>2, <2>4, AdminDrains
    <3> QED BY <1>2, <2>1, <2>2, <3>1
  <2> QED BY <2>3, <2>4
<1>3. CASE UNCHANGED adminVars /\ draining' = draining
  BY <1>3 DEF AdminDrainInv, adminVars
<1> QED BY <1>1, <1>2, <1>3, WhoMoves, WhoDrains, LoopMovesNobody, RequestMovesAlone DEF gateVars

\* What unload_all_models does with what it had quarantined.
LEMMA UnloaderDrains ==
  ASSUME PoolInv, NEW u \in Unloader, UnloaderAction(u)
  PROVE  /\ unloaderPc'[u] = "drain" => quarantined'[u] \subseteq draining'
         /\ unloaderPc[u] = "drain" => quarantined'[u] \subseteq quarantined[u]
         /\ \A v \in Unloader \ {u} :
              unloaderPc'[v] = unloaderPc[v] /\ quarantined'[v] = quarantined[v]
<1> USE DEF PoolInv, TypeOK, UnloaderTypeOK
<1>1. ASSUME NEW force, NEW mine, NEW models, NEW closed, UnloadNext(u, force, mine, models, closed)
      PROVE  /\ \E where \in {"idle", "unloading"} : unloaderPc' = [unloaderPc EXCEPT ![u] = where]
             /\ \E rest \in {mine, {}} : quarantined' = [quarantined EXCEPT ![u] = rest]
  BY <1>1 DEF UnloadNext, UnloaderReturn
<1>2. CASE \E force \in ForceAll : StartUnloadAll(u, force) /\ Busy(Loaded)
  BY <1>2 DEF StartUnloadAll
<1>3. CASE \E force \in ForceAll : StartUnloadAll(u, force) /\ ~Busy(Loaded)
  <2>1. PICK force \in ForceAll : UnloadNext(u, force, Loaded, Loaded, draining \cup Loaded)
    BY <1>3 DEF StartUnloadAll
  <2>2. unloaderPc[u] = "idle"
    BY <1>3 DEF StartUnloadAll
  <2> QED BY <1>1, <2>1, <2>2
<1>4. CASE UnloadAll(u)
  <2>1. \E models : UnloadNext(u, unloaderForce[u], quarantined[u], models, draining)
    BY <1>4 DEF UnloadAll
  <2> QED BY <1>1, <2>1
<1>5. CASE UnloadAllBusy(u)
  BY <1>5 DEF UnloadAllBusy, UnloaderReturn
<1> QED BY <1>2, <1>3, <1>4, <1>5 DEF UnloaderAction

LEMMA UnloaderDrainStep ==
  ASSUME PoolInv, UnloaderDrainInv, Admin = {}, \A u, v \in Unloader : u = v, [Next]_vars
  PROVE  UnloaderDrainInv'
<1> SUFFICES ASSUME NEW u \in Unloader, unloaderPc'[u] = "drain"
             PROVE  quarantined'[u] \subseteq draining'
  BY DEF UnloaderDrainInv
<1>1. CASE UnloaderAction(u)
  BY <1>1, UnloaderDrains
<1>2. CASE UNCHANGED allVars /\ draining' = draining
  BY <1>2 DEF UnloaderDrainInv, allVars
<1>3. LoopAction \/ UNCHANGED vars => UNCHANGED allVars
  BY DEF LoopAction, ServerStep, SpawnServer, ServerReady, ServerLoadRaises, ServerLoadFailed,
     ServerExits, UnloadDone, CrashNoticed, IdleUnload, othersUnchanged, NotifyWaiters, EnableModel,
     BlockBootstrap, UnblockBootstrap, vars
<1>4. LoopAction \/ UNCHANGED vars => draining' = draining
  BY DEF LoopAction, ServerStep, SpawnServer, ServerReady, ServerLoadRaises, ServerLoadFailed,
     ServerExits, UnloadDone, CrashNoticed, IdleUnload, othersUnchanged, NotifyWaiters, EnableModel,
     BlockBootstrap, UnblockBootstrap, vars, gateVars
<1> QED BY <1>1, <1>2, <1>3, <1>4, WhoMoves, RequestMovesAlone DEF gateVars

\* What a drain waits for while it goes on, or when it ends.
LEMMA DrainTarget ==
  ASSUME PoolInv, [Next]_vars
  PROVE  /\ \A a \in Admin : adminPc[a] = "drain" => adminModel'[a] \in {adminModel[a], None}
         /\ \A u \in Unloader : unloaderPc[u] = "drain" => quarantined'[u] \subseteq quarantined[u]
<1>1. ASSUME NEW a \in Admin, adminPc[a] = "drain", AdminAction(a)
      PROVE  adminModel'[a] \in {adminModel[a], None}
  BY <1>1 DEF AdminAction, AdminStart, AdminStep, AdminLock, AdminQuarantine, AdminDrained, AdminEnd,
     AdminProceed, AdminReturn, PoolInv, TypeOK, AdminTypeOK
<1>2. ASSUME UNCHANGED adminVars
      PROVE  \A a \in Admin : adminModel'[a] = adminModel[a]
  BY <1>2 DEF adminVars
<1>3. \A a \in Admin : adminPc[a] = "drain" => adminModel'[a] \in {adminModel[a], None}
  BY <1>1, <1>2, WhoMoves, LoopMovesNobody, RequestMovesAlone, AdminMovesAlone
<1>4. LoopAction \/ UNCHANGED vars => UNCHANGED quarantined
  BY DEF LoopAction, ServerStep, SpawnServer, ServerReady, ServerLoadRaises, ServerLoadFailed,
     ServerExits, UnloadDone, CrashNoticed, IdleUnload, othersUnchanged, NotifyWaiters, EnableModel,
     BlockBootstrap, UnblockBootstrap, vars, allVars
<1>5. (\E r \in Request : RequestAction(r)) \/ (\E a \in Admin : AdminAction(a)) => UNCHANGED quarantined
  BY RequestMovesAlone, AdminMovesAlone DEF allVars
<1>6. \A u \in Unloader : unloaderPc[u] = "drain" => quarantined'[u] \subseteq quarantined[u]
  BY <1>4, <1>5, WhoMoves, UnloaderDrains
<1> QED BY <1>3, <1>6

\* While a drain waits, the requests it waits for only become fewer, with any
\* number of admin routes, or with one unload_all_models.  Two of them share
\* _draining without counting, so the first to return opens what the other drains.
THEOREM DrainAlwaysShrinks ==
  ASSUME Unloader = {} \/ (Admin = {} /\ \A u, v \in Unloader : u = v)
  PROVE  Spec => DrainOnlyShrinks
<1> DEFINE DInv == PoolInv /\ AdminDrainInv /\ UnloaderDrainInv
<1>1. Init => DInv
  BY PoolInvInit DEF Init, AdminDrainInv, UnloaderDrainInv
<1>2. DInv /\ [Next]_vars => DInv'
  <2> SUFFICES ASSUME DInv, [Next]_vars PROVE DInv'
    OBVIOUS
  <2>1. PoolInv'
    BY PoolInvStep
  <2>2. CASE Unloader = {}
    <3>1. AdminDrainInv'
      BY <2>2, AdminDrainStep
    <3> QED BY <2>1, <2>2, <3>1 DEF UnloaderDrainInv
  <2>3. CASE Admin = {} /\ \A u, v \in Unloader : u = v
    <3>1. UnloaderDrainInv'
      BY <2>3, UnloaderDrainStep
    <3> QED BY <2>1, <2>3, <3>1 DEF AdminDrainInv
  <2> QED BY <2>2, <2>3
<1>3. ASSUME DInv, DInv', [Next]_vars
      PROVE  /\ \A a \in Admin :
                  adminPc[a] = "drain" => ServedOf({adminModel[a]})' \subseteq ServedOf({adminModel[a]})
             /\ \A u \in Unloader :
                  unloaderPc[u] = "drain" => ServedOf(quarantined[u])' \subseteq ServedOf(quarantined[u])
  <2>1. ASSUME NEW models, NEW next, models \subseteq draining, next \subseteq models \cup {None},
               NEW r \in Request, pc'[r] = "serving", target'[r] \in next
        PROVE  pc[r] = "serving" /\ target[r] \in models
    <3>1. target'[r] = target[r] /\ (pc[r] = "serving" \/ Admitted(target[r]))
      BY <1>3, <2>1, NewServing
    <3>2. target'[r] \in Model
      BY <1>3, <2>1 DEF PoolInv, RequestInv, RequestInvOf
    <3> QED BY <2>1, <3>1, <3>2, NoneIsNothing DEF Admitted
  <2>2. ASSUME NEW a \in Admin, adminPc[a] = "drain"
        PROVE  ServedOf({adminModel[a]})' \subseteq ServedOf({adminModel[a]})
    <3>1. {adminModel[a]} \subseteq draining /\ {adminModel'[a]} \subseteq {adminModel[a]} \cup {None}
      BY <1>3, <2>2, DrainTarget DEF AdminDrainInv
    <3> QED BY <2>1, <3>1 DEF ServedOf
  <2>3. ASSUME NEW u \in Unloader, unloaderPc[u] = "drain"
        PROVE  ServedOf(quarantined[u])' \subseteq ServedOf(quarantined[u])
    <3>1. quarantined[u] \subseteq draining /\ quarantined'[u] \subseteq quarantined[u] \cup {None}
      BY <1>3, <2>3, DrainTarget DEF UnloaderDrainInv
    <3> QED BY <2>1, <3>1 DEF ServedOf
  <2> QED BY <2>2, <2>3
<1>4. DInv /\ DInv' /\ [Next]_vars =>
        [/\ \A a \in Admin :
              adminPc[a] = "drain" => ServedOf({adminModel[a]})' \subseteq ServedOf({adminModel[a]})
         /\ \A u \in Unloader :
              unloaderPc[u] = "drain" => ServedOf(quarantined[u])' \subseteq ServedOf(quarantined[u])]_vars
  BY <1>3
<1> QED
  <2> HIDE DEF DInv
  <2> QED BY <1>1, <1>2, <1>4, PTL DEF Spec, DrainOnlyShrinks

-----------------------------------------------------------------------------
(* Ports and processes                                                     *)

\* Who starts to wait for a load, and who starts an eviction.
LEMMA NewLoader ==
  ASSUME PoolInv, [Next]_vars, NEW r \in Request, pc'[r] \in Loader, pc[r] \notin Loader
  PROVE  \E i \in Instance : CreateManager(r, i)
<1> USE DEF PoolInv, TypeOK, RequestTypeOK
<1>1. CASE RequestAction(r)
  <2>1. CASE \/ \E m \in Model : StartRequest(r, m)
             \/ EnterModel(r) \/ WaitForUnload(r) \/ ObtainLoaded(r)
             \/ \E x \in Model : EvictLru(r, x)
    BY <2>1 DEF StartRequest, EnterModel, WaitForUnload, ObtainLoaded, Obtain, EvictLru, Over, Goto, Loader
  <2>2. CASE Refuse(r) \/ QueueTimeout(r) \/ FinishRequest(r) \/ QueueUp(r)
    BY <2>2 DEF Refuse, QueueTimeout, Fail, FinishRequest, QueueUp, Over, Goto, Loader
  <2>3. CASE LoadRefused(r) \/ LoadTimeout(r) \/ ForgetFailedManager(r)
    BY <2>3 DEF LoadRefused, LoadTimeout, ForgetFailedManager, Loader
  <2> QED BY <1>1, <2>1, <2>2, <2>3 DEF RequestAction, RequestStep
<1>2. ASSUME NEW q \in Request \ {r}, RequestAction(q)
      PROVE  FALSE
  BY <1>2, RequestMovesAlone
<1>3. CASE UNCHANGED reqVars
  BY <1>3 DEF reqVars
<1> QED BY <1>1, <1>2, <1>3, WhoMoves, LoopMovesNobody, AdminMovesAlone

LEMMA NewEvictor ==
  ASSUME PoolInv, [Next]_vars, NEW r \in Request, pc'[r] = "evicting"
  PROVE  \/ /\ pc[r] = "evicting" /\ handle'[r] = handle[r]
            /\ \A i \in Instance : ~CreateManager(r, i)
         \/ \E x \in Model : EvictLru(r, x)
<1> USE DEF PoolInv, TypeOK, RequestTypeOK
<1>0. \A i \in Instance : ~CreateManager(r, i)
  BY DEF CreateManager, Goto
<1>1. CASE RequestAction(r)
  <2>1. CASE \/ \E m \in Model : StartRequest(r, m)
             \/ EnterModel(r) \/ WaitForUnload(r) \/ ObtainLoaded(r)
    BY <2>1 DEF StartRequest, EnterModel, WaitForUnload, ObtainLoaded, Obtain, Over, Goto
  <2>2. CASE Refuse(r) \/ QueueTimeout(r) \/ FinishRequest(r) \/ QueueUp(r)
    BY <2>2 DEF Refuse, QueueTimeout, Fail, FinishRequest, QueueUp, Over, Goto
  <2>3. CASE LoadRefused(r) \/ LoadTimeout(r) \/ ForgetFailedManager(r)
    BY <2>3 DEF LoadRefused, LoadTimeout, ForgetFailedManager, Over, Goto
  <2> QED BY <1>0, <1>1, <2>1, <2>2, <2>3 DEF RequestAction, RequestStep
<1>2. ASSUME NEW q \in Request \ {r}, RequestAction(q)
      PROVE  pc[r] = "evicting" /\ handle'[r] = handle[r]
  BY <1>2, RequestMovesAlone
<1>3. ASSUME UNCHANGED reqVars
      PROVE  pc[r] = "evicting" /\ handle'[r] = handle[r]
  BY <1>3 DEF reqVars
<1> QED
  <2> DEFINE Stays  == pc[r] = "evicting" /\ handle'[r] = handle[r]
             Starts == \E x \in Model : EvictLru(r, x)
  <2>1. Stays \/ Starts
    <3>1. RequestAction(r) => Stays \/ Starts
      BY <1>1
    <3>2. (\E q \in Request \ {r} : RequestAction(q)) => Stays
      BY <1>2
    <3>3. UNCHANGED reqVars => Stays
      BY <1>3
    <3> HIDE DEF Stays, Starts
    <3> QED BY <3>1, <3>2, <3>3, WhoMoves, LoopMovesNobody, AdminMovesAlone
  <2> QED BY <1>0, <2>1

\* An evictor waits until its victim is gone.
LEMMA EvictorStays ==
  ASSUME PoolInv, [Next]_vars, NEW r \in Request, pc[r] = "evicting", state[handle[r]] = "UNLOADING"
  PROVE  pc'[r] = "evicting" /\ handle'[r] = handle[r]
<1> USE DEF PoolInv, TypeOK, RequestTypeOK
<1>1. ~RequestAction(r)
  <2>1. ~AtCapacityCheck(r) /\ ~AtUnloadCheck(r)
    BY DEF AtCapacityCheck, AtUnloadCheck
  <2> QED BY <2>1 DEF RequestAction, RequestStep, StartRequest, EnterModel, WaitForUnload, EvictLru,
             CreateManager, QueueUp, Refuse, QueueTimeout, ObtainLoaded, LoadRefused, LoadTimeout,
             ForgetFailedManager, FinishRequest
<1>2. ASSUME NEW q \in Request \ {r}, RequestAction(q)
      PROVE  pc'[r] = pc[r] /\ handle'[r] = handle[r]
  BY <1>2, RequestMovesAlone
<1>3. CASE UNCHANGED reqVars
  BY <1>3 DEF reqVars
<1> QED BY <1>1, <1>2, <1>3, WhoMoves, LoopMovesNobody, AdminMovesAlone

\* The gates of a model that is being loaded are open, and stay so: whoever closes
\* one holds its model_lock or is an unload_all_models or a bootstrap transition.
GateInv ==
  /\ bootstrapBlocked = {}
  /\ \A m \in draining :
       \E a \in Admin : adminPc[a] \in {"drain", "unloading"} /\ adminModel[a] = m
  /\ \A r \in Request : pc[r] = "waitReady" => target[r] \in enabled

LEMMA WaitingIsAdmitted ==
  ASSUME PoolInv, GateInv, NEW r \in Request, pc[r] = "waitReady"
  PROVE  Admitted(target[r])
<1>1. target[r] \in Model /\ modelLock[target[r]] = r
  BY DEF PoolInv, RequestInv, RequestInvOf, HoldsLock, RequestPc
<1>2. target[r] \notin draining
  BY <1>1, NoneIsNothing DEF GateInv, PoolInv, AdminInv, AdminInvOf
<1> QED BY <1>2 DEF GateInv, Admitted

\* An admin route that keeps its model closed is still there.
LEMMA AdminOwnsDrain ==
  ASSUME PoolInv, NEW a \in Admin, AdminAction(a), adminModel[a] \in draining',
         adminPc[a] \in {"drain", "unloading"} \/ adminModel[a] \notin draining
  PROVE  adminPc'[a] \in {"drain", "unloading"} /\ adminModel'[a] = adminModel[a]
<1> USE DEF PoolInv, TypeOK, AdminTypeOK
<1>1. CASE (\E m \in Model, op \in AdminOp : AdminStart(a, m, op)) \/ AdminLock(a)
  BY <1>1 DEF AdminStart, AdminLock, gateVars
<1>2. CASE AdminQuarantine(a)
  BY <1>2 DEF AdminQuarantine, AdminProceed, AdminReturn
<1>3. CASE AdminDrained(a) \/ AdminEnd(a)
  BY <1>3 DEF AdminDrained, AdminEnd, AdminProceed, AdminReturn
<1> QED BY <1>1, <1>2, <1>3 DEF AdminAction, AdminStep

\* An admin route disables its own model, under its lock.
LEMMA AdminDisablesItsOwn ==
  ASSUME PoolInv, NEW a \in Admin, AdminAction(a), NEW m \in enabled \ enabled'
  PROVE  modelLock[m] = a
<1> USE DEF PoolInv, TypeOK, AdminTypeOK
<1>1. CASE (\E n \in Model, op \in AdminOp : AdminStart(a, n, op)) \/ AdminLock(a)
  BY <1>1 DEF AdminStart, AdminLock, gateVars
<1>2. CASE AdminQuarantine(a)
  BY <1>2 DEF AdminQuarantine, AdminProceed, AdminReturn, AdminInv, AdminInvOf
<1>3. CASE AdminDrained(a) \/ AdminEnd(a)
  BY <1>3 DEF AdminDrained, AdminEnd, AdminProceed, AdminReturn, AdminInv, AdminInvOf
<1> QED BY <1>1, <1>2, <1>3 DEF AdminAction, AdminStep

LEMMA GateInvStep ==
  ASSUME PoolInv, GateInv, Unloader = {}, Provisional = {}, [Next]_vars
  PROVE  GateInv'
<1>1. LoopAction \/ UNCHANGED vars =>
        UNCHANGED <<bootstrapBlocked, draining>> /\ enabled \subseteq enabled'
  BY DEF LoopAction, ServerStep, SpawnServer, ServerReady, ServerLoadRaises, ServerLoadFailed,
     ServerExits, UnloadDone, CrashNoticed, IdleUnload, othersUnchanged, NotifyWaiters, EnableModel,
     vars, gateVars
<1>2. (\E r \in Request : RequestAction(r)) =>
        UNCHANGED <<bootstrapBlocked, draining, enabled, adminVars>>
  BY RequestMovesAlone DEF gateVars
<1>3. bootstrapBlocked' = {}
  BY <1>1, <1>2, WhoMoves, AdminMovesAlone DEF GateInv
<1>4. ASSUME NEW m \in draining'
      PROVE  \E a \in Admin : adminPc'[a] \in {"drain", "unloading"} /\ adminModel'[a] = m
  <2>1. ASSUME NEW a \in Admin, AdminAction(a)
        PROVE  \E b \in Admin : adminPc'[b] \in {"drain", "unloading"} /\ adminModel'[b] = m
    <3>1. CASE m \in draining
      <4>1. PICK b \in Admin : adminPc[b] \in {"drain", "unloading"} /\ adminModel[b] = m
        BY <3>1 DEF GateInv
      <4> QED BY <1>4, <2>1, <4>1, AdminOwnsDrain, AdminMovesAlone
    <3>2. CASE m \notin draining
      BY <1>4, <2>1, <3>2, AdminDrains, AdminOwnsDrain
    <3> QED BY <3>1, <3>2
  <2>2. CASE UNCHANGED <<adminVars, draining>>
    BY <1>4, <2>2 DEF GateInv, adminVars
  <2> QED BY <1>1, <1>2, <2>1, <2>2, WhoMoves, LoopMovesNobody
<1>5. ASSUME NEW r \in Request, pc'[r] = "waitReady"
      PROVE  target'[r] \in enabled'
  <2>1. CASE pc[r] \in Loader
    <3>1. ~ObtainLoaded(r) /\ ~ForgetFailedManager(r) /\ ~LoadTimeout(r) /\ ~LoadRefused(r)
      BY <1>5, <2>1 DEF ObtainLoaded, Obtain, Over, ForgetFailedManager, LoadTimeout, LoadRefused, Goto,
         PoolInv, TypeOK, RequestTypeOK
    <3>2. pc[r] = "waitReady" /\ target'[r] = target[r]
      BY <1>5, <2>1, <3>1, LoaderKeeps
    <3>3. target[r] \in enabled /\ modelLock[target[r]] = r
      BY <3>2 DEF GateInv, PoolInv, RequestInv, RequestInvOf, HoldsLock, RequestPc
    <3> QED BY <1>1, <1>2, <3>2, <3>3, WhoMoves, AdminDisablesItsOwn, NoneIsNothing
  <2>2. CASE pc[r] \notin Loader
    <3>1. PICK i \in Instance : CreateManager(r, i)
      BY <1>5, <2>2, NewLoader DEF Loader
    <3> QED BY <3>1 DEF CreateManager, Admitted, gateVars
  <2> QED BY <2>1, <2>2
<1> QED BY <1>3, <1>4, <1>5 DEF GateInv

Evicted(i) == \E e \in Request : pc[e] = "evicting" /\ handle[e] = i

\* The managers that requests have in their hands: a victim goes down; the load a
\* request sees through is of its own model, goes down under it only by eviction,
\* and is over once the request is about to forget it.
HandInvOf(r) ==
  /\ pc[r] = "evicting" => ~Unloadable(handle[r])
  /\ pc[r] \in Loader => modelOf[handle[r]] = target[r]
  /\ pc[r] \in Loader \ {"timeoutUnload"} =>
       (state[handle[r]] = "UNLOADING" => Evicted(handle[r]))
  /\ pc[r] \in Loader \ {"waitReady"} => ~Unloadable(handle[r])

HandInv == \A r \in Request : HandInvOf(r)

\* The pool never loses sight of a server that is not UNLOADED.
NoOrphan == \A i \in Instance : state[i] # "UNLOADED" => InPool(i)

\* Only the creation of a manager disturbs the state of a manager that is down,
\* and never that of one a request waits for.
LEMMA HandUntouched ==
  ASSUME PoolInv, TicketInv, [Next]_vars, NEW r \in Request,
         pc[r] \in Loader \/ (pc[r] = "evicting" /\ pc'[r] = "evicting")
  PROVE  /\ modelOf'[handle[r]] = modelOf[handle[r]]
         /\ ~Unloadable(handle[r]) => state'[handle[r]] \notin {"LOADING", "READY"}
<1> USE DEF PoolInv, TypeOK
<1>0. handle[r] \in Instance
  BY DEF Loader, RequestInv, RequestInvOf, KnowsManager
<1>1. CASE NothingBuilt
  BY <1>0, <1>1 DEF NothingBuilt, Unloadable
<1>2. ASSUME NEW q \in Request, NEW j \in Instance, CreateManager(q, j)
      PROVE  handle[r] # j
  <2>1. CASE pc[r] \in Loader
    BY <1>2, <2>1 DEF CreateManager, Fresh, Loader
  <2>2. CASE pc[r] = "evicting" /\ pc'[r] = "evicting"
    <3>1. r = q
      BY <1>2, <2>2, AtCheckAlone DEF CreateManager
    <3> QED BY <1>2, <2>2, <3>1 DEF CreateManager, Goto, RequestTypeOK
  <2> QED BY <2>1, <2>2
<1>3. ASSUME NEW q \in Request, NEW j \in Instance, CreateManager(q, j)
      PROVE  modelOf'[handle[r]] = modelOf[handle[r]] /\ state'[handle[r]] = state[handle[r]]
  <2>1. /\ modelOf' = [modelOf EXCEPT ![j] = target[q]]
        /\ state' = [state EXCEPT ![j] = "LOADING"]
    BY <1>3, CreateBuildsOne DEF CreateManager
  <2> QED BY <1>0, <1>2, <1>3, <2>1 DEF PoolTypeOK, SMTypeOK
<1> QED BY <1>1, <1>3, OnlyCreateBuilds DEF Unloadable

\* Two requests, or a request and an admin route, never have the same model locked.
LEMMA OneLoader ==
  ASSUME PoolInv, HandInv, NEW r \in Request, pc[r] \in Loader
  PROVE  /\ \A q \in Request : pc[q] \in Loader /\ handle[q] = handle[r] => q = r
         /\ \A a \in Admin : adminPc[a] \in {"lookup", "drain", "unloading"} /\ adminModel[a] \in Model
                               => managers[adminModel[a]] # handle[r]
<1> USE DEF PoolInv
<1>1. \A q \in Request : pc[q] \in Loader =>
        /\ modelOf[handle[q]] = target[q] /\ modelLock[target[q]] = q /\ handle[q] \in Instance
  BY DEF HandInv, HandInvOf, Loader, RequestInv, RequestInvOf, HoldsLock, RequestPc, KnowsManager
<1>2. \A m \in Model : managers[m] # None => modelOf[managers[m]] = m
  BY DEF PoolConsistent
<1> QED BY <1>1, <1>2, NoneIsNothing DEF AdminInv, AdminInvOf

\* A load goes down under the request that waits for it only by eviction.
LEMMA OnlyEvictionFromWaiter ==
  ASSUME PoolInv, HandInv, Unloader = {}, [Next]_vars, NEW r \in Request,
         pc[r] \in Loader \ {"timeoutUnload"}, pc'[r] \in Loader \ {"timeoutUnload"},
         state[handle[r]] # "UNLOADING", state'[handle[r]] = "UNLOADING"
  PROVE  \E e \in Request : pc'[e] = "evicting" /\ handle'[e] = handle[r]
<1> USE DEF PoolInv, TypeOK, SMTypeOK
<1> DEFINE h == handle[r]
<1>0. h \in Instance
  BY DEF Loader, RequestInv, RequestInvOf, KnowsManager
<1>1. CASE UNCHANGED smVars
  BY <1>1 DEF smVars
<1>2. ASSUME NEW q \in Request, NEW j \in Instance, CreateManager(q, j)
      PROVE  FALSE
  BY <1>0, <1>2, CreateBuildsOne
<1>3. ASSUME NEW j \in Instance, ServerStep(j), ~IdleUnload(j)
      PROVE  FALSE
  BY <1>0, <1>3 DEF ServerStep, SpawnServer, StartProcess, ServerReady, BecomeReady,
     ServerLoadRaises, LoadRaises, ServerLoadFailed, LoadFailed, ServerExits, ProcessExits,
     UnloadDone, FinishUnload, CrashNoticed, MarkCrashed
<1>4. ASSUME NEW j \in Instance, StopCause(j)
      PROVE  \E e \in Request : pc'[e] = "evicting" /\ handle'[e] = h
  <2>1. j = h /\ Unloadable(h)
    BY <1>0, <1>4 DEF StopCause, BeginUnload
  <2>2. pc[r] = "waitReady"
    BY <2>1 DEF HandInv, HandInvOf, Loader
  <2>3. ~IdleUnload(h)
    BY <2>2 DEF IdleUnload, ResumePending
  <2>4. ~UnloaderStops(h)
    BY DEF UnloaderStops
  <2>5. ~TimesOut(h)
    <3> SUFFICES ASSUME NEW q \in Request, LoadTimeout(q), handle[q] = h
                 PROVE  FALSE
      BY DEF TimesOut
    <3>1. q = r
      BY OneLoader DEF LoadTimeout, Loader
    <3> QED BY <3>1 DEF LoadTimeout, RequestTypeOK
  <2>6. ~AdminStops(h)
    BY OneLoader DEF AdminStops, AdminQuarantine, AdminDrained
  <2>7. Evicts(h)
    BY <1>4, <2>1, <2>3, <2>4, <2>5, <2>6 DEF StopCause
  <2>8. PICK q \in Request, x \in Model : EvictLru(q, x) /\ managers[x] = h
    BY <2>7 DEF Evicts
  <2>9. pc'[q] = "evicting" /\ handle'[q] = h
    BY <2>8 DEF EvictLru, Goto, RequestTypeOK
  <2> QED BY <2>9
<1> QED BY <1>1, <1>2, <1>3, <1>4, StepKinds

LEMMA HandInvStep ==
  ASSUME PoolInv, SMInv, EventsMatch, TicketInv, GateInv, HandInv, Unloader = {}, [Next]_vars
  PROVE  HandInv'
<1> SUFFICES ASSUME NEW r \in Request PROVE HandInvOf(r)'
  BY DEF HandInv
<1> USE DEF PoolInv, TypeOK
<1> DEFINE h == handle[r]
<1>1. CASE pc'[r] = "evicting"
  <2>1. CASE pc[r] = "evicting" /\ handle'[r] = h
    <3>1. ~Unloadable(h)
      BY <2>1 DEF HandInv, HandInvOf
    <3> QED BY <1>1, <2>1, <3>1, HandUntouched DEF HandInvOf, Loader, Unloadable
  <2>2. ASSUME NEW x \in Model, EvictLru(r, x)
        PROVE  handle'[r] \in Instance /\ state'[handle'[r]] = "UNLOADING"
    BY <2>2 DEF EvictLru, LeastRecentlyUsed, IdleModels, Loaded, PoolTypeOK, BeginUnload, Goto,
                RequestTypeOK, SMTypeOK
  <2> QED BY <1>1, <2>1, <2>2, NewEvictor DEF HandInvOf, Loader, Unloadable
<1>2. CASE pc'[r] \in Loader /\ pc[r] \notin Loader
  <2>1. PICK i \in Instance : CreateManager(r, i)
    BY <1>2, NewLoader
  <2>2. /\ pc'[r] = "waitReady" /\ handle'[r] = i /\ target'[r] = target[r]
        /\ modelOf'[i] = target[r] /\ state'[i] = "LOADING"
    BY <2>1 DEF CreateManager, BeginLoad, Goto, RequestTypeOK, PoolTypeOK, SMTypeOK
  <2> QED BY <2>2 DEF HandInvOf, Loader
<1>3. CASE pc'[r] \in Loader /\ pc[r] \in Loader
  <2>1. /\ handle'[r] = h /\ target'[r] = target[r]
        /\ pc'[r] = pc[r] \/ LoadTimeout(r) \/ LoadRefused(r)
    <3>1. ~ObtainLoaded(r) /\ ~ForgetFailedManager(r)
      BY <1>3 DEF ObtainLoaded, Obtain, Over, ForgetFailedManager, Goto, RequestTypeOK, Loader
    <3> QED BY <1>3, <3>1, LoaderKeeps
  <2>2. h \in Instance /\ HandInvOf(r)
    BY <1>3 DEF Loader, RequestInv, RequestInvOf, KnowsManager, HandInv
  <2>3. modelOf'[h] = target[r]
    BY <1>3, <2>2, HandUntouched DEF HandInvOf
  <2>4. ASSUME pc'[r] # "timeoutUnload", state'[h] = "UNLOADING"
        PROVE  \E e \in Request : pc'[e] = "evicting" /\ handle'[e] = h
    <3>1. pc[r] # "timeoutUnload"
      BY <2>1, <2>4 DEF LoadTimeout, LoadRefused
    <3>2. CASE state[h] = "UNLOADING"
      <4>1. PICK e \in Request : pc[e] = "evicting" /\ handle[e] = h
        BY <1>3, <2>2, <3>1, <3>2 DEF HandInvOf, Evicted
      <4> QED BY <3>2, <4>1, EvictorStays
    <3>3. CASE state[h] # "UNLOADING"
      BY <1>3, <2>4, <3>1, <3>3, OnlyEvictionFromWaiter
    <3> QED BY <3>2, <3>3
  <2>5. ASSUME pc'[r] # "waitReady"
        PROVE  state'[h] \notin {"LOADING", "READY"}
    <3>1. CASE pc[r] # "waitReady"
      BY <1>3, <2>2, <3>1, HandUntouched DEF HandInvOf
    <3>2. CASE LoadTimeout(r)
      BY <2>2, <3>2 DEF LoadTimeout, StopManager, BeginUnload, SMTypeOK
    <3>3. CASE pc[r] = "waitReady" /\ LoadRefused(r)
      <4>1. ~Unloadable(h)
        BY <2>2, <3>3, WaitingIsAdmitted DEF LoadRefused, LoadSucceeded, EventsMatch, Unloadable
      <4> QED BY <1>3, <4>1, HandUntouched
    <3> QED BY <2>1, <2>5, <3>1, <3>2, <3>3
  <2> QED BY <1>3, <2>1, <2>3, <2>4, <2>5 DEF HandInvOf, Unloadable, Loader, Evicted
<1> QED BY <1>1, <1>2, <1>3 DEF HandInvOf, Loader

\* Whoever takes a manager out of the pool.
LEMMA WhoReleases ==
  ASSUME PoolInv, [Next]_vars, NEW m \in Model, managers'[m] # managers[m]
  PROVE  \/ \E r \in Request, i \in Instance : CreateManager(r, i)
         \/ \E i \in Instance : /\ UnloadDone(i) \/ CrashNoticed(i)
                                /\ managers[m] = i
         \/ \E r \in Request : ForgetFailedManager(r) /\ managers[m] = handle[r]
<1> USE DEF PoolInv, TypeOK
<1>1. ASSUME NEW i, NEW n, Release(n, i)
      PROVE  managers[m] = i
  BY <1>1 DEF Release, PoolTypeOK, poolVars
<1>2. ASSUME NEW r \in Request, RequestAction(r), ~ \E i \in Instance : CreateManager(r, i)
      PROVE  ForgetFailedManager(r) /\ managers[m] = handle[r]
  <2>1. ForgetFailedManager(r)
    BY <1>2 DEF RequestAction, RequestStep, StartRequest, EnterModel, WaitForUnload, EvictLru, QueueUp,
       Refuse, QueueTimeout, Fail, ObtainLoaded, LoadRefused, LoadTimeout, FinishRequest, poolVars
  <2> QED BY <1>1, <2>1 DEF ForgetFailedManager
<1>3. ASSUME NEW i \in Instance, ServerStep(i)
      PROVE  (UnloadDone(i) \/ CrashNoticed(i)) /\ managers[m] = i
  <2>1. UnloadDone(i) \/ CrashNoticed(i)
    BY <1>3 DEF ServerStep, SpawnServer, ServerReady, ServerLoadRaises, ServerLoadFailed, ServerExits,
       IdleUnload, poolVars
  <2> QED BY <1>1, <2>1 DEF UnloadDone, CrashNoticed
<1>4. ~ \E a \in Admin : AdminAction(a)
  BY AdminMovesAlone DEF poolVars
<1>5. ~ \E u \in Unloader : UnloaderAction(u)
  BY DEF UnloaderAction, StartUnloadAll, UnloadAll, UnloadAllBusy, poolVars
<1>6. ~ UNCHANGED vars
  BY DEF vars, poolVars
<1>7. LoopAction => \E i \in Instance : ServerStep(i)
  BY DEF LoopAction, NotifyWaiters, EnableModel, BlockBootstrap, UnblockBootstrap, poolVars
<1> QED BY <1>2, <1>3, <1>4, <1>5, <1>6, <1>7, WhoMoves

LEMMA NoOrphanStep ==
  ASSUME PoolInv, SMInv, TicketInv, HandInv, NoOrphan, [Next]_vars
  PROVE  NoOrphan'
<1> SUFFICES ASSUME NEW i \in Instance, state'[i] # "UNLOADED"
             PROVE  \E m \in Model : managers'[m] = i
  BY DEF NoOrphan, InPool
<1> USE DEF PoolInv, TypeOK, SMTypeOK
<1>1. CASE state[i] = "UNLOADED"
  <2>1. \E r \in Request : CreateManager(r, i)
    <3>1. CASE UNCHANGED smVars
      BY <1>1, <3>1 DEF smVars
    <3>2. ASSUME NEW r \in Request, NEW j \in Instance, CreateManager(r, j)
          PROVE  j = i
      BY <1>1, <3>2, CreateBuildsOne
    <3>3. ASSUME NEW j \in Instance, ServerStep(j), ~IdleUnload(j)
          PROVE  FALSE
      <4>1. loadTask[i] = "none"
        BY <1>1 DEF SMInv, LoadTaskMatchesState
      <4> QED BY <1>1, <3>3, <4>1 DEF ServerStep, SpawnServer, StartProcess, ServerReady, BecomeReady,
         ServerLoadRaises, LoadRaises, ServerLoadFailed, LoadFailed, ServerExits, ProcessExits,
         UnloadDone, FinishUnload, CrashNoticed, MarkCrashed
    <3>4. ASSUME NEW j \in Instance, StopCause(j)
          PROVE  FALSE
      BY <1>1, <3>4 DEF StopCause, BeginUnload, Unloadable
    <3> QED BY <3>1, <3>2, <3>3, <3>4, StepKinds
  <2> QED BY <2>1, CreateBuildsOne DEF PoolTypeOK
<1>2. CASE state[i] # "UNLOADED"
  <2>1. PICK m \in Model : managers[m] = i
    BY <1>2 DEF NoOrphan, InPool
  <2>2. CASE managers'[m] = managers[m]
    BY <2>1, <2>2
  <2>3. ASSUME managers'[m] # managers[m]
        PROVE  FALSE
    <3>1. ASSUME NEW r \in Request, NEW j \in Instance, CreateManager(r, j)
          PROVE  FALSE
      <4>1. /\ target[r] \in Model /\ managers[target[r]] = None
            /\ managers' = [managers EXCEPT ![target[r]] = j]
        BY <3>1, CreateBuildsOne
      <4>2. m # target[r]
        BY <2>1, <4>1, NoneIsNothing
      <4> QED BY <2>3, <4>1, <4>2 DEF PoolTypeOK
    <3>2. ASSUME UnloadDone(i) \/ CrashNoticed(i)
          PROVE  FALSE
      BY <3>2 DEF UnloadDone, FinishUnload, CrashNoticed, MarkCrashed
    <3>3. ASSUME NEW r \in Request, ForgetFailedManager(r), handle[r] = i
          PROVE  FALSE
      <4>1. CondFree /\ pc[r] \in Loader \ {"waitReady"} /\ UNCHANGED smVars
        BY <3>3 DEF ForgetFailedManager, Loader
      <4>2. ~Unloadable(i)
        BY <3>3, <4>1 DEF HandInv, HandInvOf
      <4>3. state[i] # "UNLOADING"
        <5>1. CASE pc[r] = "timeoutUnload"
          BY <3>3, <5>1 DEF ForgetFailedManager
        <5>2. CASE pc[r] # "timeoutUnload"
          <6>1. state[i] = "UNLOADING" => Evicted(i)
            BY <3>3, <4>1, <5>2 DEF HandInv, HandInvOf
          <6>2. ~Evicted(i)
            BY <3>3, <4>1, <5>2, AtCheckAlone DEF Evicted, Loader
          <6> QED BY <6>1, <6>2
        <5> QED BY <5>1, <5>2
      <4> QED BY <1>2, <4>2, <4>3 DEF Unloadable, ModelState
    <3> QED BY <2>1, <2>3, <3>1, <3>2, <3>3, WhoReleases
  <2> QED BY <2>2, <2>3
<1> QED BY <1>1, <1>2

\* One server per port, for any number of managers, ports, requests and admin
\* routes: a manager leaves the pool, and gives its port back, only when its
\* process is gone.  Without unload_all_models and without bootstrap transitions:
\* each may take a READY manager from the request that waits for it, which then
\* forgets a manager whose process is still being killed.
THEOREM OnePortOneServer ==
  ASSUME Unloader = {}, Provisional = {}
  PROVE  Spec => []OneServerPerPort
<1> DEFINE Inv == GateInv /\ HandInv /\ NoOrphan
           All == PoolInv /\ SMInv /\ EventsMatch /\ TicketInv
<1>1. Init => Inv
  <2> SUFFICES ASSUME Init PROVE Inv
    OBVIOUS
  <2>1. /\ bootstrapBlocked = {} /\ draining = {}
        /\ \A r \in Request : pc[r] = "idle"
        /\ \A i \in Instance : state[i] = "UNLOADED"
    BY DEF Init, SMInit
  <2> QED BY <2>1 DEF GateInv, HandInv, HandInvOf, NoOrphan, Loader
<1>2. All /\ Inv /\ [Next]_vars => Inv'
  BY GateInvStep, HandInvStep, NoOrphanStep
<1>3. All /\ Inv => OneServerPerPort
  <2> SUFFICES ASSUME PoolInv, SMInv, NoOrphan, NEW i \in Instance, process[i] = "alive"
               PROVE  /\ portOf[i] \notin PortsInPool
                      /\ \A j \in Instance \ {i} : process[j] = "alive" => portOf[j] # portOf[i]
    BY DEF OneServerPerPort
  <2>1. ASSUME NEW j \in Instance, process[j] = "alive"
        PROVE  \E m \in Model : /\ managers[m] = j /\ portOf[j] = allocatedPorts[m]
                                /\ allocatedPorts[m] \notin PortsInPool /\ allocatedPorts[m] # None
    <3>1. PICK m \in Model : managers[m] = j
      BY <2>1 DEF SMInv, ProcessOwned, NoOrphan, InPool
    <3> QED BY <3>1, NoneIsNothing DEF PoolInv, PoolConsistent
  <2> QED BY <2>1 DEF PoolInv, PoolConsistent
<1> QED
  <2> HIDE DEF Inv
  <2> QED BY <1>1, <1>2, <1>3, PoolInvariant, PoolSMInvariant, TicketInvariant, PTL DEF Spec
================================================================================
