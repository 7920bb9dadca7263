----------------------------- MODULE CapacityProofs -----------------------------
(***************************************************************************)
(* Capacity in LocalPool, for any number of models and requests: the VRAM  *)
(* budget is never exceeded, no ticket of the capacity queue is left       *)
(* behind, and no wake-up of its head is lost.                             *)
(***************************************************************************)
EXTENDS LocalPoolProofs, FiniteSetTheorems

-----------------------------------------------------------------------------
(* Sums over finite sets                                                   *)

\* A non-empty family of subsets of a finite set has a minimal member: what
\* stands for induction on finite sets below.
LEMMA MinimalSubset ==
  ASSUME NEW S, IsFiniteSet(S), NEW F \in SUBSET SUBSET S, F # {}
  PROVE  \E s \in F : \A t \in F : t \subseteq s => t = s
<1>1. F \subseteq FiniteSubsetsOf(S)
  BY FS_FiniteSubsetsOfFinite
<1>2. IsWellFoundedOn(StrictSubsetOrdering(S), FiniteSubsetsOf(S))
  BY FS_StrictSubsetOrderingWellFounded
<1>3. PICK s \in F : \A t \in F : ~ (<<t, s>> \in StrictSubsetOrdering(S))
  <2> HIDE DEF IsWellFoundedOn, FiniteSubsetsOf, StrictSubsetOrdering
  <2> QED BY <1>1, <1>2, WFMin
<1> QED BY <1>3 DEF StrictSubsetOrdering

SumOver(v, S) == MapThenSumSet(LAMBDA x : v[x], S)

\* The table MapThenFoldSet builds: the sum of every subset of T, each from the
\* sum of a smaller one.
AnElement(s) == CHOOSE x \in s : TRUE

IsTable(g, v, T) ==
  g = [s \in SUBSET T |->
         IF s = {} THEN 0 ELSE v[AnElement(s)] + g[s \ {AnElement(s)}]]

Table(v, T) == CHOOSE g : IsTable(g, v, T)

LEMMA SumIsInTable == \A v, S : SumOver(v, S) = Table(v, S)[S]
  BY DEF SumOver, Table, IsTable, AnElement, MapThenSumSet, MapThenFoldSet

LEMMA AnElementIsIn == \A s : s # {} => AnElement(s) \in s
  BY DEF AnElement

LEMMA TableEntry ==
  ASSUME NEW v, NEW T, NEW g, IsTable(g, v, T), NEW s \in SUBSET T
  PROVE  g[s] = IF s = {} THEN 0 ELSE v[AnElement(s)] + g[s \ {AnElement(s)}]
  BY DEF IsTable

LEMMA TableUnique ==
  ASSUME NEW v, NEW T, IsFiniteSet(T), NEW g, NEW h, IsTable(g, v, T), IsTable(h, v, T)
  PROVE  g = h
<1> DEFINE Differ == {s \in SUBSET T : g[s] # h[s]}
<1>0. Differ \in SUBSET SUBSET T
  OBVIOUS
<1>1. Differ = {}
  <2>1. SUFFICES ASSUME Differ # {} PROVE FALSE
    OBVIOUS
  <2>2. PICK s \in Differ : \A t \in Differ : t \subseteq s => t = s
    <3> HIDE DEF Differ
    <3> QED BY <1>0, <2>1, MinimalSubset
  <2>3. s # {}
    <3>1. {} \in SUBSET T
      OBVIOUS
    <3>2. g[{}] = 0 /\ h[{}] = 0
      BY <3>1, TableEntry
    <3> QED BY <2>2, <3>2
  <2>4. AnElement(s) \in s
    BY <2>3, AnElementIsIn
  <2>5. g[s \ {AnElement(s)}] = h[s \ {AnElement(s)}]
    BY <2>2, <2>4
  <2> QED BY <2>2, <2>3, <2>5, TableEntry
<1>2. DOMAIN g = SUBSET T /\ DOMAIN h = SUBSET T
  BY DEF IsTable
<1>3. g = [s \in SUBSET T |-> g[s]] /\ h = [s \in SUBSET T |-> h[s]]
  <2>1. \A f : IsTable(f, v, T) => f = [s \in SUBSET T |-> f[s]]
    BY DEF IsTable
  <2> QED BY <2>1
<1> QED BY <1>1, <1>3

LEMMA TableRestrict ==
  ASSUME NEW v, NEW T, NEW g, IsTable(g, v, T), NEW U \in SUBSET T
  PROVE  IsTable([s \in SUBSET U |-> g[s]], v, U)
<1> DEFINE h == [s \in SUBSET U |-> g[s]]
<1>1. \A s \in SUBSET U : s \ {AnElement(s)} \in SUBSET U /\ s \in SUBSET T
  OBVIOUS
<1>2. \A s \in SUBSET U : h[s] = IF s = {} THEN 0 ELSE v[AnElement(s)] + h[s \ {AnElement(s)}]
  BY <1>1, TableEntry
<1>3. h = [s \in SUBSET U |-> h[s]]
  OBVIOUS
<1> HIDE DEF h
<1>4. IsTable(h, v, U)
  BY <1>2, <1>3 DEF IsTable
<1> QED BY <1>4 DEF h

LEMMA TableExists ==
  ASSUME NEW v, NEW S, IsFiniteSet(S)
  PROVE  \A T \in SUBSET S : IsTable(Table(v, T), v, T)
<1> DEFINE Without == {T \in SUBSET S : ~IsTable(Table(v, T), v, T)}
<1>0. Without \in SUBSET SUBSET S
  OBVIOUS
<1>1. Without = {}
  <2>1. SUFFICES ASSUME Without # {} PROVE FALSE
    OBVIOUS
  <2>2. PICK T \in Without : \A U \in Without : U \subseteq T => U = T
    <3> HIDE DEF Without
    <3> QED BY <1>0, <2>1, MinimalSubset
  <2>3. \A U \in SUBSET T : U # T => IsTable(Table(v, U), v, U)
    BY <2>2
  <2> DEFINE g == [s \in SUBSET T |->
                     IF s = {} THEN 0
                     ELSE v[AnElement(s)] + Table(v, s \ {AnElement(s)})[s \ {AnElement(s)}]]
  <2>4. ASSUME NEW U \in SUBSET T, U # T
        PROVE  g[U] = Table(v, U)[U]
    <3>1. CASE U = {}
      <4>1. IsTable(Table(v, U), v, U) /\ U \in SUBSET U
        BY <2>3, <2>4
      <4>2. Table(v, U)[U] = 0
        BY <3>1, <4>1, TableEntry
      <4> QED BY <3>1, <4>2
    <3>2. CASE U # {}
      <4> DEFINE W == U \ {AnElement(U)}
      <4>1. IsFiniteSet(W)
        BY FS_Subset
      <4>2. W \in SUBSET U /\ W \in SUBSET T /\ W # T
        BY <2>4
      <4>3. IsTable([s \in SUBSET W |-> Table(v, U)[s]], v, W)
        BY <2>3, <2>4, <4>2, TableRestrict
      <4>4. IsTable(Table(v, W), v, W)
        BY <2>3, <4>2
      <4>5. Table(v, W) = [s \in SUBSET W |-> Table(v, U)[s]]
        BY <4>1, <4>3, <4>4, TableUnique
      <4>6. Table(v, W)[W] = Table(v, U)[W]
        BY <4>5
      <4>7. Table(v, U)[U] = v[AnElement(U)] + Table(v, U)[W]
        BY <2>3, <2>4, <3>2, TableEntry
      <4> QED BY <3>2, <4>6, <4>7
    <3> QED BY <3>1, <3>2
  <2>5. \A s \in SUBSET T : s # {} =>
          s \ {AnElement(s)} \in SUBSET T /\ s \ {AnElement(s)} # T
    BY AnElementIsIn
  <2>6. \A s \in SUBSET T :
          g[s] = IF s = {} THEN 0 ELSE v[AnElement(s)] + g[s \ {AnElement(s)}]
    <3> TAKE s \in SUBSET T
    <3>1. s # {} => g[s \ {AnElement(s)}] = Table(v, s \ {AnElement(s)})[s \ {AnElement(s)}]
      BY <2>4, <2>5
    <3> QED BY <3>1
  <2>7. g = [s \in SUBSET T |-> g[s]]
    OBVIOUS
  <2> HIDE DEF g
  <2>8. IsTable(g, v, T)
    BY <2>6, <2>7 DEF IsTable
  <2>9. IsTable(Table(v, T), v, T)
    BY <2>8 DEF Table
  <2> QED BY <2>2, <2>9
<1> QED BY <1>1

\* What the definition promises: nothing sums to 0, and any element may be
\* taken out first.
LEMMA SumEmpty == \A v : SumOver(v, {}) = 0
  BY SumIsInTable, TableExists, TableEntry, FS_EmptySet

LEMMA SumTakeOne ==
  ASSUME NEW v, NEW S, IsFiniteSet(S), NEW T \in SUBSET S, T # {}
  PROVE  SumOver(v, T) = v[AnElement(T)] + SumOver(v, T \ {AnElement(T)})
<1> DEFINE W == T \ {AnElement(T)}
<1>1. IsTable(Table(v, T), v, T) /\ IsTable(Table(v, W), v, W) /\ IsFiniteSet(W)
  BY TableExists, FS_Subset
<1>2. Table(v, W) = [s \in SUBSET W |-> Table(v, T)[s]]
  BY <1>1, TableRestrict, TableUnique
<1>3. Table(v, W)[W] = Table(v, T)[W]
  BY <1>2
<1>4. Table(v, T)[T] = v[AnElement(T)] + Table(v, T)[W]
  BY <1>1, TableEntry
<1> HIDE DEF W
<1>5. SumOver(v, T) = v[AnElement(T)] + SumOver(v, W)
  BY <1>3, <1>4, SumIsInTable
<1> QED BY <1>5 DEF W

LEMMA SumIsNat ==
  ASSUME NEW v, NEW S, IsFiniteSet(S), v \in [S -> Nat], NEW T \in SUBSET S
  PROVE  SumOver(v, T) \in Nat
<1> DEFINE Bad == {t \in SUBSET S : SumOver(v, t) \notin Nat}
<1>1. Bad \in SUBSET SUBSET S
  OBVIOUS
<1>2. SUFFICES ASSUME Bad # {} PROVE FALSE
  OBVIOUS
<1>3. PICK t \in Bad : \A u \in Bad : u \subseteq t => u = t
  <2> HIDE DEF Bad
  <2> QED BY <1>1, <1>2, MinimalSubset
<1>4. t # {}
  <2> SUFFICES ASSUME t = {} PROVE FALSE
    OBVIOUS
  <2> QED BY <1>3, SumEmpty
<1>5. AnElement(t) \in t
  BY <1>4, AnElementIsIn
<1>6. SumOver(v, t \ {AnElement(t)}) \in Nat
  BY <1>3, <1>5
<1>7. SumOver(v, t) = v[AnElement(t)] + SumOver(v, t \ {AnElement(t)})
  BY <1>3, <1>4, SumTakeOne
<1> QED BY <1>3, <1>5, <1>6, <1>7

\* The order of the elements does not matter: a minimal set on which it does
\* would have two elements to take out, and taking out either leaves no such set.
LEMMA SumTakeAny ==
  ASSUME NEW v, NEW S, IsFiniteSet(S), v \in [S -> Nat], NEW U \in SUBSET S, NEW z \in U
  PROVE  SumOver(v, U) = v[z] + SumOver(v, U \ {z})
<1> DEFINE Bad == {T \in SUBSET S : \E x \in T : SumOver(v, T) # v[x] + SumOver(v, T \ {x})}
<1>1. Bad \in SUBSET SUBSET S
  OBVIOUS
<1>2. SUFFICES ASSUME Bad # {} PROVE FALSE
  OBVIOUS
<1>3. PICK T \in Bad : \A t \in Bad : t \subseteq T => t = T
  <2> HIDE DEF Bad
  <2> QED BY <1>1, <1>2, MinimalSubset
<1>4. PICK x \in T : SumOver(v, T) # v[x] + SumOver(v, T \ {x})
  BY <1>3
<1> DEFINE y == AnElement(T)
<1>5. y \in T /\ SumOver(v, T) = v[y] + SumOver(v, T \ {y})
  BY <1>3, <1>4, AnElementIsIn, SumTakeOne
<1>6. y # x
  BY <1>4, <1>5
<1> HIDE DEF y
<1>7. SumOver(v, T \ {y}) = v[x] + SumOver(v, (T \ {y}) \ {x})
  BY <1>3, <1>4, <1>5, <1>6
<1>8. SumOver(v, T \ {x}) = v[y] + SumOver(v, (T \ {x}) \ {y})
  BY <1>3, <1>4, <1>5, <1>6
<1>9. (T \ {y}) \ {x} = (T \ {x}) \ {y}
  OBVIOUS
<1>10. v[x] \in Nat /\ v[y] \in Nat /\ SumOver(v, (T \ {x}) \ {y}) \in Nat
  BY <1>3, <1>4, <1>5, SumIsNat
<1> QED BY <1>4, <1>5, <1>7, <1>8, <1>9, <1>10

\* A larger set has no smaller sum: a minimal set with a subset that sums to more
\* would have an element outside of that subset, and would do without it.
LEMMA SumMonotone ==
  ASSUME NEW v, NEW S, IsFiniteSet(S), v \in [S -> Nat],
         NEW T \in SUBSET S, NEW U \in SUBSET T
  PROVE  SumOver(v, U) <= SumOver(v, T)
<1> DEFINE Bad == {t \in SUBSET S : \E w \in SUBSET t : ~(SumOver(v, w) <= SumOver(v, t))}
<1>1. Bad \in SUBSET SUBSET S
  OBVIOUS
<1>2. SUFFICES ASSUME Bad # {} PROVE FALSE
  OBVIOUS
<1>3. PICK t \in Bad : \A u \in Bad : u \subseteq t => u = t
  <2> HIDE DEF Bad
  <2> QED BY <1>1, <1>2, MinimalSubset
<1>4. PICK w \in SUBSET t : ~(SumOver(v, w) <= SumOver(v, t))
  BY <1>3
<1>5. SumOver(v, t) \in Nat /\ SumOver(v, w) \in Nat
  BY <1>3, SumIsNat
<1>6. w # t
  BY <1>4, <1>5
<1>7. PICK x \in t : x \notin w
  BY <1>6
<1>8. SumOver(v, t) = v[x] + SumOver(v, t \ {x})
  BY <1>3, <1>7, SumTakeAny
<1>9. SumOver(v, w) <= SumOver(v, t \ {x})
  BY <1>3, <1>7
<1>10. v[x] \in Nat /\ SumOver(v, t \ {x}) \in Nat
  BY <1>3, <1>7, SumIsNat
<1> QED BY <1>4, <1>5, <1>8, <1>9, <1>10

-----------------------------------------------------------------------------
(* The budget                                                              *)

\* The models whose weight counts.
Charged == {m \in Loaded : state[managers[m]] \in {"LOADING", "READY"}}

LEMMA UsedIsSum ==
  UsedVram = SumOver(VramGb, Charged) /\ UsedVram' = SumOver(VramGb, Charged')
  BY DEF UsedVram, SumOver, Charged, MapThenSumSet, MapThenFoldSet

\* A ServerManager becomes one that an unload would have to stop by BeginLoad only.
LEMMA OnlyBeginLoad ==
  ASSUME SMTypeOK, NEW i \in Instance,
         \/ StartProcess(i) \/ BecomeReady(i) \/ LoadFailed(i) \/ BeginUnload(i)
         \/ \E error \in LoadError : LoadRaises(i, error)
         \/ FinishUnload(i) \/ ProcessExits(i) \/ MarkCrashed(i)
  PROVE  \A j \in Instance : Unloadable(j)' => Unloadable(j)
  BY DEF SMTypeOK, StartProcess, BecomeReady, LoadFailed, BeginUnload, LoadRaises, FinishUnload,
         ProcessExits, MarkCrashed, Unloadable

\* What every step but the creation of a manager respects: the pool gains no
\* manager, no manager starts to load, and none changes its model or its port.
NothingBuilt ==
  /\ \A m \in Model : managers'[m] \in {managers[m], None}
  /\ \A i \in Instance : Unloadable(i)' => Unloadable(i)
  /\ UNCHANGED <<modelOf, portOf>>

LEMMA ReleaseBuildsNothing ==
  ASSUME PoolTypeOK, NEW m \in Model \cup {None}, NEW i \in Instance, Release(m, i)
  PROVE  /\ \A n \in Model : managers'[n] \in {managers[n], None}
         /\ UNCHANGED <<modelOf, portOf>>
  BY DEF Release, PoolTypeOK, poolVars

LEMMA StopBuildsNothing ==
  ASSUME SMTypeOK, NEW i \in Instance, StopManager(i), UNCHANGED poolVars
  PROVE  NothingBuilt
<1>1. \A j \in Instance : Unloadable(j)' => Unloadable(j)
  BY OnlyBeginLoad DEF StopManager
<1> QED BY <1>1 DEF NothingBuilt, poolVars

LEMMA OnlyCreateBuilds ==
  ASSUME PoolInv, [Next]_vars
  PROVE  NothingBuilt \/ \E r \in Request, i \in Instance : CreateManager(r, i)
<1> USE DEF PoolInv, TypeOK
<1>0. ASSUME UNCHANGED smVars, UNCHANGED poolVars
      PROVE  NothingBuilt
  BY <1>0 DEF NothingBuilt, smVars, poolVars, Unloadable
<1>1. ASSUME NEW r \in Request, RequestStep(r)
      PROVE  NothingBuilt \/ \E q \in Request, i \in Instance : CreateManager(q, i)
  <2>1. ASSUME NEW x \in Model, EvictLru(r, x)
        PROVE  NothingBuilt
    <3>1. managers[x] \in Instance
      BY <2>1 DEF EvictLru, LeastRecentlyUsed, IdleModels, Loaded, PoolTypeOK
    <3>2. \A j \in Instance : Unloadable(j)' => Unloadable(j)
      BY <2>1, <3>1, OnlyBeginLoad DEF EvictLru
    <3> QED BY <2>1, <3>2 DEF NothingBuilt, EvictLru, poolVars
  <2>2. ASSUME ForgetFailedManager(r)
        PROVE  NothingBuilt
    <3>1. handle[r] \in Instance /\ target[r] \in Model
      BY <2>2 DEF ForgetFailedManager, RequestInv, RequestInvOf, KnowsManager
    <3>2. UNCHANGED smVars /\ Release(target[r], handle[r])
      BY <2>2 DEF ForgetFailedManager
    <3> QED BY <3>1, <3>2, ReleaseBuildsNothing DEF NothingBuilt, smVars, Unloadable
  <2>3. CASE EnterModel(r) \/ ObtainLoaded(r)
    BY <2>3 DEF EnterModel, ObtainLoaded, NothingBuilt, smVars, Unloadable
  <2>4. CASE WaitForUnload(r) \/ QueueUp(r) \/ Refuse(r) \/ LoadRefused(r)
    BY <1>0, <2>4 DEF WaitForUnload, QueueUp, Refuse, Fail, LoadRefused
  <2> QED BY <1>1, <2>1, <2>2, <2>3, <2>4 DEF RequestStep
<1>2. ASSUME NEW r \in Request, LoadTimeout(r)
      PROVE  NothingBuilt
  <2>1. handle[r] \in Instance
    BY <1>2 DEF LoadTimeout, RequestInv, RequestInvOf, KnowsManager
  <2> QED BY <1>2, <2>1, StopBuildsNothing DEF LoadTimeout
<1>3. ASSUME NEW i \in Instance, ServerStep(i)
      PROVE  NothingBuilt
  <2>1. \A j \in Instance : Unloadable(j)' => Unloadable(j)
    BY <1>3, OnlyBeginLoad DEF ServerStep, SpawnServer, ServerReady, ServerLoadRaises,
       ServerLoadFailed, ServerExits, UnloadDone, CrashNoticed, IdleUnload
  <2>2. CASE UnloadDone(i) \/ CrashNoticed(i)
    <3>1. modelOf[i] \in Model \cup {None} /\ Release(modelOf[i], i)
      BY <2>2 DEF UnloadDone, CrashNoticed, PoolTypeOK
    <3> QED BY <2>1, <3>1, ReleaseBuildsNothing DEF NothingBuilt
  <2>3. CASE \/ SpawnServer(i) \/ ServerReady(i) \/ ServerLoadRaises(i) \/ ServerLoadFailed(i)
             \/ ServerExits(i) \/ IdleUnload(i)
    BY <2>1, <2>3 DEF NothingBuilt, poolVars, SpawnServer, ServerReady, ServerLoadRaises,
       ServerLoadFailed, ServerExits, IdleUnload
  <2> QED BY <1>3, <2>2, <2>3 DEF ServerStep
<1>4. ASSUME NEW a \in Admin, AdminStep(a)
      PROVE  NothingBuilt
  <2>1. adminModel[a] \in Model
    BY <1>4 DEF AdminStep, AdminLock, AdminQuarantine, AdminDrained, AdminEnd, AdminInv, AdminInvOf
  <2>2. managers[adminModel[a]] \in Instance \cup {None}
    BY <2>1 DEF PoolTypeOK
  <2>3. UNCHANGED poolVars
    BY <1>4 DEF AdminStep, AdminLock, AdminQuarantine, AdminDrained, AdminEnd
  <2>4. UNCHANGED smVars \/ (managers[adminModel[a]] \in Instance /\ StopManager(managers[adminModel[a]]))
    BY <1>4, <2>2 DEF AdminStep, AdminLock, AdminQuarantine, AdminDrained, AdminEnd, AdminProceed
  <2> QED BY <1>0, <2>3, <2>4, StopBuildsNothing
<1>5. ASSUME NEW u \in Unloader,
             \/ \E force \in ForceAll : StartUnloadAll(u, force)
             \/ UnloadAll(u)
             \/ UnloadAllBusy(u)
      PROVE  NothingBuilt
  <2>1. UNCHANGED poolVars
    BY <1>5 DEF StartUnloadAll, UnloadAll, UnloadAllBusy
  <2>2. UNCHANGED smVars \/ \E m \in Loaded : StopManager(managers[m])
    BY <1>5 DEF StartUnloadAll, UnloadAll, UnloadAllBusy, UnloadNext
  <2>3. \A m \in Loaded : managers[m] \in Instance
    BY DEF Loaded, PoolTypeOK
  <2> QED BY <1>0, <2>1, <2>2, <2>3, StopBuildsNothing
<1>6. CASE UNCHANGED vars
  BY <1>0, <1>6 DEF vars
<1>7. ASSUME NEW r \in Request, FinishRequest(r)
      PROVE  NothingBuilt
  BY <1>7 DEF FinishRequest, NothingBuilt, smVars, Unloadable
<1> QED
  BY <1>0, <1>1, <1>2, <1>3, <1>4, <1>5, <1>6, <1>7
     DEF Next, StartRequest, QueueTimeout, Fail, NotifyWaiters, AdminStart,
         EnableModel, BlockBootstrap, UnblockBootstrap

\* What a step that creates a manager does to the ServerManagers and the pool.
LEMMA CreateBuildsOne ==
  ASSUME PoolInv, NEW r \in Request, NEW i \in Instance, CreateManager(r, i)
  PROVE  /\ target[r] \in Model /\ managers[target[r]] = None
         /\ managers' = [managers EXCEPT ![target[r]] = i]
         /\ state' = [state EXCEPT ![i] = "LOADING"]
         /\ \A m \in Model : managers[m] # i
<1>1. AtCapacityCheck(r)
  BY DEF CreateManager
<1> QED BY <1>1, AtCheck DEF CreateManager, BeginLoad, Fresh, InPool

\* Only the creation of a manager charges a model, that of the request it is for.
LEMMA OnlyCreateCharges ==
  ASSUME PoolInv, [Next]_vars
  PROVE  \/ Charged' \subseteq Charged
         \/ \E r \in Request, i \in Instance :
              CreateManager(r, i) /\ Charged' \subseteq Charged \cup {target[r]}
<1> USE DEF PoolInv, TypeOK
<1>1. CASE NothingBuilt
  <2>1. ASSUME NEW m \in Charged'
        PROVE  m \in Charged
    <3>1. m \in Model /\ managers'[m] # None /\ state'[managers'[m]] \in {"LOADING", "READY"}
      BY DEF Charged, Loaded, Unloadable
    <3>2. managers'[m] = managers[m] /\ managers[m] \in Instance
      BY <1>1, <3>1 DEF NothingBuilt, PoolTypeOK
    <3>3. Unloadable(managers[m])
      BY <1>1, <3>1, <3>2 DEF NothingBuilt, Unloadable
    <3> QED BY <3>1, <3>2, <3>3 DEF Charged, Loaded, Unloadable
  <2> QED BY <2>1
<1>2. ASSUME NEW r \in Request, NEW i \in Instance, CreateManager(r, i)
      PROVE  Charged' \subseteq Charged \cup {target[r]}
  <2>1. SUFFICES ASSUME NEW m \in Charged', m # target[r]
                 PROVE  m \in Charged
    OBVIOUS
  <2>2. m \in Model /\ managers'[m] # None /\ state'[managers'[m]] \in {"LOADING", "READY"}
    BY DEF Charged, Loaded
  <2>3. managers'[m] = managers[m] /\ managers[m] \in Instance
    BY <1>2, <2>1, <2>2, CreateBuildsOne DEF PoolTypeOK
  <2>4. state'[managers[m]] = state[managers[m]]
    BY <1>2, <2>2, <2>3, CreateBuildsOne DEF SMTypeOK
  <2> QED BY <2>2, <2>3, <2>4 DEF Charged, Loaded
<1> QED BY <1>1, <1>2, OnlyCreateBuilds

\* The check and the creation are one step: no await between HasCapacityFor and
\* BeginLoad, whatever was evicted, queued or retried before.
THEOREM BudgetAlwaysRespected == Spec => []BudgetRespected
<1>1. Init => BudgetRespected
  <2> SUFFICES ASSUME Init PROVE BudgetRespected
    OBVIOUS
  <2>1. Charged = {}
    BY DEF Init, Charged, Loaded
  <2>2. UsedVram = SumOver(VramGb, {})
    BY <2>1, UsedIsSum
  <2>3. UsedVram = 0
    BY <2>2, SumEmpty
  <2> QED BY <2>3, PoolAssumption DEF BudgetRespected
<1>2. PoolInv /\ BudgetRespected /\ [Next]_vars => BudgetRespected'
  <2> SUFFICES ASSUME PoolInv, BudgetRespected, [Next]_vars PROVE BudgetRespected'
    OBVIOUS
  <2>0. VramGb \in [Model -> Nat] /\ IsFiniteSet(Model) /\ Budget \in Nat
    BY PoolAssumption
  <2>1. UsedVram = SumOver(VramGb, Charged) /\ UsedVram' = SumOver(VramGb, Charged')
    BY UsedIsSum
  <2>2. Charged \in SUBSET Model /\ Charged' \in SUBSET Model
    BY DEF Charged, Loaded
  <2>3. SumOver(VramGb, Charged) \in Nat /\ SumOver(VramGb, Charged') \in Nat
    BY <2>0, <2>2, SumIsNat
  <2>4. CASE Charged' \subseteq Charged
    <3>1. SumOver(VramGb, Charged') <= SumOver(VramGb, Charged)
      BY <2>0, <2>2, <2>4, SumMonotone
    <3> QED BY <2>0, <2>1, <2>3, <3>1 DEF BudgetRespected
  <2>5. ASSUME NEW r \in Request, NEW i \in Instance, CreateManager(r, i),
               Charged' \subseteq Charged \cup {target[r]}
        PROVE  BudgetRespected'
    <3> DEFINE m == target[r]
               All == Charged \cup {m}
    <3>1. m \in Model /\ managers[m] = None
      BY <2>5, AtCheck DEF CreateManager
    <3>2. m \notin Charged
      BY <3>1 DEF Charged, Loaded
    <3>3. UsedVram + VramGb[m] <= Budget
      BY <2>5 DEF CreateManager, CanBuild, HasCapacityFor
    <3> HIDE DEF m
    <3>4. All \in SUBSET Model /\ m \in All /\ All \ {m} = Charged
      BY <2>0, <2>2, <3>1, <3>2
    <3> HIDE DEF All
    <3>5. SumOver(VramGb, All) = VramGb[m] + SumOver(VramGb, Charged)
      BY <2>0, <2>2, <3>4, SumTakeAny
    <3>6. Charged' \in SUBSET All
      BY <2>5 DEF All, m
    <3>7. SumOver(VramGb, Charged') <= SumOver(VramGb, All)
      BY <2>0, <2>2, <3>4, <3>6, SumMonotone
    <3>8. VramGb[m] \in Nat
      BY <2>0, <2>2, <3>1
    <3> QED BY <2>0, <2>1, <2>3, <3>3, <3>5, <3>7, <3>8 DEF BudgetRespected
  <2> QED BY <2>4, <2>5, OnlyCreateCharges
<1> QED BY <1>1, <1>2, PoolInvariant, PTL DEF Spec

-----------------------------------------------------------------------------
USE PoolAssumption

-----------------------------------------------------------------------------
(* Tickets                                                                 *)

\* Giving up one's ticket takes that ticket away, and no other.
LEMMA DropTicketDrops ==
  ASSUME NEW S, NEW s \in Seq(S), NEW r, Injective(s), r \in Elements(s)
  PROVE  /\ Injective(DropTicket(s, r))
         /\ Elements(DropTicket(s, r)) = Elements(s) \ {r}
         /\ Len(DropTicket(s, r)) = Len(s) - 1
<1> DEFINE k == CHOOSE j \in 1..Len(s) : s[j] = r
           f == DropTicket(s, r)
<1>1. k \in 1..Len(s) /\ s[k] = r /\ Len(s) \in Nat \ {0}
  <2>1. \E j \in 1..Len(s) : s[j] = r
    BY DEF Elements
  <2> QED BY <2>1
<1>2. f = [j \in 1..(Len(s) - 1) |-> IF j < k THEN s[j] ELSE s[j + 1]]
  BY DEF DropTicket
<1> HIDE DEF k, f
<1>3. f \in Seq(S) /\ Len(f) = Len(s) - 1
  <2>1. f \in Seq(S)
    BY DropTicketType DEF Elements, f
  <2>2. DOMAIN f = 1..(Len(s) - 1)
    BY <1>2
  <2> QED BY <1>1, <2>1, <2>2
<1>4. \A j \in 1..Len(f) : /\ j < k => f[j] = s[j] /\ j \in 1..Len(s)
                           /\ ~(j < k) => f[j] = s[j + 1] /\ j + 1 \in 1..Len(s)
  BY <1>1, <1>2, <1>3
<1>5. Injective(f)
  <2> SUFFICES ASSUME NEW i \in 1..Len(f), NEW j \in 1..Len(f), f[i] = f[j]
               PROVE  i = j
    BY DEF Injective
  <2> QED BY <1>1, <1>3, <1>4 DEF Injective
<1>6. ASSUME NEW x \in Elements(f) PROVE x \in Elements(s) \ {r}
  <2>1. PICK j \in 1..Len(f) : f[j] = x
    BY DEF Elements
  <2>2. PICK l \in 1..Len(s) : s[l] = x /\ l # k
    BY <1>1, <1>3, <1>4, <2>1
  <2>3. x # r
    BY <1>1, <2>2 DEF Injective
  <2> QED BY <2>2, <2>3 DEF Elements
<1>7. ASSUME NEW x \in Elements(s) \ {r} PROVE x \in Elements(f)
  <2>1. PICK l \in 1..Len(s) : s[l] = x /\ l # k
    BY <1>1 DEF Elements
  <2>2. CASE l < k
    <3>1. l \in 1..Len(f) /\ f[l] = x
      BY <1>1, <1>3, <1>4, <2>1, <2>2
    <3> QED BY <3>1 DEF Elements
  <2>3. CASE l > k
    <3>1. l - 1 \in 1..Len(f) /\ f[l - 1] = x
      BY <1>1, <1>3, <1>4, <2>1, <2>3
    <3> QED BY <3>1 DEF Elements
  <2> QED BY <1>1, <2>1, <2>2, <2>3
<1> QED BY <1>3, <1>5, <1>6, <1>7 DEF f

LEMMA QueuedIsElement ==
  \A r : /\ Queued(r) <=> r \in Elements(capacityWaiters)
         /\ Queued(r)' <=> r \in Elements(capacityWaiters')
  BY DEF Queued, Elements

\* The tickets, and the one request that may keep _capacity_cond across an await:
\* an evictor, whose turn it is.
EvictorHoldsCondition ==
  \A r \in Request :
    /\ pc[r] = "evicting" <=> condHolder = r
    /\ pc[r] = "evicting" => MyTurn(r)

TicketInv == TicketsAreLive /\ EvictorHoldsCondition

InQueue == {"waitTurn", "evicting"}

\* A step that leaves the queue, the condition and those who wait there alone.
LEMMA TicketsFrame ==
  ASSUME TicketInv, UNCHANGED <<condHolder, capacityWaiters>>,
         \A q \in Request : pc'[q] = pc[q] \/ (pc[q] \notin InQueue /\ pc'[q] \notin InQueue)
  PROVE  TicketInv'
<1>1. \A q \in Request : Queued(q)' = Queued(q) /\ MyTurn(q)' = MyTurn(q)
  BY DEF Queued, MyTurn
<1>2. TicketsAreLive'
  BY <1>1 DEF TicketInv, TicketsAreLive, InQueue
<1>3. EvictorHoldsCondition'
  BY <1>1 DEF TicketInv, EvictorHoldsCondition, InQueue
<1> QED BY <1>2, <1>3 DEF TicketInv

\* Whoever evaluates its chances has the condition for itself.
LEMMA AtCheckAlone ==
  ASSUME TicketInv, NEW r \in Request, AtCapacityCheck(r) \/ CondFree
  PROVE  /\ condHolder \in {None, r}
         /\ \A q \in Request \ {r} : pc[q] # "evicting"
  BY NoneIsNothing DEF TicketInv, EvictorHoldsCondition, AtCapacityCheck, AtUnloadCheck, CondFree

\* Leaving the condition gives up the ticket and nothing else.
LEMMA LeaveKeepsTickets ==
  ASSUME PoolInv, TicketInv, NEW r \in Request, LeaveCondition(r),
         condHolder \in {None, r},
         pc'[r] \notin InQueue,
         \A q \in Request \ {r} : pc'[q] = pc[q] /\ pc[q] # "evicting"
  PROVE  TicketInv'
<1>0. capacityWaiters \in Seq(Request) /\ Injective(capacityWaiters)
  BY DEF PoolInv, TypeOK, AdmissionTypeOK, TicketInv, TicketsAreLive, Injective
<1>1. condHolder' = None
  BY DEF LeaveCondition
<1>2. /\ Injective(capacityWaiters')
      /\ Elements(capacityWaiters') = Elements(capacityWaiters) \ {r}
      /\ Len(capacityWaiters') <= MaxWaiters
  <2>1. CASE Queued(r)
    BY <1>0, <2>1, DropTicketDrops, QueuedIsElement DEF LeaveCondition, TicketInv, TicketsAreLive
  <2>2. CASE ~Queued(r)
    BY <1>0, <2>2, QueuedIsElement DEF LeaveCondition, TicketInv, TicketsAreLive
  <2> QED BY <2>1, <2>2
<1>3. \A q : Queued(q)' <=> Queued(q) /\ q # r
  BY <1>2, QueuedIsElement
<1>4. TicketsAreLive'
  BY <1>2, <1>3 DEF TicketInv, TicketsAreLive, Injective, InQueue
<1>5. EvictorHoldsCondition'
  BY <1>1, NoneIsNothing DEF EvictorHoldsCondition, InQueue
<1> QED BY <1>4, <1>5 DEF TicketInv

LEMMA TicketInvInit == Init => TicketInv
<1> SUFFICES ASSUME Init PROVE TicketInv
  OBVIOUS
<1>1. capacityWaiters = <<>> /\ condHolder = None /\ \A r \in Request : pc[r] = "idle"
  BY DEF Init
<1>2. Len(capacityWaiters) = 0 /\ \A r : ~Queued(r)
  BY <1>1 DEF Queued
<1> QED BY <1>1, <1>2, NoneIsNothing DEF TicketInv, TicketsAreLive, EvictorHoldsCondition

LEMMA EvictLruTickets ==
  ASSUME PoolInv, TicketInv, NEW r \in Request, NEW x \in Model, EvictLru(r, x)
  PROVE  TicketInv'
<1>1. /\ AtCapacityCheck(r) /\ MyTurn(r)
      /\ capacityWaiters' = capacityWaiters /\ condHolder' = r
      /\ pc' = [pc EXCEPT ![r] = "evicting"]
  BY DEF EvictLru, Goto
<1>2. pc'[r] = "evicting" /\ \A q \in Request \ {r} : pc'[q] = pc[q] /\ pc[q] # "evicting"
  BY <1>1, AtCheckAlone DEF PoolInv, TypeOK, RequestTypeOK
<1>3. \A q \in Request : Queued(q)' = Queued(q) /\ MyTurn(q)' = MyTurn(q)
  BY <1>1 DEF Queued, MyTurn
<1>4. TicketsAreLive'
  BY <1>1, <1>2, <1>3 DEF TicketInv, TicketsAreLive
<1>5. EvictorHoldsCondition'
  BY <1>1, <1>2, <1>3 DEF EvictorHoldsCondition
<1> QED BY <1>4, <1>5 DEF TicketInv

LEMMA QueueUpTickets ==
  ASSUME PoolInv, TicketInv, NEW r \in Request, QueueUp(r)
  PROVE  TicketInv'
<1>1. /\ AtCapacityCheck(r)
      /\ Queued(r) \/ Len(capacityWaiters) < MaxWaiters
      /\ capacityWaiters' = IF Queued(r) THEN capacityWaiters ELSE Append(capacityWaiters, r)
      /\ condHolder' = None
      /\ pc' = [pc EXCEPT ![r] = "waitTurn"]
  BY DEF QueueUp, Goto
<1>2. pc'[r] = "waitTurn" /\ \A q \in Request \ {r} : pc'[q] = pc[q] /\ pc[q] # "evicting"
  BY <1>1, AtCheckAlone DEF PoolInv, TypeOK, RequestTypeOK
<1>3. capacityWaiters \in Seq(Request) /\ Injective(capacityWaiters)
  BY DEF PoolInv, TypeOK, AdmissionTypeOK, TicketInv, TicketsAreLive, Injective
<1>4. /\ Injective(capacityWaiters')
      /\ Elements(capacityWaiters') = Elements(capacityWaiters) \cup {r}
      /\ Len(capacityWaiters') <= MaxWaiters
  <2>1. CASE Queued(r)
    BY <1>1, <1>3, <2>1, QueuedIsElement DEF TicketInv, TicketsAreLive
  <2>2. CASE ~Queued(r)
    <3>1. Len(capacityWaiters') = Len(capacityWaiters) + 1 /\ Len(capacityWaiters) \in Nat
      BY <1>1, <1>3, <2>2
    <3> QED BY <1>1, <1>3, <2>2, <3>1, AddLast, QueuedIsElement
  <2> QED BY <2>1, <2>2
<1>5. \A q : Queued(q)' <=> Queued(q) \/ q = r
  BY <1>4, QueuedIsElement
<1>6. TicketsAreLive'
  BY <1>2, <1>4, <1>5 DEF TicketInv, TicketsAreLive, Injective
<1>7. EvictorHoldsCondition'
  BY <1>1, <1>2, NoneIsNothing DEF EvictorHoldsCondition
<1> QED BY <1>6, <1>7 DEF TicketInv

LEMMA LeaveTickets ==
  ASSUME PoolInv, TicketInv, NEW r \in Request,
         \/ \E i \in Instance : CreateManager(r, i)
         \/ Refuse(r) \/ QueueTimeout(r)
  PROVE  TicketInv'
<1>1. /\ LeaveCondition(r)
      /\ AtCapacityCheck(r) \/ CondFree
      /\ pc' = [pc EXCEPT ![r] = "waitReady"] \/ pc' = [pc EXCEPT ![r] = "idle"]
  BY DEF CreateManager, Refuse, QueueTimeout, Fail, Over, Goto, AtUnloadCheck
<1>2. pc'[r] \notin InQueue /\ \A q \in Request \ {r} : pc'[q] = pc[q] /\ pc[q] # "evicting"
  BY <1>1, AtCheckAlone DEF PoolInv, TypeOK, RequestTypeOK, InQueue
<1> QED BY <1>1, <1>2, AtCheckAlone, LeaveKeepsTickets

LEMMA ForgetTickets ==
  ASSUME PoolInv, TicketInv, NEW r \in Request, ForgetFailedManager(r)
  PROVE  TicketInv'
<1>1. /\ UNCHANGED <<condHolder, capacityWaiters>>
      /\ pc[r] \in {"forget", "forgetCapacity", "timeoutUnload"}
      /\ pc' = [pc EXCEPT ![r] = "capacity"] \/ pc' = [pc EXCEPT ![r] = "idle"]
  BY DEF ForgetFailedManager, Over, Goto
<1> QED BY <1>1, TicketsFrame DEF PoolInv, TypeOK, RequestTypeOK, InQueue

LEMMA RequestTickets ==
  ASSUME PoolInv, TicketInv, NEW r \in Request,
         \/ \E m \in Model : StartRequest(r, m)
         \/ EnterModel(r) \/ WaitForUnload(r) \/ ObtainLoaded(r) \/ LoadRefused(r)
         \/ LoadTimeout(r) \/ FinishRequest(r)
  PROVE  TicketInv'
<1>1. UNCHANGED <<condHolder, capacityWaiters>>
  BY DEF StartRequest, EnterModel, WaitForUnload, ObtainLoaded, LoadRefused, LoadTimeout,
         StopManager, FinishRequest, condVars
<1>2. /\ pc[r] \notin InQueue
      /\ \/ pc' = pc
         \/ \E where \in RequestPc \ InQueue : pc' = [pc EXCEPT ![r] = where]
  BY DEF StartRequest, EnterModel, WaitForUnload, AtUnloadCheck, ObtainLoaded, LoadRefused,
         LoadTimeout, FinishRequest, Obtain, Over, Goto, InQueue, RequestPc
<1> QED BY <1>1, <1>2, TicketsFrame DEF PoolInv, TypeOK, RequestTypeOK, InQueue

LEMMA TicketInvStep == PoolInv /\ TicketInv /\ [Next]_vars => TicketInv'
<1> SUFFICES ASSUME PoolInv, TicketInv, [Next]_vars PROVE TicketInv'
  OBVIOUS
<1>1. ASSUME UNCHANGED <<condHolder, capacityWaiters, pc>>
      PROVE  TicketInv'
  BY <1>1, TicketsFrame
<1>2. ASSUME NEW i \in Instance, ServerStep(i)
      PROVE  TicketInv'
  BY <1>1, <1>2 DEF ServerStep, SpawnServer, ServerReady, ServerLoadRaises, ServerLoadFailed,
     ServerExits, UnloadDone, CrashNoticed, IdleUnload, othersUnchanged, reqVars
<1>3. ASSUME NEW a \in Admin, AdminStep(a)
      PROVE  TicketInv'
  BY <1>1, <1>3 DEF AdminStep, AdminLock, AdminQuarantine, AdminDrained, AdminEnd, AdminProceed,
     StopManager, reqVars, condVars
<1>4. ASSUME NEW u \in Unloader,
             \/ \E force \in ForceAll : StartUnloadAll(u, force)
             \/ UnloadAll(u)
             \/ UnloadAllBusy(u)
      PROVE  TicketInv'
  BY <1>1, <1>4 DEF StartUnloadAll, UnloadAll, UnloadAllBusy, UnloadNext, StopManager, reqVars,
     condVars
<1>5. CASE UNCHANGED vars
  BY <1>1, <1>5 DEF vars, condVars, reqVars
<1> QED
  BY <1>1, <1>2, <1>3, <1>4, <1>5, EvictLruTickets, QueueUpTickets, LeaveTickets, ForgetTickets,
     RequestTickets
     DEF Next, RequestStep, NotifyWaiters, AdminStart, EnableModel, BlockBootstrap,
         UnblockBootstrap, condVars, reqVars

LEMMA TicketInvariant == Spec => []TicketInv
  BY PoolInvariant, TicketInvInit, TicketInvStep, PTL DEF Spec

\* No exit of _ensure_capacity, for any number of requests and models, leaves a
\* ticket behind or takes one that is not its own (its finally block), and the
\* queue never outgrows capacity_queue_max_waiters.
THEOREM TicketsAlwaysLive == Spec => []TicketsAreLive
  BY TicketInvariant, PTL DEF TicketInv

-----------------------------------------------------------------------------
(* Wake-ups                                                                *)

\* The head of the queue sleeps and nothing is on its way that would wake it ...
SleepsOn(r) ==
  /\ Queued(r) /\ capacityWaiters[1] = r
  /\ pc[r] = "waitTurn" /\ r \notin woken
  /\ ~notifyPending
  /\ \A m \in Model : ~Unloading(m)

\* ... so there is nothing for it to do.
NothingFor(r) ==
  /\ IdleModels(target[r]) = {}
  /\ ~(HasCapacityFor(target[r]) /\ ~OwesEviction(r))

\* Stronger than NoLostWakeup: it holds while an evictor keeps the condition too.
WakeupInv == \A r \in Request : SleepsOn(r) => NothingFor(r)

\* What a step may do that wakes nobody: the pool keeps its managers and ports, the
\* managers of the pool keep their states, and no generation ends.
RoomUnchanged ==
  /\ UNCHANGED <<managers, portPool>>
  /\ \A m \in Loaded : state'[managers[m]] = state[managers[m]]
  /\ \A i \in Instance : Pinned(i) => Pinned(i)'

LEMMA SameRoom ==
  ASSUME PoolTypeOK, RoomUnchanged, NEW m
  PROVE  /\ IdleModels(m)' \subseteq IdleModels(m)
         /\ HasCapacityFor(m)' = HasCapacityFor(m)
         /\ IdleModels(m) # {} \/ TemporaryBlocker(m) <=> IdleModels(m)' # {} \/ TemporaryBlocker(m)'
         /\ \A n \in Model : Unloading(n)' = Unloading(n)
<1>1. Loaded' = Loaded /\ \A n \in Loaded : managers[n] \in Instance
  BY DEF RoomUnchanged, Loaded, PoolTypeOK
<1>2. IdleModels(m)' \subseteq IdleModels(m)
  BY <1>1 DEF RoomUnchanged, IdleModels
<1>3. Charged' = Charged
  BY <1>1 DEF RoomUnchanged, Charged
<1>4. UsedVram' = UsedVram
  BY <1>3, UsedIsSum
<1>5. HasCapacityFor(m)' = HasCapacityFor(m)
  BY <1>4 DEF HasCapacityFor, RoomUnchanged
<1>6. IdleModels(m) # {} \/ TemporaryBlocker(m)
        <=> \E x \in Loaded \ {m} : state[managers[x]] \in {"LOADING", "READY"}
  BY DEF IdleModels, TemporaryBlocker
<1>7. IdleModels(m)' # {} \/ TemporaryBlocker(m)'
        <=> \E x \in Loaded' \ {m} : state'[managers'[x]] \in {"LOADING", "READY"}
  BY DEF IdleModels, TemporaryBlocker
<1>8. \A n \in Model : Unloading(n)' = Unloading(n)
  BY DEF RoomUnchanged, Unloading, Loaded
<1> QED BY <1>1, <1>2, <1>5, <1>6, <1>7, <1>8 DEF RoomUnchanged

\* A sleeper that such a step leaves asleep at the head was so before, for the
\* same reason.
LEMMA StaysAsleep ==
  ASSUME PoolTypeOK, WakeupInv, RoomUnchanged, NEW q \in Request,
         notifyPending => notifyPending',
         SleepsOn(q)' => /\ Queued(q) /\ capacityWaiters[1] = q
                         /\ pc[q] = "waitTurn" /\ q \notin woken
                         /\ target'[q] = target[q] /\ forceExtra'[q] = forceExtra[q]
  PROVE  (SleepsOn(q) => NothingFor(q))'
<1> SUFFICES ASSUME SleepsOn(q)' PROVE NothingFor(q)'
  OBVIOUS
<1>1. SleepsOn(q)
  BY SameRoom DEF SleepsOn
<1>2. NothingFor(q)
  BY <1>1 DEF WakeupInv
<1>3. target'[q] = target[q] /\ forceExtra'[q] = forceExtra[q]
  OBVIOUS
<1> DEFINE m == target[q]
<1>4. IdleModels(m)' = {} /\ IdleModels(target[q])' = IdleModels(m)'
  BY <1>2, <1>3, SameRoom DEF NothingFor, IdleModels
<1> QED BY <1>2, <1>3, SameRoom DEF NothingFor, OwesEviction

\* A step that leaves the sleepers alone, and the room.
LEMMA QuietStep ==
  ASSUME PoolInv, WakeupInv, RoomUnchanged, notifyPending => notifyPending',
         capacityWaiters' = capacityWaiters,
         \A q \in Request : pc'[q] = "waitTurn" =>
           /\ pc[q] = "waitTurn"
           /\ target'[q] = target[q] /\ forceExtra'[q] = forceExtra[q]
           /\ q \in woken => q \in woken'
  PROVE  WakeupInv'
<1> SUFFICES ASSUME NEW q \in Request PROVE (SleepsOn(q) => NothingFor(q))'
  BY DEF WakeupInv
<1>1. SleepsOn(q)' => /\ Queued(q) /\ capacityWaiters[1] = q
                      /\ pc[q] = "waitTurn" /\ q \notin woken
                      /\ target'[q] = target[q] /\ forceExtra'[q] = forceExtra[q]
  BY DEF SleepsOn, Queued
<1> QED BY <1>1, StaysAsleep DEF PoolInv, TypeOK

\* A step that wakes the sleepers, schedules the notification, or starts an unload
\* in the pool that will.
LEMMA WakingStep ==
  ASSUME \/ notifyPending' = TRUE
         \/ \E m \in Model : Unloading(m)'
         \/ \A q \in Request : pc'[q] = "waitTurn" => q \in woken'
  PROVE  WakeupInv'
  BY DEF WakeupInv, SleepsOn

\* An unload that begins: in the pool it will wake the queue; outside, it takes
\* nothing from it and gives nothing to it.
LEMMA StopWakes ==
  ASSUME PoolInv, WakeupInv, NEW i \in Instance, BeginUnload(i),
         notifyPending => notifyPending',
         UNCHANGED <<poolVars, capacityWaiters, woken, target, handle, forceExtra>>,
         \A q \in Request : pc'[q] = pc[q] \/ (pc[q] # "serving" /\ pc'[q] # "waitTurn")
  PROVE  WakeupInv'
<1> USE DEF PoolInv, TypeOK
<1>1. CASE InPool(i)
  <2>1. PICK m \in Model : managers[m] = i
    BY <1>1 DEF InPool
  <2>2. managers'[m] = i /\ state'[i] = "UNLOADING"
    BY <2>1 DEF poolVars, BeginUnload, SMTypeOK
  <2>3. Unloading(m)'
    BY <2>2, NoneIsNothing DEF Unloading
  <2> QED BY <2>3, WakingStep
<1>2. CASE ~InPool(i)
  <2>1. \A m \in Loaded : state'[managers[m]] = state[managers[m]]
    BY <1>2 DEF InPool, Loaded, BeginUnload, SMTypeOK, PoolTypeOK
  <2>2. \A j \in Instance : Pinned(j) => Pinned(j)'
    BY DEF Pinned
  <2>3. RoomUnchanged
    BY <2>1, <2>2 DEF RoomUnchanged, poolVars
  <2> QED BY <2>3, QuietStep
<1> QED BY <1>1, <1>2

\* The end of the queue: whoever leaves _ensure_capacity wakes the others if it
\* had a ticket, and found nobody in the queue if it had none.
LEMMA LeaveWakes ==
  ASSUME PoolInv, NEW r \in Request, LeaveCondition(r), Queued(r),
         \A q \in Request \ {r} : pc'[q] = pc[q], pc'[r] # "waitTurn"
  PROVE  WakeupInv'
<1>1. woken' = (woken \cup Sleeping) \ {r}
  BY DEF LeaveCondition
<1>2. \A q \in Request : pc'[q] = "waitTurn" => q \in woken'
  BY <1>1 DEF Sleeping
<1> QED BY <1>2, WakingStep

LEMMA CreateWakes ==
  ASSUME PoolInv, WakeupInv, NEW r \in Request, NEW i \in Instance, CreateManager(r, i)
  PROVE  WakeupInv'
<1>1. MyTurn(r) /\ LeaveCondition(r) /\ pc' = [pc EXCEPT ![r] = "waitReady"]
  BY DEF CreateManager, CanBuild, Goto
<1>2. pc'[r] = "waitReady" /\ \A q \in Request \ {r} : pc'[q] = pc[q]
  BY <1>1 DEF PoolInv, TypeOK, RequestTypeOK
<1>3. CASE Queued(r)
  BY <1>1, <1>2, <1>3, LeaveWakes
<1>4. CASE ~Queued(r)
  <2>1. capacityWaiters' = <<>>
    BY <1>1, <1>4 DEF MyTurn, LeaveCondition
  <2>2. \A q : ~Queued(q)'
    BY <2>1 DEF Queued
  <2> QED BY <2>2 DEF WakeupInv, SleepsOn
<1> QED BY <1>3, <1>4

LEMMA FailWakes ==
  ASSUME PoolInv, WakeupInv, NEW r \in Request, pc[r] # "serving", Fail(r)
  PROVE  WakeupInv'
<1> USE DEF PoolInv, TypeOK
<1>1. /\ LeaveCondition(r) /\ pc' = [pc EXCEPT ![r] = "idle"]
      /\ handle' = [handle EXCEPT ![r] = None]
      /\ target' = [target EXCEPT ![r] = None] /\ forceExtra' = [forceExtra EXCEPT ![r] = FALSE]
      /\ UNCHANGED <<smVars, poolVars>>
  BY DEF Fail, Over, Goto
<1>2. /\ pc'[r] = "idle"
      /\ \A q \in Request \ {r} : /\ pc'[q] = pc[q] /\ handle'[q] = handle[q]
                                  /\ target'[q] = target[q] /\ forceExtra'[q] = forceExtra[q]
  BY <1>1 DEF RequestTypeOK
<1>3. CASE Queued(r)
  BY <1>1, <1>2, <1>3, LeaveWakes
<1>4. CASE ~Queued(r)
  <2>1. capacityWaiters' = capacityWaiters /\ woken' = woken \ {r} /\ notifyPending' = notifyPending
    BY <1>1, <1>4 DEF LeaveCondition
  <2>2. \A j \in Instance : Pinned(j) => Pinned(j)'
    BY <1>2 DEF Pinned
  <2>3. RoomUnchanged
    BY <1>1, <2>2 DEF RoomUnchanged, smVars, poolVars
  <2> QED BY <1>2, <2>1, <2>3, QuietStep
<1> QED BY <1>3, <1>4

\* A request that goes to sleep at the head of the queue had nothing to do.
LEMMA QueueUpSleeps ==
  ASSUME PoolInv, WakeupInv, NEW r \in Request, QueueUp(r)
  PROVE  WakeupInv'
<1> USE DEF PoolInv, TypeOK
<1>1. /\ AtCapacityCheck(r) /\ MustWait(r)
      /\ capacityWaiters' = IF Queued(r) THEN capacityWaiters ELSE Append(capacityWaiters, r)
      /\ woken' = woken \ {r}
      /\ pc' = [pc EXCEPT ![r] = "waitTurn"] /\ handle' = [handle EXCEPT ![r] = None]
      /\ forceExtra' = [forceExtra EXCEPT
                          ![r] = IF MyTurn(r) THEN OwesEviction(r) ELSE forceExtra[r]]
      /\ UNCHANGED <<smVars, poolVars, notifyPending, target>>
  BY DEF QueueUp, Goto
<1>2. /\ pc'[r] = "waitTurn" /\ pc[r] # "serving"
      /\ \A q \in Request \ {r} : /\ pc'[q] = pc[q] /\ handle'[q] = handle[q]
                                  /\ target'[q] = target[q] /\ forceExtra'[q] = forceExtra[q]
  BY <1>1 DEF RequestTypeOK, AtCapacityCheck, AtUnloadCheck
<1>3. RoomUnchanged
  <2>1. \A j \in Instance : Pinned(j) => Pinned(j)'
    BY <1>2 DEF Pinned
  <2> QED BY <1>1, <2>1 DEF RoomUnchanged, smVars, poolVars
<1>4. capacityWaiters \in Seq(Request)
  BY DEF AdmissionTypeOK
<1>5. \A q \in Request : Queued(q) <=> q \in Elements(capacityWaiters)
  BY QueuedIsElement
<1>6. ASSUME NEW q \in Request \ {r}
      PROVE  (SleepsOn(q) => NothingFor(q))'
  <2>1. SleepsOn(q)' => Queued(q) /\ capacityWaiters[1] = q
    <3>1. CASE Queued(r)
      BY <1>1, <3>1 DEF SleepsOn, Queued
    <3>2. CASE ~Queued(r) /\ capacityWaiters = <<>>
      <4>1. capacityWaiters' = <<r>>
        BY <1>1, <3>2
      <4> QED BY <4>1 DEF SleepsOn
    <3>3. CASE ~Queued(r) /\ capacityWaiters # <<>>
      <4>1. capacityWaiters'[1] = capacityWaiters[1] /\ 1 \in 1..Len(capacityWaiters)
        BY <1>1, <1>4, <3>3
      <4> QED BY <4>1 DEF SleepsOn, Queued
    <3> QED BY <3>1, <3>2, <3>3
  <2> QED BY <1>1, <1>2, <1>3, <2>1, StaysAsleep DEF SleepsOn
<1>7. ASSUME SleepsOn(r)'
      PROVE  NothingFor(r)'
  <2>1. MyTurn(r)
    <3>1. CASE Queued(r)
      BY <1>1, <1>7, <3>1 DEF SleepsOn, MyTurn
    <3>2. CASE ~Queued(r) /\ capacityWaiters # <<>>
      <4>1. capacityWaiters'[1] = capacityWaiters[1] /\ 1 \in 1..Len(capacityWaiters)
        BY <1>1, <1>4, <3>2
      <4>2. capacityWaiters[1] = r
        BY <1>7, <4>1 DEF SleepsOn
      <4> QED BY <3>2, <4>1, <4>2 DEF Queued
    <3>3. CASE ~Queued(r) /\ capacityWaiters = <<>>
      BY <3>3 DEF MyTurn
    <3> QED BY <3>1, <3>2, <3>3
  <2>2. IdleModels(target[r]) = {} /\ ~(HasCapacityFor(target[r]) /\ ~OwesEviction(r))
    BY <1>1, <2>1 DEF MustWait, CanBuild
  <2>3. target'[r] = target[r] /\ forceExtra'[r] = OwesEviction(r)
    BY <1>1, <2>1, Zenon DEF RequestTypeOK
  <2>4. OwesEviction(r) => OwesEviction(r)'
    BY <1>3, <2>3, SameRoom DEF OwesEviction
  <2>5. IdleModels(target[r])' = {}
    BY <1>3, <2>2, <2>3, SameRoom DEF IdleModels
  <2>6. HasCapacityFor(target[r])' => HasCapacityFor(target[r])
    BY <1>3, <2>3, SameRoom DEF HasCapacityFor
  <2> QED BY <2>2, <2>4, <2>5, <2>6 DEF NothingFor
<1> QED BY <1>6, <1>7 DEF WakeupInv

\* The end of a generation frees a pinned manager, and says so.
LEMMA FinishWakes ==
  ASSUME PoolInv, WakeupInv, NEW r \in Request, FinishRequest(r)
  PROVE  WakeupInv'
<1> USE DEF PoolInv, TypeOK
<1>1. /\ pc[r] = "serving" /\ pc' = [pc EXCEPT ![r] = "idle"]
      /\ handle' = [handle EXCEPT ![r] = None]
      /\ target' = [target EXCEPT ![r] = None] /\ forceExtra' = [forceExtra EXCEPT ![r] = FALSE]
      /\ UNCHANGED <<smVars, managers, portPool, capacityWaiters, woken>>
      /\ \/ notifyPending' = TRUE
         \/ /\ notifyPending' = notifyPending
            /\ \E q \in Request \ {r} : pc[q] = "serving" /\ handle[q] = handle[r]
  BY DEF FinishRequest, Over, Goto, AdmissionTypeOK
<1>2. /\ pc'[r] = "idle"
      /\ \A q \in Request \ {r} : /\ pc'[q] = pc[q] /\ handle'[q] = handle[q]
                                  /\ target'[q] = target[q] /\ forceExtra'[q] = forceExtra[q]
  BY <1>1 DEF RequestTypeOK
<1>3. CASE notifyPending' = TRUE
  BY <1>3, WakingStep
<1>4. CASE /\ notifyPending' = notifyPending
           /\ \E q \in Request \ {r} : pc[q] = "serving" /\ handle[q] = handle[r]
  <2>1. \A j \in Instance : Pinned(j) => Pinned(j)'
    BY <1>2, <1>4 DEF Pinned
  <2>2. RoomUnchanged
    BY <1>1, <2>1 DEF RoomUnchanged, smVars
  <2> QED BY <1>1, <1>2, <1>4, <2>2, QuietStep
<1> QED BY <1>1, <1>3, <1>4

LEMMA ForgetWakes ==
  ASSUME PoolInv, NEW r \in Request, ForgetFailedManager(r)
  PROVE  WakeupInv'
<1>1. /\ woken' = woken \cup Sleeping
      /\ pc' = [pc EXCEPT ![r] = "capacity"] \/ pc' = [pc EXCEPT ![r] = "idle"]
  BY DEF ForgetFailedManager, Over, Goto
<1>2. \A q \in Request : pc'[q] = "waitTurn" => q \in woken'
  BY <1>1 DEF Sleeping, PoolInv, TypeOK, RequestTypeOK
<1> QED BY <1>2, WakingStep

\* The steps of a request that only move it from one await to the next.
LEMMA MoveWakes ==
  ASSUME PoolInv, WakeupInv, NEW r \in Request,
         \/ \E m \in Model : StartRequest(r, m)
         \/ EnterModel(r) \/ WaitForUnload(r) \/ ObtainLoaded(r) \/ LoadRefused(r)
  PROVE  WakeupInv'
<1> USE DEF PoolInv, TypeOK
<1>1. /\ UNCHANGED <<smVars, managers, portPool, capacityWaiters, notifyPending>>
      /\ woken' \in {woken, woken \ {r}}
  BY DEF StartRequest, EnterModel, WaitForUnload, ObtainLoaded, LoadRefused, poolVars, condVars
<1>2. /\ pc[r] # "serving"
      /\ \/ pc' = pc
         \/ \E where \in RequestPc \ {"waitTurn"} : pc' = [pc EXCEPT ![r] = where]
      /\ pc' = pc => pc[r] # "waitTurn"
      /\ \/ handle' = handle
         \/ \E h : handle' = [handle EXCEPT ![r] = h]
      /\ \/ target' = target
         \/ \E m : target' = [target EXCEPT ![r] = m]
      /\ \/ forceExtra' = forceExtra
         \/ forceExtra' = [forceExtra EXCEPT ![r] = FALSE]
  BY DEF StartRequest, EnterModel, WaitForUnload, AtUnloadCheck, ObtainLoaded, LoadRefused,
         Obtain, Over, Goto, RequestPc
<1>3. /\ pc'[r] # "waitTurn"
      /\ \A q \in Request \ {r} : /\ pc'[q] = pc[q] /\ handle'[q] = handle[q]
                                  /\ target'[q] = target[q] /\ forceExtra'[q] = forceExtra[q]
  BY <1>2 DEF RequestTypeOK
<1>4. \A j \in Instance : Pinned(j) => Pinned(j)'
  BY <1>2, <1>3 DEF Pinned
<1>5. RoomUnchanged
  BY <1>1, <1>4 DEF RoomUnchanged, smVars
<1> QED BY <1>1, <1>3, <1>5, QuietStep

LEMMA TimeoutWakes ==
  ASSUME PoolInv, WakeupInv, NEW r \in Request, LoadTimeout(r)
  PROVE  WakeupInv'
<1> USE DEF PoolInv, TypeOK
<1>1. handle[r] \in Instance /\ BeginUnload(handle[r])
  BY DEF LoadTimeout, StopManager, RequestInv, RequestInvOf, KnowsManager
<1>2. /\ notifyPending => notifyPending'
      /\ UNCHANGED <<poolVars, capacityWaiters, woken, target, handle, forceExtra>>
      /\ pc[r] = "waitReady" /\ pc' = [pc EXCEPT ![r] = "timeoutUnload"]
  BY DEF LoadTimeout, StopManager
<1>3. \A q \in Request : pc'[q] = pc[q] \/ (pc[q] # "serving" /\ pc'[q] # "waitTurn")
  BY <1>2 DEF RequestTypeOK
<1> QED BY <1>1, <1>2, <1>3, StopWakes

LEMMA EvictWakes ==
  ASSUME PoolInv, NEW r \in Request, NEW x \in Model, EvictLru(r, x)
  PROVE  WakeupInv'
<1>1. managers[x] \in Instance /\ managers' = managers
  BY DEF EvictLru, LeastRecentlyUsed, IdleModels, Loaded, PoolTypeOK, PoolInv, TypeOK, poolVars
<1>2. state'[managers[x]] = "UNLOADING"
  BY <1>1 DEF EvictLru, BeginUnload, SMTypeOK, PoolInv, TypeOK
<1>3. Unloading(x)'
  BY <1>1, <1>2, NoneIsNothing DEF Unloading
<1> QED BY <1>3, WakingStep

\* A step that changes nothing a sleeper looks at.
LEMMA NothingSeen ==
  ASSUME PoolInv, WakeupInv,
         UNCHANGED <<state, managers, portPool, capacityWaiters, woken, notifyPending, reqVars>>
  PROVE  WakeupInv'
<1>1. \A j \in Instance : Pinned(j) => Pinned(j)'
  BY DEF Pinned, reqVars
<1>2. RoomUnchanged
  BY <1>1 DEF RoomUnchanged
<1> QED BY <1>2, QuietStep DEF reqVars

LEMMA StopManagerWakes ==
  ASSUME PoolInv, WakeupInv, NEW i \in Instance, StopManager(i), UNCHANGED <<poolVars, reqVars>>
  PROVE  WakeupInv'
  BY StopWakes DEF StopManager, reqVars

LEMMA WakeupInvStep == PoolInv /\ WakeupInv /\ [Next]_vars => WakeupInv'
<1> SUFFICES ASSUME PoolInv, WakeupInv, [Next]_vars PROVE WakeupInv'
  OBVIOUS
<1> USE DEF PoolInv, TypeOK
<1>1. ASSUME NEW r \in Request, RequestStep(r)
      PROVE  WakeupInv'
  <2>1. CASE Refuse(r)
    BY <2>1, FailWakes DEF Refuse, AtCapacityCheck, AtUnloadCheck
  <2> QED BY <1>1, <2>1, MoveWakes, EvictWakes, CreateWakes, QueueUpSleeps, ForgetWakes
          DEF RequestStep
<1>2. ASSUME NEW r \in Request, QueueTimeout(r)
      PROVE  WakeupInv'
  BY <1>2, FailWakes DEF QueueTimeout
<1>3. ASSUME NEW i \in Instance, ServerStep(i)
      PROVE  WakeupInv'
  <2>1. CASE SpawnServer(i) \/ ServerLoadRaises(i) \/ ServerExits(i)
    BY <2>1, NothingSeen DEF SpawnServer, StartProcess, ServerLoadRaises, LoadRaises, ServerExits,
       ProcessExits, othersUnchanged, poolVars
  <2>2. CASE ServerReady(i) \/ ServerLoadFailed(i) \/ UnloadDone(i) \/ CrashNoticed(i)
    BY <2>2, WakingStep DEF ServerReady, ServerLoadFailed, UnloadDone, CrashNoticed
  <2>3. CASE IdleUnload(i)
    BY <2>3, StopWakes DEF IdleUnload, othersUnchanged, reqVars
  <2> QED BY <1>3, <2>1, <2>2, <2>3 DEF ServerStep
<1>4. CASE NotifyWaiters
  <2>1. \A q \in Request : pc'[q] = "waitTurn" => q \in woken'
    BY <1>4 DEF NotifyWaiters, Sleeping, reqVars
  <2> QED BY <2>1, WakingStep
<1>5. ASSUME NEW a \in Admin, AdminStep(a)
      PROVE  WakeupInv'
  <2>1. adminModel[a] \in Model
    BY <1>5 DEF AdminStep, AdminLock, AdminQuarantine, AdminDrained, AdminEnd, AdminInv, AdminInvOf
  <2>2. managers[adminModel[a]] \in Instance \cup {None}
    BY <2>1 DEF PoolTypeOK
  <2>3. UNCHANGED <<poolVars, reqVars>>
    BY <1>5 DEF AdminStep, AdminLock, AdminQuarantine, AdminDrained, AdminEnd
  <2>4. \/ UNCHANGED <<smVars, condVars>>
        \/ managers[adminModel[a]] \in Instance /\ StopManager(managers[adminModel[a]])
    BY <1>5, <2>2 DEF AdminStep, AdminLock, AdminQuarantine, AdminDrained, AdminEnd, AdminProceed
  <2> QED BY <2>3, <2>4, NothingSeen, StopManagerWakes DEF smVars, condVars, poolVars
<1>6. ASSUME NEW u \in Unloader,
             \/ \E force \in ForceAll : StartUnloadAll(u, force)
             \/ UnloadAll(u)
             \/ UnloadAllBusy(u)
      PROVE  WakeupInv'
  <2>1. UNCHANGED <<poolVars, reqVars>>
    BY <1>6 DEF StartUnloadAll, UnloadAll, UnloadAllBusy
  <2>2. UNCHANGED <<smVars, condVars>> \/ \E m \in Loaded : StopManager(managers[m])
    BY <1>6 DEF StartUnloadAll, UnloadAll, UnloadAllBusy, UnloadNext
  <2>3. \A m \in Loaded : managers[m] \in Instance
    BY DEF Loaded, PoolTypeOK
  <2> QED BY <2>1, <2>2, <2>3, NothingSeen, StopManagerWakes DEF smVars, condVars, poolVars
<1>7. ASSUME NEW m \in Provisional, BlockBootstrap(m) \/ UnblockBootstrap(m)
      PROVE  WakeupInv'
  BY <1>7, WakingStep DEF BlockBootstrap, UnblockBootstrap
<1>8. CASE \/ \E a \in Admin, m \in Model, op \in AdminOp : AdminStart(a, m, op)
           \/ \E m \in Model : EnableModel(m)
           \/ UNCHANGED vars
  BY <1>8, NothingSeen DEF AdminStart, EnableModel, vars, smVars, poolVars, condVars
<1> QED
  BY <1>1, <1>2, <1>3, <1>4, <1>5, <1>6, <1>7, <1>8, MoveWakes, TimeoutWakes, FinishWakes DEF Next

LEMMA WakeupInvariant == Spec => []WakeupInv
<1>1. Init => WakeupInv
  <2> SUFFICES ASSUME Init PROVE WakeupInv
    OBVIOUS
  <2>1. \A r \in Request : pc[r] = "idle"
    BY DEF Init
  <2> QED BY <2>1 DEF WakeupInv, SleepsOn
<1> QED BY <1>1, PoolInvariant, WakeupInvStep, PTL DEF Spec

\* No wake-up is lost, for any number of requests, models, evictions and retries:
\* whatever frees a place either wakes the head of the queue, has scheduled its
\* notification, or is an unload of the pool that will (_notify_capacity_waiters
\* and the notify_all of _ensure_capacity).
THEOREM WakeupNeverLost == Spec => []NoLostWakeup
<1>1. WakeupInv => NoLostWakeup
  BY DEF WakeupInv, NoLostWakeup, SleepsOn, NothingFor, MustWait, CanBuild
<1> QED BY <1>1, WakeupInvariant, PTL
================================================================================
