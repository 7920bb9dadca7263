--------------------------- MODULE LocalPoolProofs ---------------------------
(***************************************************************************)
(* What LocalPool guarantees for any number of models, managers, requests, *)
(* admin tasks and ports.                                                  *)
(***************************************************************************)
EXTENDS LocalPool, ServerManagerProofs

USE PoolAssumption

-----------------------------------------------------------------------------
(* The inductive invariant                                                 *)

\* Between these two awaits a request knows a ServerManager ...
KnowsManager ==
  {"evicting", "waitReady", "timeoutUnload", "forget", "forgetCapacity", "serving"}

\* ... and in these states it holds the model_lock of its target.
HoldsLock == RequestPc \ {"idle", "modelLock", "serving"}

RequestInvOf(r) ==
  /\ pc[r] \in KnowsManager => handle[r] \in Instance
  /\ pc[r] # "idle" => target[r] \in Model
  /\ pc[r] \in HoldsLock => modelLock[target[r]] = r
  /\ pc[r] \in {"waitTurn", "evicting"} => managers[target[r]] = None

RequestInv == \A r \in Request : RequestInvOf(r)

AdminInvOf(a) ==
  /\ adminPc[a] # "idle" => adminModel[a] \in Model /\ adminOp[a] \in AdminOp
  /\ adminPc[a] \in {"lookup", "drain", "unloading"} => modelLock[adminModel[a]] = a

AdminInv == \A a \in Admin : AdminInvOf(a)

\* model_lock is what makes PoolConsistent inductive: a request that waits for a
\* place finds its model still absent when it has one.
PoolInv == TypeOK /\ RequestInv /\ AdminInv /\ PoolConsistent

-----------------------------------------------------------------------------
(* Queues                                                                  *)

Elements(s) == {s[k] : k \in 1..Len(s)}
Injective(s) == \A j, k \in 1..Len(s) : s[j] = s[k] => j = k

\* Taking the first port of the pool leaves the others, once each.
LEMMA TakeFirst ==
  ASSUME NEW S, NEW s \in Seq(S), s # <<>>, Injective(s)
  PROVE  /\ Head(s) \in S
         /\ Tail(s) \in Seq(S)
         /\ Injective(Tail(s))
         /\ Elements(Tail(s)) = Elements(s) \ {Head(s)}
         /\ Head(s) \in Elements(s)
<1>1. Len(s) \in Nat \ {0} /\ Head(s) = s[1] /\ \A k \in 1..Len(s) : s[k] \in S
  OBVIOUS
<1>2. Tail(s) \in Seq(S) /\ Len(Tail(s)) = Len(s) - 1
        /\ \A k \in 1..Len(Tail(s)) : Tail(s)[k] = s[k + 1]
  OBVIOUS
<1>3. Injective(Tail(s))
  <2> SUFFICES ASSUME NEW j \in 1..Len(Tail(s)), NEW k \in 1..Len(Tail(s)),
                      Tail(s)[j] = Tail(s)[k]
               PROVE  j = k
    BY DEF Injective
  <2>1. s[j + 1] = s[k + 1] /\ j + 1 \in 1..Len(s) /\ k + 1 \in 1..Len(s)
    BY <1>1, <1>2
  <2> QED BY <2>1 DEF Injective
<1>4. ASSUME NEW x PROVE x \in Elements(Tail(s)) <=> x \in Elements(s) \ {Head(s)}
  <2>1. ASSUME x \in Elements(Tail(s)) PROVE x \in Elements(s) \ {Head(s)}
    <3>1. PICK k \in 1..Len(Tail(s)) : x = Tail(s)[k]
      BY <2>1 DEF Elements
    <3>2. x = s[k + 1] /\ k + 1 \in 1..Len(s) /\ 1 \in 1..Len(s) /\ k + 1 # 1
      BY <1>1, <1>2, <3>1
    <3>3. s[k + 1] # s[1]
      BY <3>2 DEF Injective
    <3> QED BY <1>1, <3>2, <3>3 DEF Elements
  <2>2. ASSUME x \in Elements(s) \ {Head(s)} PROVE x \in Elements(Tail(s))
    <3>1. PICK k \in 1..Len(s) : x = s[k]
      BY <2>2 DEF Elements
    <3>2. k # 1
      BY <1>1, <2>2, <3>1
    <3>3. k - 1 \in 1..Len(Tail(s)) /\ Tail(s)[k - 1] = x
      BY <1>1, <1>2, <3>1, <3>2
    <3> QED BY <3>3 DEF Elements
  <2> QED BY <2>1, <2>2
<1>5. Head(s) \in Elements(s)
  BY <1>1 DEF Elements
<1> QED BY <1>1, <1>2, <1>3, <1>4, <1>5

\* Returning a port that is not in the pool keeps every port there once.
LEMMA AddLast ==
  ASSUME NEW S, NEW s \in Seq(S), NEW x \in S, x \notin Elements(s), Injective(s)
  PROVE  /\ Append(s, x) \in Seq(S)
         /\ Injective(Append(s, x))
         /\ Elements(Append(s, x)) = Elements(s) \cup {x}
<1>1. Append(s, x) \in Seq(S) /\ Len(s) \in Nat /\ Len(Append(s, x)) = Len(s) + 1
        /\ Append(s, x)[Len(s) + 1] = x /\ \A k \in 1..Len(s) : Append(s, x)[k] = s[k]
  OBVIOUS
<1>2. Injective(Append(s, x))
  <2> SUFFICES ASSUME NEW j \in 1..(Len(s) + 1), NEW k \in 1..(Len(s) + 1),
                      Append(s, x)[j] = Append(s, x)[k]
               PROVE  j = k
    BY <1>1 DEF Injective
  <2>1. CASE j \in 1..Len(s) /\ k \in 1..Len(s)
    BY <1>1, <2>1 DEF Injective
  <2>2. CASE j = Len(s) + 1 /\ k \in 1..Len(s)
    <3>1. x = s[k] BY <1>1, <2>2
    <3> QED BY <2>2, <3>1 DEF Elements
  <2>3. CASE j \in 1..Len(s) /\ k = Len(s) + 1
    <3>1. x = s[j] BY <1>1, <2>3
    <3> QED BY <2>3, <3>1 DEF Elements
  <2> QED BY <1>1, <2>1, <2>2, <2>3
<1>3. ASSUME NEW y PROVE y \in Elements(Append(s, x)) <=> y \in Elements(s) \cup {x}
  <2>1. ASSUME y \in Elements(Append(s, x)) PROVE y \in Elements(s) \cup {x}
    <3>1. PICK k \in 1..(Len(s) + 1) : y = Append(s, x)[k]
      BY <1>1, <2>1 DEF Elements
    <3>2. k \in 1..Len(s) \/ k = Len(s) + 1
      BY <1>1
    <3> QED BY <1>1, <3>1, <3>2 DEF Elements
  <2>2. ASSUME y \in Elements(s) PROVE y \in Elements(Append(s, x))
    <3>1. PICK k \in 1..Len(s) : y = s[k]
      BY <2>2 DEF Elements
    <3>2. k \in 1..Len(Append(s, x)) /\ Append(s, x)[k] = y
      BY <1>1, <3>1
    <3> QED BY <3>2 DEF Elements
  <2>3. x \in Elements(Append(s, x))
    <3>1. Len(s) + 1 \in 1..Len(Append(s, x))
      BY <1>1
    <3> QED BY <1>1, <3>1 DEF Elements
  <2> QED BY <2>1, <2>2, <2>3
<1> QED BY <1>1, <1>2, <1>3

\* Giving up a ticket leaves a queue.
LEMMA DropTicketType ==
  ASSUME NEW S, NEW s \in Seq(S), NEW r, \E j \in 1..Len(s) : s[j] = r
  PROVE  DropTicket(s, r) \in Seq(S)
<1> DEFINE k == CHOOSE j \in 1..Len(s) : s[j] = r
           f == [j \in 1..(Len(s) - 1) |-> IF j < k THEN s[j] ELSE s[j + 1]]
<1>1. k \in 1..Len(s) /\ Len(s) \in Nat \ {0} /\ \A j \in 1..Len(s) : s[j] \in S
  <2>1. k \in 1..Len(s)
    OBVIOUS
  <2> QED BY <2>1
<1>2. Len(s) - 1 \in Nat
  BY <1>1
<1> HIDE DEF k
<1>3. \A j \in 1..(Len(s) - 1) : f[j] \in S
  <2> SUFFICES ASSUME NEW j \in 1..(Len(s) - 1) PROVE f[j] \in S
    OBVIOUS
  <2>1. j \in 1..Len(s) /\ j + 1 \in 1..Len(s)
    BY <1>1
  <2> QED BY <1>1, <2>1
<1>4. f \in [1..(Len(s) - 1) -> S]
  BY <1>3
<1> HIDE DEF f
<1>5. f \in Seq(S)
  BY <1>2, <1>4
<1> QED BY <1>5 DEF DropTicket, f, k

-----------------------------------------------------------------------------
(* The pool: Release and the creation of a manager                         *)

\* Only these parts of PoolConsistent are reasoned about.
LEMMA PoolConsistentParts ==
  PoolConsistent <=>
    /\ Injective(portPool)
    /\ \A m \in Model :
         /\ managers[m] = None <=> allocatedPorts[m] = None
         /\ managers[m] # None =>
              /\ modelOf[managers[m]] = m
              /\ portOf[managers[m]] = allocatedPorts[m]
              /\ allocatedPorts[m] \notin Elements(portPool)
    /\ \A m, n \in Model :
         allocatedPorts[m] # None /\ allocatedPorts[m] = allocatedPorts[n] => m = n
    /\ Port = Elements(portPool) \cup {allocatedPorts[m] : m \in Loaded}
  BY DEF PoolConsistent, Injective, Elements, PortsInPool

\* Giving a manager back keeps the pool consistent, whoever calls and whenever.
LEMMA ReleaseKeepsPool ==
  ASSUME PoolTypeOK, PoolConsistent,
         NEW m \in Model \cup {None}, NEW i \in Instance, Release(m, i)
  PROVE  /\ PoolTypeOK' /\ PoolConsistent'
         /\ \A n \in Model : managers'[n] \in {managers[n], None}
<1>0. None \notin Instance /\ None \notin Model /\ None \notin Port
  BY DEF Port
<1>1. CASE ~(m # None /\ managers[m] = i)
  BY <1>1 DEF Release, poolVars, PoolTypeOK, PoolConsistent, PortsInPool, Loaded
<1>2. CASE m # None /\ managers[m] = i
  <2> DEFINE p == allocatedPorts[m]
  <2>1. /\ m \in Model /\ m \in Loaded
        /\ managers' = [managers EXCEPT ![m] = None]
        /\ portPool' = Append(portPool, p)
        /\ allocatedPorts' = [allocatedPorts EXCEPT ![m] = None]
        /\ older' \subseteq older
        /\ UNCHANGED <<modelOf, portOf>>
    BY <1>0, <1>2 DEF Release, Loaded
  <2>2. p \in Port /\ p \notin Elements(portPool) /\ Injective(portPool)
    BY <1>0, <2>1, PoolConsistentParts DEF PoolTypeOK, Loaded
  <2> HIDE DEF p
  <2>3. /\ portPool' \in Seq(Port)
        /\ Injective(portPool')
        /\ Elements(portPool') = Elements(portPool) \cup {p}
    BY <2>1, <2>2, AddLast DEF PoolTypeOK
  <2>4. PoolTypeOK'
    BY <2>1, <2>3 DEF PoolTypeOK
  <2>5. Loaded' = Loaded \ {m}
    BY <1>0, <2>1 DEF Loaded, PoolTypeOK
  <2>6. ASSUME NEW n \in Model
        PROVE  /\ managers'[n] = None <=> allocatedPorts'[n] = None
               /\ managers'[n] # None =>
                    /\ modelOf'[managers'[n]] = n
                    /\ portOf'[managers'[n]] = allocatedPorts'[n]
                    /\ allocatedPorts'[n] \notin Elements(portPool')
    <3>1. CASE n = m
      BY <2>1, <3>1 DEF PoolTypeOK
    <3>2. CASE n # m
      <4>1. managers'[n] = managers[n] /\ allocatedPorts'[n] = allocatedPorts[n]
        BY <2>1, <3>2 DEF PoolTypeOK
      <4>2. managers[n] # None => allocatedPorts[n] # p
        BY <2>1, <2>2, <3>2, <1>0, PoolConsistentParts DEF p
      <4> QED BY <2>1, <2>3, <4>1, <4>2, PoolConsistentParts
    <3> QED BY <3>1, <3>2
  <2>7. \A x, y \in Model :
          allocatedPorts'[x] # None /\ allocatedPorts'[x] = allocatedPorts'[y] => x = y
    BY <2>1, PoolConsistentParts DEF PoolTypeOK
  <2>8. Port = Elements(portPool') \cup {allocatedPorts'[n] : n \in Loaded'}
    <3>1. \A n \in Loaded' : allocatedPorts'[n] = allocatedPorts[n]
      BY <2>1, <2>5 DEF PoolTypeOK, Loaded
    <3>2. {allocatedPorts[n] : n \in Loaded} = {allocatedPorts'[n] : n \in Loaded'} \cup {p}
      BY <2>1, <2>5, <3>1 DEF p
    <3> QED BY <2>3, <3>2, PoolConsistentParts
  <2>9. PoolConsistent'
    BY <2>3, <2>6, <2>7, <2>8 DEF PoolConsistent, Injective, Elements, PortsInPool
  <2> QED BY <2>1, <2>4, <2>9 DEF PoolTypeOK
<1> QED BY <1>1, <1>2

\* A manager for a model that has none takes the first free port.
LEMMA CreateKeepsPool ==
  ASSUME PoolTypeOK, PoolConsistent, NEW r \in Request, NEW i \in Instance,
         target[r] \in Model, managers[target[r]] = None, CreateManager(r, i)
  PROVE  /\ PoolTypeOK' /\ PoolConsistent'
         /\ \A n \in Model \ {target[r]} : managers'[n] = managers[n]
<1> DEFINE m == target[r]
           p == Head(portPool)
<1>0. None \notin Instance /\ None \notin Model /\ None \notin Port
  BY DEF Port
<1>1. /\ portPool # <<>>
      /\ ~InPool(i)
      /\ portPool' = Tail(portPool)
      /\ allocatedPorts' = [allocatedPorts EXCEPT ![m] = p]
      /\ managers' = [managers EXCEPT ![m] = i]
      /\ modelOf' = [modelOf EXCEPT ![i] = m]
      /\ portOf' = [portOf EXCEPT ![i] = p]
      /\ UNCHANGED older
  BY DEF CreateManager, CanBuild, HasCapacityFor, Fresh
<1>2. m \in Model /\ managers[m] = None
  OBVIOUS
<1>3. Injective(portPool)
  BY PoolConsistentParts
<1>4. /\ p \in Port /\ p \in Elements(portPool)
      /\ portPool' \in Seq(Port)
      /\ Injective(portPool')
      /\ Elements(portPool') = Elements(portPool) \ {p}
  BY <1>1, <1>3, TakeFirst DEF PoolTypeOK
<1> HIDE DEF m, p
<1>5. PoolTypeOK'
  BY <1>1, <1>2, <1>4 DEF PoolTypeOK
<1>6. Loaded' = Loaded \cup {m}
  BY <1>0, <1>1, <1>2 DEF Loaded, PoolTypeOK
<1>7. ASSUME NEW n \in Model, n # m
      PROVE  /\ managers'[n] = managers[n] /\ allocatedPorts'[n] = allocatedPorts[n]
             /\ managers[n] # i
             /\ allocatedPorts[n] # p
  <2>1. managers'[n] = managers[n] /\ allocatedPorts'[n] = allocatedPorts[n]
    BY <1>1, <1>7 DEF PoolTypeOK
  <2>2. managers[n] # i
    BY <1>1 DEF InPool
  <2>3. allocatedPorts[n] # p
    BY <1>0, <1>4, PoolConsistentParts
  <2> QED BY <2>1, <2>2, <2>3
<1>8. managers'[m] = i /\ allocatedPorts'[m] = p /\ modelOf'[i] = m /\ portOf'[i] = p
  BY <1>1, <1>2 DEF PoolTypeOK
<1>9. ASSUME NEW n \in Model
      PROVE  /\ managers'[n] = None <=> allocatedPorts'[n] = None
             /\ managers'[n] # None =>
                  /\ modelOf'[managers'[n]] = n
                  /\ portOf'[managers'[n]] = allocatedPorts'[n]
                  /\ allocatedPorts'[n] \notin Elements(portPool')
  <2>1. CASE n = m
    BY <1>0, <1>4, <1>8, <2>1
  <2>2. CASE n # m
    <3>1. managers[n] # None =>
            /\ modelOf'[managers[n]] = modelOf[managers[n]]
            /\ portOf'[managers[n]] = portOf[managers[n]]
      BY <1>1, <1>7, <2>2 DEF PoolTypeOK
    <3> QED BY <1>4, <1>7, <2>2, <3>1, PoolConsistentParts
  <2> QED BY <2>1, <2>2
<1>10. \A x, y \in Model :
         allocatedPorts'[x] # None /\ allocatedPorts'[x] = allocatedPorts'[y] => x = y
  BY <1>7, <1>8, PoolConsistentParts
<1>11. Port = Elements(portPool') \cup {allocatedPorts'[n] : n \in Loaded'}
  <2>1. m \notin Loaded
    BY <1>2 DEF Loaded
  <2>2. \A n \in Loaded : allocatedPorts'[n] = allocatedPorts[n]
    BY <1>7, <2>1 DEF Loaded
  <2>3. {allocatedPorts'[n] : n \in Loaded'} = {allocatedPorts[n] : n \in Loaded} \cup {p}
    BY <1>6, <1>8, <2>2
  <2>4. Port = Elements(portPool) \cup {allocatedPorts[n] : n \in Loaded}
    BY PoolConsistentParts
  <2> QED BY <1>4, <2>3, <2>4
<1>12. PoolConsistent'
  BY <1>4, <1>9, <1>10, <1>11 DEF PoolConsistent, Injective, Elements, PortsInPool
<1> QED BY <1>5, <1>7, <1>12 DEF m

-----------------------------------------------------------------------------
(* The inductive step, one action of the pool at a time                    *)

\* What an action leaves to show: the ServerManager part comes by itself.
PoolRest ==
  /\ PoolTypeOK /\ AdmissionTypeOK /\ RequestTypeOK /\ AdminTypeOK /\ UnloaderTypeOK
  /\ RequestInv /\ AdminInv /\ PoolConsistent

LEMMA NoneIsNothing ==
  /\ None \notin Instance /\ None \notin Model /\ None \notin Request /\ None \notin Admin
  /\ \A a \in Admin : a \notin Request
  OBVIOUS

\* Recording the time of a request concerns nothing but the eviction order.
LEMMA TouchKeepsPool ==
  ASSUME PoolTypeOK, PoolConsistent, NEW m \in Model,
         Touch(m) \/ UNCHANGED older,
         UNCHANGED <<managers, allocatedPorts, portPool, modelOf, portOf>>
  PROVE  PoolTypeOK' /\ PoolConsistent'
<1>1. older' \subseteq Model \X Model
  BY DEF Touch, PoolTypeOK, Loaded
<1>2. PoolTypeOK'
  BY <1>1 DEF PoolTypeOK
<1>3. PoolConsistent'
  BY DEF PoolConsistent, PortsInPool, Loaded
<1> QED BY <1>2, <1>3

LEMMA UnchangedPool ==
  ASSUME PoolTypeOK, PoolConsistent, UNCHANGED poolVars
  PROVE  PoolTypeOK' /\ PoolConsistent'
  BY DEF poolVars, PoolTypeOK, PoolConsistent, PortsInPool, Loaded

\* Leaving the condition, with or without a ticket.
LEMMA LeaveConditionType ==
  ASSUME AdmissionTypeOK, RequestTypeOK, NEW r \in Request, LeaveCondition(r)
  PROVE  /\ condHolder' = None /\ capacityWaiters' \in Seq(Request)
         /\ woken' \subseteq Request /\ notifyPending' = notifyPending
<1>1. CASE Queued(r)
  <2>1. DropTicket(capacityWaiters, r) \in Seq(Request)
    BY <1>1, DropTicketType DEF Queued, AdmissionTypeOK
  <2> QED BY <1>1, <2>1 DEF LeaveCondition, Sleeping, AdmissionTypeOK
<1>2. CASE ~Queued(r)
  BY <1>2 DEF LeaveCondition, AdmissionTypeOK
<1> QED BY <1>1, <1>2

\* A request that moves does not disturb the others: it touches the locks and the
\* pool entries of no model that another request has locked.
LEMMA OthersKeepInv ==
  ASSUME NEW r \in Request, RequestInv,
         \A q \in Request \ {r} :
           pc'[q] = pc[q] /\ handle'[q] = handle[q] /\ target'[q] = target[q],
         \A m \in Model : modelLock'[m] = modelLock[m] \/ modelLock[m] \in {None, r},
         \A m \in Model : managers'[m] \in {managers[m], None} \/ modelLock[m] = r,
         RequestInvOf(r)'
  PROVE  RequestInv'
<1> SUFFICES ASSUME NEW q \in Request \ {r} PROVE RequestInvOf(q)'
  BY DEF RequestInv
<1>1. RequestInvOf(q) /\ pc'[q] = pc[q] /\ handle'[q] = handle[q] /\ target'[q] = target[q]
  BY DEF RequestInv
<1>2. \A m \in Model : modelLock[m] = q => modelLock'[m] = q /\ managers'[m] \in {managers[m], None}
  BY NoneIsNothing
<1>3. pc[q] \in {"waitTurn", "evicting"} => pc[q] \in HoldsLock /\ pc[q] # "idle"
  BY DEF HoldsLock, RequestPc
<1>4. pc[q] \in HoldsLock => pc[q] # "idle"
  BY DEF HoldsLock
<1> QED BY <1>1, <1>2, <1>3, <1>4 DEF RequestInvOf

\* A step that is not a request's: only the pool entries may disappear.
LEMMA RequestsKeepInv ==
  ASSUME RequestInv, UNCHANGED <<pc, handle, target>>,
         \A m \in Model : modelLock'[m] = modelLock[m] \/ modelLock[m] \notin Request,
         \A m \in Model : managers'[m] \in {managers[m], None}
  PROVE  RequestInv'
<1> SUFFICES ASSUME NEW q \in Request PROVE RequestInvOf(q)'
  BY DEF RequestInv
<1>1. RequestInvOf(q) /\ pc'[q] = pc[q] /\ handle'[q] = handle[q] /\ target'[q] = target[q]
  BY DEF RequestInv
<1>2. pc[q] \in {"waitTurn", "evicting"} => pc[q] \in HoldsLock /\ pc[q] # "idle"
  BY DEF HoldsLock, RequestPc
<1>3. pc[q] \in HoldsLock => pc[q] # "idle"
  BY DEF HoldsLock
<1> QED BY <1>1, <1>2, <1>3 DEF RequestInvOf

\* Likewise for the admin tasks.
LEMMA AdminsKeepInv ==
  ASSUME AdminInv, UNCHANGED <<adminPc, adminModel, adminOp>>,
         \A m \in Model : modelLock'[m] = modelLock[m] \/ modelLock[m] \notin Admin
  PROVE  AdminInv'
  BY DEF AdminInv, AdminInvOf

LEMMA OverType ==
  ASSUME RequestTypeOK, NEW r \in Request, Over(r)
  PROVE  /\ RequestTypeOK'
         /\ RequestInvOf(r)'
         /\ \A q \in Request \ {r} :
              pc'[q] = pc[q] /\ handle'[q] = handle[q] /\ target'[q] = target[q]
<1>1. RequestTypeOK'
  BY DEF Over, Goto, RequestTypeOK, RequestPc
<1>2. pc'[r] = "idle"
  BY DEF Over, Goto, RequestTypeOK
<1>3. RequestInvOf(r)'
  BY <1>2 DEF RequestInvOf, KnowsManager, HoldsLock
<1> QED BY <1>1, <1>3 DEF Over, Goto, RequestTypeOK

LEMMA ObtainType ==
  ASSUME RequestTypeOK, NEW r \in Request, NEW i \in Instance, target[r] \in Model, Obtain(r, i)
  PROVE  /\ RequestTypeOK'
         /\ RequestInvOf(r)'
         /\ \A q \in Request \ {r} :
              pc'[q] = pc[q] /\ handle'[q] = handle[q] /\ target'[q] = target[q]
<1>1. CASE r \in Preload
  BY <1>1, OverType DEF Obtain
<1>2. CASE r \notin Preload
  <2>0. /\ pc' = [pc EXCEPT ![r] = "serving"] /\ handle' = [handle EXCEPT ![r] = i]
        /\ attempt' = [attempt EXCEPT ![r] = 0]
        /\ forceExtra' = [forceExtra EXCEPT ![r] = FALSE]
        /\ target' = target
    BY <1>2 DEF Obtain, Goto
  <2>1. RequestTypeOK'
    BY <2>0 DEF RequestTypeOK, RequestPc
  <2>2. pc'[r] = "serving" /\ handle'[r] = i /\ target'[r] \in Model
    BY <1>2 DEF Obtain, Goto, RequestTypeOK
  <2>3. RequestInvOf(r)'
    BY <2>2 DEF RequestInvOf, KnowsManager, HoldsLock
  <2> QED BY <1>2, <2>1, <2>3 DEF Obtain, Goto, RequestTypeOK
<1> QED BY <1>1, <1>2

LEMMA StartRequestStep ==
  ASSUME PoolInv, NEW r \in Request, NEW m \in Model, StartRequest(r, m)
  PROVE  PoolRest'
<1> USE DEF PoolInv, TypeOK
<1>1. PoolTypeOK' /\ PoolConsistent'
  BY UnchangedPool DEF StartRequest
<1>2. AdmissionTypeOK' /\ RequestTypeOK' /\ AdminTypeOK' /\ UnloaderTypeOK'
  BY DEF StartRequest, AdmissionTypeOK, RequestTypeOK, RequestPc, AdminTypeOK, UnloaderTypeOK,
         condVars, gateVars, adminVars, allVars
<1>3. RequestInv' /\ AdminInv'
  BY NoneIsNothing DEF StartRequest, RequestInv, RequestInvOf, AdminInv, AdminInvOf, RequestTypeOK,
         KnowsManager, HoldsLock, RequestPc, adminVars, poolVars
<1> QED BY <1>1, <1>2, <1>3 DEF PoolRest

LEMMA EnterModelStep ==
  ASSUME PoolInv, NEW r \in Request, EnterModel(r)
  PROVE  PoolRest'
<1> USE DEF PoolInv, TypeOK
<1>0. target[r] \in Model /\ managers[target[r]] \in Instance \cup {None}
  BY DEF EnterModel, RequestInv, RequestInvOf, PoolTypeOK
<1>1. PoolTypeOK' /\ PoolConsistent'
  BY <1>0, TouchKeepsPool DEF EnterModel
<1>2. /\ pc[r] = "modelLock" /\ modelLock[target[r]] = None
      /\ UNCHANGED <<managers, condVars, gateVars, adminVars, allVars>>
  BY DEF EnterModel
<1>3. CASE Over(r) /\ UNCHANGED modelLock
  <2>1. RequestTypeOK' /\ RequestInv'
    BY <1>2, <1>3, OverType, OthersKeepInv
  <2>2. AdmissionTypeOK' /\ AdminTypeOK' /\ UnloaderTypeOK' /\ AdminInv'
    BY <1>2, <1>3 DEF AdmissionTypeOK, AdminTypeOK, UnloaderTypeOK, AdminInv, AdminInvOf, condVars, gateVars,
                      adminVars, allVars
  <2> QED BY <1>1, <2>1, <2>2 DEF PoolRest
<1>4. CASE managers[target[r]] # None /\ Obtain(r, managers[target[r]]) /\ UNCHANGED modelLock
  <2>1. RequestTypeOK' /\ RequestInv'
    BY <1>0, <1>2, <1>4, ObtainType, OthersKeepInv
  <2>2. AdmissionTypeOK' /\ AdminTypeOK' /\ UnloaderTypeOK' /\ AdminInv'
    BY <1>2, <1>4 DEF AdmissionTypeOK, AdminTypeOK, UnloaderTypeOK, AdminInv, AdminInvOf, condVars, gateVars,
                      adminVars, allVars
  <2> QED BY <1>1, <2>1, <2>2 DEF PoolRest
<1>5. CASE /\ modelLock' = [modelLock EXCEPT ![target[r]] = r]
           /\ pc' = [pc EXCEPT ![r] = "capacity"]
           /\ UNCHANGED <<target, handle, attempt, forceExtra>>
  <2>1. RequestTypeOK' /\ AdmissionTypeOK' /\ AdminTypeOK' /\ UnloaderTypeOK'
    BY <1>0, <1>2, <1>5 DEF RequestTypeOK, RequestPc, AdmissionTypeOK, AdminTypeOK, UnloaderTypeOK,
                            condVars, gateVars, adminVars, allVars
  <2>2. \A m \in Model : modelLock'[m] = modelLock[m] \/ modelLock[m] = None
    BY <1>2, <1>5 DEF AdmissionTypeOK
  <2>3. RequestInvOf(r)'
    BY <1>0, <1>5 DEF RequestInvOf, RequestTypeOK, AdmissionTypeOK, KnowsManager
  <2>4. RequestInv'
    BY <1>2, <1>5, <2>2, <2>3, OthersKeepInv DEF RequestTypeOK
  <2>5. AdminInv'
    BY <1>2, <2>2, AdminsKeepInv, NoneIsNothing DEF adminVars
  <2> QED BY <1>1, <2>1, <2>4, <2>5 DEF PoolRest
<1> QED BY <1>3, <1>4, <1>5 DEF EnterModel

LEMMA WaitForUnloadStep ==
  ASSUME PoolInv, NEW r \in Request, WaitForUnload(r)
  PROVE  PoolRest'
<1> USE DEF PoolInv, TypeOK
<1>1. PoolTypeOK' /\ PoolConsistent'
  BY UnchangedPool DEF WaitForUnload
<1>2. AdmissionTypeOK' /\ RequestTypeOK' /\ AdminTypeOK' /\ UnloaderTypeOK'
  BY DEF WaitForUnload, AdmissionTypeOK, RequestTypeOK, RequestPc,
         AdminTypeOK, UnloaderTypeOK, gateVars, adminVars, allVars
<1>3. pc[r] \in HoldsLock /\ pc'[r] = "waitUnload"
  BY DEF WaitForUnload, AtUnloadCheck, RequestTypeOK, HoldsLock, RequestPc
<1>4. RequestInvOf(r) /\ RequestInvOf(r)'
  BY <1>3 DEF WaitForUnload, RequestInv, RequestInvOf, KnowsManager, HoldsLock
<1>5. RequestInv' /\ AdminInv'
  BY <1>4, OthersKeepInv, AdminsKeepInv DEF WaitForUnload, RequestTypeOK, adminVars, poolVars
<1> QED BY <1>1, <1>2, <1>5 DEF PoolRest

\* A request at its capacity check holds the lock of a model that has no manager.
LEMMA AtCheck ==
  ASSUME PoolInv, NEW r \in Request, AtCapacityCheck(r)
  PROVE  /\ pc[r] \in {"capacity", "waitUnload", "waitTurn", "evicting"}
         /\ target[r] \in Model
         /\ modelLock[target[r]] = r
         /\ managers[target[r]] = None
<1>1. pc[r] \in {"capacity", "waitUnload", "waitTurn", "evicting"}
  BY DEF AtCapacityCheck, AtUnloadCheck
<1>2. pc[r] \in HoldsLock /\ pc[r] # "idle"
  BY <1>1 DEF HoldsLock, RequestPc
<1>3. RequestInvOf(r)
  BY DEF PoolInv, RequestInv
<1> QED BY <1>1, <1>2, <1>3 DEF RequestInvOf, AtCapacityCheck, AtUnloadCheck

LEMMA EvictLruStep ==
  ASSUME PoolInv, NEW r \in Request, NEW x \in Model, EvictLru(r, x)
  PROVE  PoolRest'
<1> USE DEF PoolInv, TypeOK
<1>1. PoolTypeOK' /\ PoolConsistent'
  BY UnchangedPool DEF EvictLru
<1>2. managers[x] \in Instance
  BY DEF EvictLru, LeastRecentlyUsed, IdleModels, Loaded, PoolTypeOK
<1>3. /\ pc' = [pc EXCEPT ![r] = "evicting"] /\ handle' = [handle EXCEPT ![r] = managers[x]]
      /\ forceExtra' = [forceExtra EXCEPT ![r] = FALSE]
      /\ condHolder' = r /\ woken' = woken \ {r}
      /\ UNCHANGED <<managers, modelLock, capacityWaiters, notifyPending, gateVars, target,
                     attempt, adminVars, allVars>>
  BY DEF EvictLru, Goto, poolVars
<1>4. RequestTypeOK'
  BY <1>2, <1>3 DEF RequestTypeOK, RequestPc
<1>5. AdmissionTypeOK' /\ AdminTypeOK' /\ UnloaderTypeOK'
  BY <1>3 DEF AdmissionTypeOK, AdminTypeOK, UnloaderTypeOK, gateVars, adminVars, allVars
<1>6. AtCapacityCheck(r)
  BY DEF EvictLru
<1>7. RequestInvOf(r)'
  BY <1>2, <1>3, <1>6, AtCheck DEF RequestInvOf, RequestTypeOK
<1>8. RequestInv' /\ AdminInv'
  BY <1>3, <1>7, OthersKeepInv, AdminsKeepInv DEF RequestTypeOK, adminVars
<1> QED BY <1>1, <1>4, <1>5, <1>8 DEF PoolRest

LEMMA CreateManagerStep ==
  ASSUME PoolInv, NEW r \in Request, NEW i \in Instance, CreateManager(r, i)
  PROVE  PoolRest'
<1> USE DEF PoolInv, TypeOK
<1>1. AtCapacityCheck(r)
  BY DEF CreateManager
<1>2. /\ PoolTypeOK' /\ PoolConsistent'
      /\ \A n \in Model \ {target[r]} : managers'[n] = managers[n]
  BY <1>1, AtCheck, CreateKeepsPool
<1>3. /\ pc' = [pc EXCEPT ![r] = "waitReady"] /\ handle' = [handle EXCEPT ![r] = i]
      /\ forceExtra' = [forceExtra EXCEPT ![r] = FALSE]
      /\ UNCHANGED <<modelLock, gateVars, target, attempt, adminVars, allVars>>
      /\ LeaveCondition(r)
  BY DEF CreateManager, Goto
<1>4. RequestTypeOK'
  BY <1>3 DEF RequestTypeOK, RequestPc
<1>5. AdmissionTypeOK' /\ AdminTypeOK' /\ UnloaderTypeOK'
  BY <1>3, LeaveConditionType DEF AdmissionTypeOK, AdminTypeOK, UnloaderTypeOK, gateVars,
                                  adminVars, allVars
<1>6. RequestInvOf(r)'
  BY <1>1, <1>3, AtCheck DEF RequestInvOf, RequestTypeOK
<1>7. RequestInv' /\ AdminInv'
  BY <1>1, <1>2, <1>3, <1>6, AtCheck, OthersKeepInv, AdminsKeepInv DEF RequestTypeOK, adminVars
<1> QED BY <1>2, <1>4, <1>5, <1>7 DEF PoolRest

LEMMA QueueUpStep ==
  ASSUME PoolInv, NEW r \in Request, QueueUp(r)
  PROVE  PoolRest'
<1> USE DEF PoolInv, TypeOK
<1>1. PoolTypeOK' /\ PoolConsistent'
  BY UnchangedPool DEF QueueUp
<1>2. /\ pc' = [pc EXCEPT ![r] = "waitTurn"] /\ handle' = [handle EXCEPT ![r] = None]
      /\ forceExtra' = [forceExtra EXCEPT
                          ![r] = IF MyTurn(r) THEN OwesEviction(r) ELSE forceExtra[r]]
      /\ capacityWaiters' = IF Queued(r) THEN capacityWaiters ELSE Append(capacityWaiters, r)
      /\ condHolder' = None /\ woken' = woken \ {r}
      /\ UNCHANGED <<managers, modelLock, notifyPending, gateVars, target, attempt,
                     adminVars, allVars>>
  BY DEF QueueUp, Goto, poolVars
<1>3. capacityWaiters' \in Seq(Request)
  BY <1>2 DEF AdmissionTypeOK
<1>4. OwesEviction(r) \in BOOLEAN
  BY DEF OwesEviction
<1>5. forceExtra' \in [Request -> BOOLEAN]
  <2>1. (IF MyTurn(r) THEN OwesEviction(r) ELSE forceExtra[r]) \in BOOLEAN
    BY <1>4 DEF RequestTypeOK
  <2> QED BY <1>2, <2>1, Zenon DEF RequestTypeOK
<1>6. RequestTypeOK'
  BY <1>2, <1>5 DEF RequestTypeOK, RequestPc
<1>7. AdmissionTypeOK' /\ AdminTypeOK' /\ UnloaderTypeOK'
  BY <1>2, <1>3 DEF AdmissionTypeOK, AdminTypeOK, UnloaderTypeOK, gateVars, adminVars, allVars
<1>8. AtCapacityCheck(r)
  BY DEF QueueUp
<1>9. RequestInvOf(r)'
  BY <1>2, <1>8, AtCheck DEF RequestInvOf, RequestTypeOK, KnowsManager
<1>10. RequestInv' /\ AdminInv'
  BY <1>2, <1>9, OthersKeepInv, AdminsKeepInv DEF RequestTypeOK, adminVars
<1> QED BY <1>1, <1>6, <1>7, <1>10 DEF PoolRest

\* The exceptions of the queue: the lock of the model and the ticket are given up.
LEMMA FailStep ==
  ASSUME PoolInv, NEW r \in Request, pc[r] \in HoldsLock, Fail(r)
  PROVE  PoolRest'
<1> USE DEF PoolInv, TypeOK
<1>1. PoolTypeOK' /\ PoolConsistent'
  BY UnchangedPool DEF Fail
<1>2. target[r] \in Model /\ modelLock[target[r]] = r
  BY DEF RequestInv, RequestInvOf, HoldsLock
<1>3. /\ Over(r) /\ LeaveCondition(r)
      /\ modelLock' = [modelLock EXCEPT ![target[r]] = None]
      /\ UNCHANGED <<managers, gateVars, adminVars, allVars>>
  BY DEF Fail, Unlock, poolVars
<1>4. AdmissionTypeOK' /\ AdminTypeOK' /\ UnloaderTypeOK'
  BY <1>3, LeaveConditionType DEF AdmissionTypeOK, AdminTypeOK, UnloaderTypeOK, gateVars,
                                  adminVars, allVars
<1>5. \A m \in Model : modelLock'[m] = modelLock[m] \/ modelLock[m] = r
  BY <1>2, <1>3 DEF AdmissionTypeOK
<1>6. RequestTypeOK' /\ RequestInv'
  BY <1>3, <1>5, OverType, OthersKeepInv
<1>7. AdminInv'
  BY <1>3, <1>5, AdminsKeepInv, NoneIsNothing DEF adminVars
<1> QED BY <1>1, <1>4, <1>6, <1>7 DEF PoolRest

LEMMA RefuseStep ==
  ASSUME PoolInv, NEW r \in Request, Refuse(r) \/ QueueTimeout(r)
  PROVE  PoolRest'
<1>1. pc[r] \in {"capacity", "waitUnload", "waitTurn", "evicting"}
  BY DEF Refuse, QueueTimeout, AtUnloadCheck, AtCapacityCheck
<1>2. pc[r] \in HoldsLock
  BY <1>1 DEF HoldsLock, RequestPc
<1> QED BY <1>2, FailStep DEF Refuse, QueueTimeout

LEMMA ObtainLoadedStep ==
  ASSUME PoolInv, NEW r \in Request, ObtainLoaded(r)
  PROVE  PoolRest'
<1> USE DEF PoolInv, TypeOK
<1>1. pc[r] = "waitReady" /\ pc[r] \in HoldsLock
  BY DEF ObtainLoaded, HoldsLock, RequestPc
<1>2. handle[r] \in Instance /\ target[r] \in Model /\ modelLock[target[r]] = r
  BY <1>1 DEF RequestInv, RequestInvOf, KnowsManager
<1>3. /\ Obtain(r, handle[r])
      /\ modelLock' = [modelLock EXCEPT ![target[r]] = None]
      /\ UNCHANGED <<managers, condVars, gateVars, adminVars, allVars>>
  BY DEF ObtainLoaded, Unlock
<1>4. PoolTypeOK' /\ PoolConsistent'
  BY <1>2, TouchKeepsPool DEF ObtainLoaded
<1>5. AdmissionTypeOK' /\ AdminTypeOK' /\ UnloaderTypeOK'
  BY <1>3 DEF AdmissionTypeOK, AdminTypeOK, UnloaderTypeOK, condVars, gateVars, adminVars, allVars
<1>6. \A m \in Model : modelLock'[m] = modelLock[m] \/ modelLock[m] = r
  BY <1>2, <1>3 DEF AdmissionTypeOK
<1>7. RequestTypeOK' /\ RequestInv'
  BY <1>2, <1>3, <1>6, ObtainType, OthersKeepInv
<1>8. AdminInv'
  BY <1>3, <1>6, AdminsKeepInv, NoneIsNothing DEF adminVars
<1> QED BY <1>4, <1>5, <1>7, <1>8 DEF PoolRest

\* A waiter that learns of a failure, or stops waiting, still holds its lock.
LEMMA LoadFailsStep ==
  ASSUME PoolInv, NEW r \in Request, LoadRefused(r) \/ LoadTimeout(r)
  PROVE  PoolRest'
<1> USE DEF PoolInv, TypeOK
<1>1. PoolTypeOK' /\ PoolConsistent'
  BY UnchangedPool DEF LoadRefused, LoadTimeout
<1>2. /\ pc[r] = "waitReady"
      /\ \E where \in {"forget", "forgetCapacity", "timeoutUnload"} : pc' = [pc EXCEPT ![r] = where]
      /\ handle' = [handle EXCEPT ![r] = handle[r]] \/ UNCHANGED handle
      /\ notifyPending' \in BOOLEAN
      /\ UNCHANGED <<managers, modelLock, condHolder, capacityWaiters, woken, gateVars, target,
                     attempt, forceExtra, adminVars, allVars>>
  BY DEF LoadRefused, LoadTimeout, StopManager, Goto, AdmissionTypeOK, poolVars, condVars
<1>3. PICK where \in {"forget", "forgetCapacity", "timeoutUnload"} : pc' = [pc EXCEPT ![r] = where]
  BY <1>2
<1>4. UNCHANGED handle
  BY <1>2 DEF RequestTypeOK
<1>5. RequestTypeOK'
  BY <1>2, <1>3, <1>4 DEF RequestTypeOK, RequestPc
<1>6. AdmissionTypeOK' /\ AdminTypeOK' /\ UnloaderTypeOK'
  BY <1>2 DEF AdmissionTypeOK, AdminTypeOK, UnloaderTypeOK, gateVars, adminVars, allVars
<1>7. pc[r] \in HoldsLock /\ pc[r] \in KnowsManager /\ pc[r] # "idle"
  BY <1>2 DEF HoldsLock, KnowsManager, RequestPc
<1>8. RequestInvOf(r)'
  <2>1. RequestInvOf(r)
    BY DEF RequestInv
  <2> QED BY <1>2, <1>3, <1>4, <1>7, <2>1 DEF RequestInvOf, RequestTypeOK
<1>9. RequestInv' /\ AdminInv'
  BY <1>2, <1>3, <1>4, <1>8, OthersKeepInv, AdminsKeepInv DEF RequestTypeOK, adminVars
<1> QED BY <1>1, <1>5, <1>6, <1>9 DEF PoolRest

LEMMA ForgetFailedManagerStep ==
  ASSUME PoolInv, NEW r \in Request, ForgetFailedManager(r)
  PROVE  PoolRest'
<1> USE DEF PoolInv, TypeOK
<1>1. pc[r] \in HoldsLock /\ pc[r] \in KnowsManager /\ pc[r] # "idle"
  BY DEF ForgetFailedManager, HoldsLock, KnowsManager, RequestPc
<1>2. handle[r] \in Instance /\ target[r] \in Model /\ modelLock[target[r]] = r
  BY <1>1 DEF RequestInv, RequestInvOf
<1>3. /\ PoolTypeOK' /\ PoolConsistent'
      /\ \A n \in Model : managers'[n] \in {managers[n], None}
  BY <1>2, ReleaseKeepsPool DEF ForgetFailedManager
<1>4. /\ woken' = woken \cup Sleeping
      /\ UNCHANGED <<condHolder, capacityWaiters, notifyPending, gateVars, adminVars, allVars>>
  BY DEF ForgetFailedManager
<1>5. AdminTypeOK' /\ UnloaderTypeOK' /\ UNCHANGED <<adminPc, adminModel, adminOp>>
  BY <1>4 DEF AdminTypeOK, UnloaderTypeOK, adminVars, allVars
<1>6. CASE Over(r) /\ Unlock(target[r])
  <2>1. \A m \in Model : modelLock'[m] = modelLock[m] \/ modelLock[m] = r
    BY <1>2, <1>6 DEF Unlock, AdmissionTypeOK
  <2>2. RequestTypeOK' /\ RequestInv'
    BY <1>3, <1>6, <2>1, OverType, OthersKeepInv
  <2>3. AdmissionTypeOK'
    BY <1>4, <1>6 DEF Unlock, AdmissionTypeOK, Sleeping, gateVars
  <2>4. AdminInv'
    BY <1>5, <2>1, AdminsKeepInv, NoneIsNothing
  <2> QED BY <1>3, <1>5, <2>2, <2>3, <2>4 DEF PoolRest
<1>7. CASE /\ Goto(r, "capacity", None)
           /\ attempt' = [attempt EXCEPT ![r] = 1]
           /\ forceExtra' = [forceExtra EXCEPT ![r] = TRUE]
           /\ UNCHANGED <<target, modelLock>>
  <2>1. RequestTypeOK' /\ AdmissionTypeOK'
    BY <1>4, <1>7 DEF Goto, RequestTypeOK, RequestPc, AdmissionTypeOK, Sleeping, gateVars
  <2>2. RequestInvOf(r)'
    BY <1>2, <1>7 DEF Goto, RequestInvOf, RequestTypeOK, KnowsManager
  <2>3. RequestInv' /\ AdminInv'
    BY <1>3, <1>5, <1>7, <2>2, OthersKeepInv, AdminsKeepInv DEF Goto, RequestTypeOK
  <2> QED BY <1>3, <1>5, <2>1, <2>3 DEF PoolRest
<1> QED BY <1>6, <1>7 DEF ForgetFailedManager

LEMMA FinishRequestStep ==
  ASSUME PoolInv, NEW r \in Request, FinishRequest(r)
  PROVE  PoolRest'
<1> USE DEF PoolInv, TypeOK
<1>1. pc[r] = "serving" /\ target[r] \in Model
  BY DEF FinishRequest, RequestInv, RequestInvOf
<1>2. PoolTypeOK' /\ PoolConsistent'
  BY <1>1, TouchKeepsPool DEF FinishRequest
<1>3. /\ Over(r) /\ notifyPending' \in BOOLEAN
      /\ UNCHANGED <<managers, modelLock, condHolder, capacityWaiters, woken, gateVars,
                     adminVars, allVars>>
  BY DEF FinishRequest
<1>4. AdmissionTypeOK' /\ AdminTypeOK' /\ UnloaderTypeOK'
  BY <1>3 DEF AdmissionTypeOK, AdminTypeOK, UnloaderTypeOK, gateVars, adminVars, allVars
<1>5. RequestTypeOK' /\ RequestInv'
  BY <1>3, OverType, OthersKeepInv
<1>6. AdminInv'
  BY <1>3, AdminsKeepInv DEF adminVars
<1> QED BY <1>2, <1>4, <1>5, <1>6 DEF PoolRest

LEMMA ServerStepStep ==
  ASSUME PoolInv, NEW i \in Instance, ServerStep(i)
  PROVE  PoolRest'
<1> USE DEF PoolInv, TypeOK
<1>1. /\ othersUnchanged
      /\ notifyPending' \in BOOLEAN
  BY DEF ServerStep, SpawnServer, ServerReady, ServerLoadRaises, ServerLoadFailed,
         ServerExits, UnloadDone, CrashNoticed, IdleUnload, AdmissionTypeOK
<1>2. /\ PoolTypeOK' /\ PoolConsistent'
      /\ \A m \in Model : managers'[m] \in {managers[m], None}
  <2>1. CASE UnloadDone(i) \/ CrashNoticed(i)
    <3>1. modelOf[i] \in Model \cup {None}
      BY DEF PoolTypeOK
    <3> QED BY <2>1, <3>1, ReleaseKeepsPool DEF UnloadDone, CrashNoticed
  <2>2. CASE ServerReady(i)
    <3>1. InPool(i) => modelOf[i] \in Model
      BY NoneIsNothing, PoolConsistentParts DEF InPool
    <3>2. \/ modelOf[i] \in Model /\ Touch(modelOf[i])
          \/ UNCHANGED older
      BY <2>2, <3>1 DEF ServerReady
    <3>3. UNCHANGED <<managers, allocatedPorts, portPool, modelOf, portOf>>
      BY <2>2 DEF ServerReady
    <3>4. PoolTypeOK' /\ PoolConsistent'
      <4>1. CASE UNCHANGED older
        BY <3>3, <4>1, UnchangedPool DEF poolVars
      <4>2. CASE modelOf[i] \in Model /\ Touch(modelOf[i])
        BY <3>3, <4>2, TouchKeepsPool
      <4> QED BY <3>2, <4>1, <4>2
    <3> QED BY <3>3, <3>4
  <2>3. CASE UNCHANGED poolVars
    BY <2>3, UnchangedPool DEF poolVars
  <2> QED BY <2>1, <2>2, <2>3 DEF ServerStep, SpawnServer, ServerLoadRaises, ServerLoadFailed,
                                  ServerExits, IdleUnload
<1>3. AdmissionTypeOK' /\ RequestTypeOK' /\ AdminTypeOK' /\ UnloaderTypeOK'
  BY <1>1 DEF othersUnchanged, AdmissionTypeOK, RequestTypeOK, AdminTypeOK, UnloaderTypeOK,
              gateVars, reqVars, adminVars, allVars
<1>4. RequestInv' /\ AdminInv'
  BY <1>1, <1>2, RequestsKeepInv, AdminsKeepInv DEF othersUnchanged, reqVars, adminVars
<1> QED BY <1>2, <1>3, <1>4 DEF PoolRest

LEMMA NotifyWaitersStep ==
  ASSUME PoolInv, NotifyWaiters
  PROVE  PoolRest'
<1> USE DEF PoolInv, TypeOK
<1>1. PoolTypeOK' /\ PoolConsistent'
  BY UnchangedPool DEF NotifyWaiters
<1>2. AdmissionTypeOK' /\ RequestTypeOK' /\ AdminTypeOK' /\ UnloaderTypeOK'
  BY DEF NotifyWaiters, Sleeping, AdmissionTypeOK, RequestTypeOK, AdminTypeOK, UnloaderTypeOK,
         gateVars, reqVars, adminVars, allVars
<1>3. RequestInv' /\ AdminInv'
  BY RequestsKeepInv, AdminsKeepInv DEF NotifyWaiters, reqVars, adminVars, poolVars
<1> QED BY <1>1, <1>2, <1>3 DEF PoolRest

\* An admin task that moves leaves the locks of the others alone.
LEMMA OtherAdminsKeepInv ==
  ASSUME AdminInv, NEW a \in Admin,
         \A b \in Admin \ {a} :
           adminPc'[b] = adminPc[b] /\ adminModel'[b] = adminModel[b] /\ adminOp'[b] = adminOp[b],
         \A m \in Model : modelLock'[m] = modelLock[m] \/ modelLock[m] \in {None, a},
         AdminInvOf(a)'
  PROVE  AdminInv'
<1> SUFFICES ASSUME NEW b \in Admin \ {a} PROVE AdminInvOf(b)'
  BY DEF AdminInv
<1>1. AdminInvOf(b) /\ b # None
  BY NoneIsNothing DEF AdminInv
<1> QED BY <1>1 DEF AdminInvOf

\* The return of an admin route.
LEMMA AdminReturnType ==
  ASSUME AdminTypeOK, AdmissionTypeOK, AdminInv, NEW a \in Admin, NEW done \in BOOLEAN,
         adminModel[a] \in Model, modelLock[adminModel[a]] = a, AdminReturn(a, done)
  PROVE  /\ AdminTypeOK' /\ AdminInv'
         /\ modelLock' \in [Model -> Request \cup Admin \cup {None}] /\ enabled' \subseteq Model
         /\ \A m \in Model : modelLock'[m] = modelLock[m] \/ modelLock[m] = a
<1>1. /\ adminPc' = [adminPc EXCEPT ![a] = "idle"]
      /\ adminModel' = [adminModel EXCEPT ![a] = None]
      /\ adminOp' = [adminOp EXCEPT ![a] = None]
      /\ adminHandle' = [adminHandle EXCEPT ![a] = None]
      /\ modelLock' = [modelLock EXCEPT ![adminModel[a]] = None]
      /\ enabled' \subseteq enabled
  BY DEF AdminReturn, Unlock
<1>2. AdminTypeOK'
  BY <1>1 DEF AdminTypeOK
<1>3. /\ modelLock' \in [Model -> Request \cup Admin \cup {None}] /\ enabled' \subseteq Model
      /\ \A m \in Model : modelLock'[m] = modelLock[m] \/ modelLock[m] = a
  BY <1>1 DEF AdmissionTypeOK
<1>4. AdminInvOf(a)'
  BY <1>1 DEF AdminInvOf, AdminTypeOK
<1>5. AdminInv'
  BY <1>1, <1>3, <1>4, OtherAdminsKeepInv DEF AdminTypeOK
<1> QED BY <1>2, <1>3, <1>5

\* The unload an admin route asks for, or its return.
LEMMA AdminProceedType ==
  ASSUME AdminTypeOK, AdmissionTypeOK, AdminInv, NEW a \in Admin, NEW i \in Instance,
         NEW closed \in SUBSET Model, UNCHANGED bootstrapBlocked,
         adminModel[a] \in Model, modelLock[adminModel[a]] = a, adminPc[a] # "idle",
         AdminProceed(a, i, closed)
  PROVE  /\ AdminTypeOK' /\ AdminInv' /\ AdmissionTypeOK'
         /\ \A m \in Model : modelLock'[m] = modelLock[m] \/ modelLock[m] = a
<1>1. CASE Unloadable(i)
  <2>1. /\ adminPc' = [adminPc EXCEPT ![a] = "unloading"]
        /\ adminHandle' = [adminHandle EXCEPT ![a] = i]
        /\ draining' = closed
        /\ notifyPending' \in BOOLEAN
        /\ UNCHANGED <<adminModel, adminOp, modelLock, enabled, condHolder, capacityWaiters, woken>>
    BY <1>1 DEF AdminProceed, StopManager, AdmissionTypeOK
  <2>2. AdminTypeOK' /\ AdmissionTypeOK'
    BY <2>1 DEF AdminTypeOK, AdmissionTypeOK
  <2>3. AdminInvOf(a)'
    BY <2>1 DEF AdminInv, AdminInvOf, AdminTypeOK
  <2>4. AdminInv'
    BY <2>1, <2>3, OtherAdminsKeepInv DEF AdminTypeOK
  <2> QED BY <2>1, <2>2, <2>4
<1>2. CASE ~Unloadable(i)
  <2>1. /\ AdminReturn(a, TRUE)
        /\ draining' = closed \ {adminModel[a]}
        /\ UNCHANGED condVars
    BY <1>2 DEF AdminProceed
  <2> QED BY <2>1, AdminReturnType DEF AdmissionTypeOK, condVars
<1> QED BY <1>1, <1>2

\* What an admin step that is not AdminStart or AdminLock has to show.
LEMMA AdminRest ==
  ASSUME PoolInv, NEW a \in Admin, AdminTypeOK', AdminInv', AdmissionTypeOK',
         \A m \in Model : modelLock'[m] = modelLock[m] \/ modelLock[m] \in {None, a},
         UNCHANGED <<poolVars, reqVars, allVars>>
  PROVE  PoolRest'
<1> USE DEF PoolInv, TypeOK
<1>1. PoolTypeOK' /\ PoolConsistent'
  BY UnchangedPool
<1>2. RequestTypeOK' /\ UnloaderTypeOK'
  BY DEF RequestTypeOK, UnloaderTypeOK, reqVars, allVars
<1>3. RequestInv'
  BY RequestsKeepInv, NoneIsNothing DEF reqVars, poolVars
<1> QED BY <1>1, <1>2, <1>3 DEF PoolRest

LEMMA AdminStartStep ==
  ASSUME PoolInv, NEW a \in Admin, NEW m \in Model, NEW op \in AdminOp, AdminStart(a, m, op)
  PROVE  PoolRest'
<1> USE DEF PoolInv, TypeOK
<1>1. AdminTypeOK' /\ AdmissionTypeOK'
  BY DEF AdminStart, AdminTypeOK, AdmissionTypeOK, condVars, gateVars
<1>2. AdminInvOf(a)'
  BY DEF AdminStart, AdminInvOf, AdminTypeOK
<1>3. AdminInv'
  BY <1>2, OtherAdminsKeepInv DEF AdminStart, AdminTypeOK
<1> QED BY <1>1, <1>3, AdminRest DEF AdminStart

LEMMA AdminStepStep ==
  ASSUME PoolInv, NEW a \in Admin, AdminStep(a)
  PROVE  PoolRest'
<1> USE DEF PoolInv, TypeOK
<1>1. adminPc[a] # "idle" /\ adminModel[a] \in Model
  BY DEF AdminStep, AdminLock, AdminQuarantine, AdminDrained, AdminEnd, AdminInv, AdminInvOf
<1>2. CASE AdminLock(a)
  <2>1. AdminTypeOK' /\ AdmissionTypeOK'
    BY <1>1, <1>2 DEF AdminLock, AdminTypeOK, AdmissionTypeOK, condVars, gateVars
  <2>2. \A m \in Model : modelLock'[m] = modelLock[m] \/ modelLock[m] = None
    BY <1>2 DEF AdminLock, AdmissionTypeOK
  <2>3. AdminInvOf(a)'
    BY <1>1, <1>2 DEF AdminLock, AdminInv, AdminInvOf, AdminTypeOK, AdmissionTypeOK
  <2>4. AdminInv'
    BY <1>2, <2>2, <2>3, OtherAdminsKeepInv DEF AdminLock, AdminTypeOK
  <2> QED BY <1>2, <2>1, <2>2, <2>4, AdminRest DEF AdminLock
<1>3. CASE AdminQuarantine(a)
  <2>1. /\ modelLock[adminModel[a]] = a /\ managers[adminModel[a]] \in Instance \cup {None}
        /\ draining \cup {adminModel[a]} \in SUBSET Model
        /\ UNCHANGED <<poolVars, bootstrapBlocked, reqVars, allVars>>
    BY <1>1, <1>3 DEF AdminQuarantine, AdminInv, AdminInvOf, PoolTypeOK, AdmissionTypeOK
  <2>2. CASE AdminReturn(a, TRUE) /\ UNCHANGED <<condVars, draining>>
    <3>1. AdmissionTypeOK'
      BY <1>1, <2>1, <2>2, AdminReturnType DEF AdmissionTypeOK, condVars
    <3> QED BY <1>1, <2>1, <2>2, <3>1, AdminReturnType, AdminRest
  <2>3. CASE /\ draining' = draining \cup {adminModel[a]}
             /\ adminPc' = [adminPc EXCEPT ![a] = "drain"]
             /\ UNCHANGED <<condVars, adminModel, adminOp, adminHandle, modelLock, enabled>>
    <3>1. AdminTypeOK' /\ AdmissionTypeOK'
      BY <2>1, <2>3 DEF AdminTypeOK, AdmissionTypeOK, condVars
    <3>2. AdminInvOf(a)'
      BY <1>1, <2>1, <2>3 DEF AdminInv, AdminInvOf, AdminTypeOK
    <3>3. AdminInv'
      BY <2>3, <3>2, OtherAdminsKeepInv DEF AdminTypeOK
    <3> QED BY <2>1, <2>3, <3>1, <3>3, AdminRest
  <2>4. CASE /\ managers[adminModel[a]] # None
             /\ AdminProceed(a, managers[adminModel[a]], draining \cup {adminModel[a]})
    BY <1>1, <2>1, <2>4, AdminProceedType, AdminRest
  <2> QED BY <1>3, <2>2, <2>3, <2>4 DEF AdminQuarantine
<1>4. CASE AdminDrained(a)
  <2>1. /\ modelLock[adminModel[a]] = a /\ managers[adminModel[a]] \in Instance
        /\ UNCHANGED <<poolVars, bootstrapBlocked, reqVars, allVars>>
        /\ AdminProceed(a, managers[adminModel[a]], draining)
        /\ draining \in SUBSET Model
    BY <1>1, <1>4 DEF AdminDrained, AdminInv, AdminInvOf, PoolTypeOK, AdmissionTypeOK
  <2> QED BY <1>1, <2>1, AdminProceedType, AdminRest
<1>5. CASE AdminEnd(a)
  <2>1. /\ modelLock[adminModel[a]] = a
        /\ \E done \in BOOLEAN : AdminReturn(a, done)
        /\ draining' = draining \ {adminModel[a]}
        /\ UNCHANGED <<poolVars, condVars, bootstrapBlocked, reqVars, allVars>>
    BY <1>1, <1>5 DEF AdminEnd, AdminInv, AdminInvOf
  <2>2. /\ AdminTypeOK' /\ AdminInv'
        /\ modelLock' \in [Model -> Request \cup Admin \cup {None}] /\ enabled' \subseteq Model
        /\ \A m \in Model : modelLock'[m] = modelLock[m] \/ modelLock[m] = a
    BY <1>1, <2>1, AdminReturnType
  <2>3. AdmissionTypeOK'
    BY <2>1, <2>2 DEF AdmissionTypeOK, condVars
  <2> QED BY <2>1, <2>2, <2>3, AdminRest
<1> QED BY <1>2, <1>3, <1>4, <1>5 DEF AdminStep

\* The gates: PATCH enabled=true, and the bootstrap transitions.
LEMMA GateStep ==
  ASSUME PoolInv, NEW m \in Model, EnableModel(m) \/ BlockBootstrap(m) \/ UnblockBootstrap(m)
  PROVE  PoolRest'
<1> USE DEF PoolInv, TypeOK
<1>1. /\ UNCHANGED <<poolVars, modelLock, condHolder, capacityWaiters, woken, draining, reqVars,
                     adminVars, allVars>>
      /\ notifyPending' \in BOOLEAN /\ bootstrapBlocked' \subseteq Model /\ enabled' \subseteq Model
  BY DEF EnableModel, BlockBootstrap, UnblockBootstrap, AdmissionTypeOK, condVars
<1>2. PoolTypeOK' /\ PoolConsistent'
  BY <1>1, UnchangedPool
<1>3. AdmissionTypeOK' /\ RequestTypeOK' /\ AdminTypeOK' /\ UnloaderTypeOK'
  BY <1>1 DEF AdmissionTypeOK, RequestTypeOK, AdminTypeOK, UnloaderTypeOK, reqVars, adminVars,
              allVars
<1>4. RequestInv' /\ AdminInv'
  BY <1>1, RequestsKeepInv, AdminsKeepInv DEF reqVars, adminVars, poolVars
<1> QED BY <1>2, <1>3, <1>4 DEF PoolRest

\* unload_all_models, one turn of its loop.
LEMMA UnloadNextType ==
  ASSUME PoolInv, NEW u \in Unloader, NEW force \in BOOLEAN, NEW mine \in SUBSET Model,
         NEW models \in SUBSET Model, NEW closed \in SUBSET Model,
         UnloadNext(u, force, mine, models, closed), UNCHANGED <<bootstrapBlocked, enabled, modelLock>>
  PROVE  UnloaderTypeOK' /\ AdmissionTypeOK'
<1> USE DEF PoolInv, TypeOK
<1> DEFINE todo == {m \in models \cap Loaded : Unloadable(managers[m])}
<1>1. CASE todo = {}
  <2>1. /\ draining' = closed \ mine
        /\ unloaderPc' = [unloaderPc EXCEPT ![u] = "idle"]
        /\ unloaderForce' = [unloaderForce EXCEPT ![u] = FALSE]
        /\ quarantined' = [quarantined EXCEPT ![u] = {}]
        /\ remaining' = [remaining EXCEPT ![u] = {}]
        /\ unloaderHandle' = [unloaderHandle EXCEPT ![u] = None]
        /\ UNCHANGED condVars
    BY <1>1 DEF UnloadNext, UnloaderReturn
  <2>2. UnloaderTypeOK'
    BY <2>1 DEF UnloaderTypeOK
  <2>3. AdmissionTypeOK'
    BY <2>1 DEF AdmissionTypeOK, condVars
  <2> QED BY <2>2, <2>3
<1>2. CASE todo # {}
  <2>1. PICK m \in todo :
          /\ StopManager(managers[m])
          /\ draining' = closed
          /\ unloaderPc' = [unloaderPc EXCEPT ![u] = "unloading"]
          /\ unloaderForce' = [unloaderForce EXCEPT ![u] = force]
          /\ quarantined' = [quarantined EXCEPT ![u] = mine]
          /\ remaining' = [remaining EXCEPT ![u] = models \ {m}]
          /\ unloaderHandle' = [unloaderHandle EXCEPT ![u] = managers[m]]
    BY <1>2 DEF UnloadNext
  <2>2. managers[m] \in Instance
    BY <2>1 DEF Loaded, PoolTypeOK
  <2>3. AdmissionTypeOK'
    BY <2>1 DEF StopManager, AdmissionTypeOK
  <2>4. UnloaderTypeOK'
    BY <2>1, <2>2 DEF UnloaderTypeOK
  <2> QED BY <2>3, <2>4
<1> QED BY <1>1, <1>2

LEMMA UnloaderStep ==
  ASSUME PoolInv, NEW u \in Unloader,
         \/ \E force \in ForceAll : StartUnloadAll(u, force)
         \/ UnloadAll(u)
         \/ UnloadAllBusy(u)
  PROVE  PoolRest'
<1> USE DEF PoolInv, TypeOK
<1>1. UNCHANGED <<poolVars, modelLock, bootstrapBlocked, enabled, reqVars, adminVars>>
  BY DEF StartUnloadAll, UnloadAll, UnloadAllBusy
<1>2. PoolTypeOK' /\ PoolConsistent' /\ RequestTypeOK' /\ AdminTypeOK'
  BY <1>1, UnchangedPool DEF RequestTypeOK, AdminTypeOK, reqVars, adminVars
<1>3. RequestInv' /\ AdminInv'
  BY <1>1, RequestsKeepInv, AdminsKeepInv DEF reqVars, adminVars, poolVars
<1>4. /\ Loaded \in SUBSET Model /\ draining \in SUBSET Model
      /\ quarantined[u] \in SUBSET Model /\ remaining[u] \in SUBSET Model
      /\ unloaderForce[u] \in BOOLEAN
  BY DEF Loaded, AdmissionTypeOK, UnloaderTypeOK
<1>5. UnloaderTypeOK' /\ AdmissionTypeOK'
  <2>1. ASSUME NEW force \in ForceAll, StartUnloadAll(u, force)
        PROVE  UnloaderTypeOK' /\ AdmissionTypeOK'
    <3>1. force \in BOOLEAN /\ draining \cup Loaded \in SUBSET Model
      BY <1>4
    <3>2. CASE Busy(Loaded)
      <4>1. /\ unloaderPc' = [unloaderPc EXCEPT ![u] = "drain"]
            /\ unloaderForce' = [unloaderForce EXCEPT ![u] = force]
            /\ quarantined' = [quarantined EXCEPT ![u] = Loaded]
            /\ draining' = draining \cup Loaded
            /\ UNCHANGED <<condVars, remaining, unloaderHandle>>
        BY <2>1, <3>2 DEF StartUnloadAll
      <4>2. UnloaderTypeOK'
        BY <1>4, <3>1, <4>1 DEF UnloaderTypeOK
      <4>3. AdmissionTypeOK'
        BY <1>1, <3>1, <4>1 DEF AdmissionTypeOK, condVars
      <4> QED BY <4>2, <4>3
    <3>3. CASE ~Busy(Loaded)
      BY <1>1, <1>4, <2>1, <3>1, <3>3, UnloadNextType DEF StartUnloadAll
    <3> QED BY <3>2, <3>3
  <2>2. CASE UnloadAll(u)
    BY <1>1, <1>4, <2>2, UnloadNextType DEF UnloadAll
  <2>3. CASE UnloadAllBusy(u)
    BY <1>1, <1>4, <2>3 DEF UnloadAllBusy, UnloaderReturn, UnloaderTypeOK, AdmissionTypeOK, condVars
  <2> QED BY <2>1, <2>2, <2>3
<1> QED BY <1>2, <1>3, <1>5 DEF PoolRest

-----------------------------------------------------------------------------
(* The ServerManagers inside the pool                                      *)

LEMMA StopIsStep ==
  ASSUME NEW i \in Instance, StopManager(i)
  PROVE  SMNext
  BY DEF StopManager, SMNext, SMStep

\* A step of the pool is a step of one ServerManager, or leaves them all alone:
\* the callers never touch a manager but through its methods, one at a time.
LEMMA PoolStepIsServerStep ==
  ASSUME PoolInv, [Next]_vars
  PROVE  [SMNext]_smVars
<1> USE DEF PoolInv, TypeOK
<1>1. ASSUME NEW r \in Request, RequestStep(r)
      PROVE  [SMNext]_smVars
  <2>1. ASSUME NEW x \in Model, EvictLru(r, x)
        PROVE  SMNext
    <3>1. managers[x] \in Instance
      BY <2>1 DEF EvictLru, LeastRecentlyUsed, IdleModels, Loaded, PoolTypeOK
    <3> QED BY <2>1, <3>1 DEF EvictLru, SMNext, SMStep
  <2>2. ASSUME NEW i \in Instance, CreateManager(r, i)
        PROVE  SMNext
    BY <2>2 DEF CreateManager, SMNext, SMStep
  <2>3. CASE \/ EnterModel(r) \/ WaitForUnload(r) \/ QueueUp(r) \/ Refuse(r)
             \/ ObtainLoaded(r) \/ LoadRefused(r) \/ ForgetFailedManager(r)
    BY <2>3 DEF EnterModel, WaitForUnload, QueueUp, Refuse, Fail, ObtainLoaded, LoadRefused,
                ForgetFailedManager
  <2> QED BY <1>1, <2>1, <2>2, <2>3 DEF RequestStep
<1>2. ASSUME NEW r \in Request, LoadTimeout(r)
      PROVE  SMNext
  <2>1. handle[r] \in Instance
    BY <1>2 DEF LoadTimeout, RequestInv, RequestInvOf, KnowsManager
  <2> QED BY <1>2, <2>1, StopIsStep DEF LoadTimeout
<1>3. ASSUME NEW i \in Instance, ServerStep(i)
      PROVE  SMNext
  BY <1>3 DEF ServerStep, SpawnServer, ServerReady, ServerLoadRaises, ServerLoadFailed,
              ServerExits, UnloadDone, CrashNoticed, IdleUnload, SMNext, SMStep
<1>4. ASSUME NEW a \in Admin, AdminStep(a)
      PROVE  [SMNext]_smVars
  <2>1. AdminProceed(a, managers[adminModel[a]], draining \cup {adminModel[a]})
          /\ managers[adminModel[a]] \in Instance => [SMNext]_smVars
    BY StopIsStep DEF AdminProceed
  <2>2. AdminProceed(a, managers[adminModel[a]], draining)
          /\ managers[adminModel[a]] \in Instance => [SMNext]_smVars
    BY StopIsStep DEF AdminProceed
  <2>3. adminModel[a] \in Model
    BY <1>4 DEF AdminStep, AdminLock, AdminQuarantine, AdminDrained, AdminEnd, AdminInv, AdminInvOf
  <2>4. managers[adminModel[a]] \in Instance \cup {None}
    BY <2>3 DEF PoolTypeOK
  <2> QED BY <1>4, <2>1, <2>2, <2>4 DEF AdminStep, AdminLock, AdminQuarantine, AdminDrained, AdminEnd
<1>5. ASSUME NEW u \in Unloader,
             \/ \E force \in ForceAll : StartUnloadAll(u, force)
             \/ UnloadAll(u)
             \/ UnloadAllBusy(u)
      PROVE  [SMNext]_smVars
  <2>1. ASSUME NEW force, NEW mine, NEW models, NEW closed, UnloadNext(u, force, mine, models, closed)
        PROVE  [SMNext]_smVars
    <3> DEFINE todo == {m \in models \cap Loaded : Unloadable(managers[m])}
    <3>1. CASE todo = {}
      BY <2>1, <3>1 DEF UnloadNext
    <3>2. CASE todo # {}
      <4>1. PICK m \in todo : StopManager(managers[m])
        BY <2>1, <3>2 DEF UnloadNext
      <4>2. managers[m] \in Instance
        BY <4>1 DEF Loaded, PoolTypeOK
      <4> QED BY <4>1, <4>2, StopIsStep
    <3> QED BY <3>1, <3>2
  <2> QED BY <1>5, <2>1 DEF StartUnloadAll, UnloadAll, UnloadAllBusy
<1>6. CASE UNCHANGED smVars
  BY <1>6
<1> QED
  BY <1>1, <1>2, <1>3, <1>4, <1>5, <1>6
     DEF Next, vars, StartRequest, QueueTimeout, Fail, FinishRequest, NotifyWaiters, AdminStart,
         EnableModel, BlockBootstrap, UnblockBootstrap

-----------------------------------------------------------------------------
(* Theorems                                                                *)

LEMMA PoolInvInit == Init => PoolInv
<1> SUFFICES ASSUME Init PROVE PoolInv
  OBVIOUS
<1>1. SMTypeOK
  BY DEF Init, SMInit, SMTypeOK, ModelState, LoadStage, LoadError
<1>2. /\ portPool \in Seq(Port) /\ Len(portPool) = Ports
      /\ \A k \in 1..Ports : portPool[k] = k
  BY DEF Init, Port
<1>3. PoolTypeOK
  BY <1>2 DEF Init, PoolTypeOK
<1>4. AdmissionTypeOK /\ RequestTypeOK /\ AdminTypeOK /\ UnloaderTypeOK
  <2>0. capacityWaiters = <<>> /\ enabled = Model /\ condHolder = None
    BY DEF Init
  <2>1. AdmissionTypeOK
    <3>1. capacityWaiters \in Seq(Request)
      BY <2>0
    <3>2. modelLock \in [Model -> Request \cup Admin \cup {None}]
      BY DEF Init
    <3>3. woken \subseteq Request /\ notifyPending \in BOOLEAN /\ draining \subseteq Model
            /\ bootstrapBlocked \subseteq Model
      BY DEF Init
    <3> QED BY <2>0, <3>1, <3>2, <3>3 DEF AdmissionTypeOK
  <2>2. RequestTypeOK   BY DEF Init, RequestTypeOK, RequestPc
  <2>3. AdminTypeOK     BY DEF Init, AdminTypeOK
  <2>4. UnloaderTypeOK  BY DEF Init, UnloaderTypeOK
  <2> QED BY <2>1, <2>2, <2>3, <2>4
<1>5. RequestInv /\ AdminInv
  BY DEF Init, RequestInv, RequestInvOf, AdminInv, AdminInvOf, KnowsManager, HoldsLock
<1>6. PoolConsistent
  <2>1. Elements(portPool) = Port /\ Injective(portPool)
    BY <1>2 DEF Elements, Injective, Port
  <2>2. Loaded = {}
    BY DEF Init, Loaded
  <2> QED BY <2>1, <2>2, PoolConsistentParts DEF Init
<1> QED BY <1>1, <1>3, <1>4, <1>5, <1>6 DEF PoolInv, TypeOK

LEMMA PoolInvStep == PoolInv /\ [Next]_vars => PoolInv'
<1> SUFFICES ASSUME PoolInv, [Next]_vars PROVE PoolInv'
  OBVIOUS
<1>1. SMTypeOK'
  BY PoolStepIsServerStep, SMTypeStep DEF PoolInv, TypeOK
<1>2. PoolRest'
  <2>1. CASE UNCHANGED vars
    <3>1. PoolTypeOK' /\ PoolConsistent'
      BY <2>1, UnchangedPool DEF vars, PoolInv, TypeOK
    <3>2. AdmissionTypeOK' /\ RequestTypeOK' /\ AdminTypeOK' /\ UnloaderTypeOK'
      BY <2>1 DEF vars, condVars, gateVars, reqVars, adminVars, allVars, PoolInv, TypeOK,
                  AdmissionTypeOK, RequestTypeOK, AdminTypeOK, UnloaderTypeOK
    <3>3. RequestInv' /\ AdminInv'
      BY <2>1, RequestsKeepInv, AdminsKeepInv DEF vars, reqVars, adminVars, poolVars, PoolInv
    <3> QED BY <3>1, <3>2, <3>3 DEF PoolRest
  <2>2. ASSUME NEW r \in Request, RequestStep(r)
        PROVE  PoolRest'
    BY <2>2, EnterModelStep, WaitForUnloadStep, EvictLruStep, CreateManagerStep, QueueUpStep,
       RefuseStep, ObtainLoadedStep, LoadFailsStep, ForgetFailedManagerStep DEF RequestStep
  <2> QED
    BY <2>1, <2>2, StartRequestStep, RefuseStep, LoadFailsStep, FinishRequestStep, ServerStepStep,
       NotifyWaitersStep, AdminStartStep, AdminStepStep, GateStep, UnloaderStep DEF Next
<1> QED BY <1>1, <1>2 DEF PoolInv, PoolRest, TypeOK

LEMMA PoolInvariant == Spec => []PoolInv
  BY PoolInvInit, PoolInvStep, PTL DEF Spec

\* The types of every variable of the pool hold in every reachable state.
THEOREM TypeCorrect == Spec => []TypeOK
  BY PoolInvariant, PTL DEF PoolInv

\* For any number of ports, models, requests and admin tasks, in every order of
\* loads, evictions, crashes and unloads, no port is lost and none is handed out
\* twice (_release_manager, _wait_for_unload_locked).
THEOREM PortsAlwaysConsistent == Spec => []PoolConsistent
  BY PoolInvariant, PTL DEF PoolInv

\* The pool drives its ServerManagers by their own life cycle: whatever was
\* proved of ServerManager holds of each of them inside the pool.
THEOREM PoolImplementsServerManager == Spec => SMSafety
<1>1. Init => SMInit
  BY DEF Init
<1>2. PoolInv /\ [Next]_vars => [SMNext]_smVars
  BY PoolStepIsServerStep
<1> QED BY <1>1, <1>2, PoolInvariant, PTL DEF Spec, SMSafety

\* No llama-server of the pool runs behind an UNLOADED manager, and no READY
\* manager has forgotten its process.
THEOREM PoolProcessesOwned == Spec => []ProcessOwned
  BY PoolImplementsServerManager, ProcessAlwaysOwned, PTL
=============================================================================
