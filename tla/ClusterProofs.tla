---------------------------- MODULE ClusterProofs ----------------------------
(***************************************************************************)
(* The cluster, proved for every number of nodes, models, requests and     *)
(* operations, and for every number of faults of each kind.                *)
(***************************************************************************)
EXTENDS Cluster, TLAPS, FiniteSetTheorems

Register(n) == INSTANCE OperationRegister WITH register <- RegisterOf(n), served <- ServedBy(n)

-----------------------------------------------------------------------------
(* The agents: who holds the lock of a model, and why                      *)

\* A load that has begun holds the lock of its model until its outcome, an
\* unload until the server is gone; nothing else starts or stops a server.
\* A load that has not begun finds no server, and none comes before it begins.
TasksHold(n) ==
  \A o \in Op : ops[n][o] # None =>
    LET m == ops[n][o].model
    IN  /\ ops[n][o].at = "loading" => agentLock[n][m] = o /\ server[n][m] = "loading"
        /\ ops[n][o].at = "cancelling" => agentLock[n][m] = o /\ server[n][m] = "unloading"
        /\ ops[n][o].at \in {"validating", "waiting"} => server[n][m] = "none"

HoldersWork(n) ==
  \A m \in Model :
    /\ server[n][m] = "ready" => builtFrom[n][m] # None
    /\ agentLock[n][m] = "unload" => server[n][m] = "unloading"
    /\ agentLock[n][m] \in Op =>
         LET o == agentLock[n][m]
         IN  ops[n][o] # None /\ ops[n][o].model = m /\ ops[n][o].at \in {"loading", "cancelling"}
    /\ server[n][m] = "loading" => agentLock[n][m] \in Op
    /\ server[n][m] = "unloading" => agentLock[n][m] # None

OneTask(n) ==
  \A o, p \in Op :
    ops[n][o] # None /\ ops[n][p] # None /\ ops[n][o].model = ops[n][p].model
      /\ ops[n][o].at \in Active /\ ops[n][p].at \in Active => o = p

LocksOf(n) == TasksHold(n) /\ HoldersWork(n) /\ OneTask(n)

LockInv == \A n \in Node : LocksOf(n)

AgentInv == AgentTypeOK /\ LockInv

RegisterStep(n) == [Register(n)!Next]_<<RegisterOf(n), ServedBy(n)>>

\* What a step of node n leaves alone on another node.
Untouched(k) ==
  /\ ops'[k] = ops[k] /\ server'[k] = server[k]
  /\ builtFrom'[k] = builtFrom[k] /\ agentLock'[k] = agentLock[k]

LEMMA InitAgents == AgentInit => AgentInv
  BY AgentAssumption DEF AgentInit, AgentInv, AgentTypeOK, LockInv, LocksOf, TasksHold, HoldersWork, OneTask

LEMMA UntouchedStays ==
  ASSUME NEW k \in Node, LocksOf(k), Untouched(k)
  PROVE  LocksOf(k)' /\ RegisterStep(k)
  <1>1. LocksOf(k)'
    BY DEF LocksOf, TasksHold, HoldersWork, OneTask, Untouched
  <1>2. RegisterOf(k)' = RegisterOf(k) /\ ServedBy(k)' = ServedBy(k)
    BY DEF RegisterOf, ServedBy, Untouched
  <1> QED
    BY <1>1, <1>2 DEF RegisterStep

\* A step of one node is enough.
LEMMA OneNode ==
  ASSUME AgentInv, NEW n \in Node, AgentTypeOK', LocksOf(n)', RegisterStep(n),
         \A k \in Node \ {n} : Untouched(k)
  PROVE  AgentInv' /\ \A k \in Node : RegisterStep(k)
  <1>1. ASSUME NEW k \in Node PROVE LocksOf(k)' /\ RegisterStep(k)
    <2>1. CASE k = n
      BY <2>1
    <2>2. CASE k # n
      BY <2>2, UntouchedStays DEF AgentInv, LockInv
    <2> QED
      BY <2>1, <2>2
  <1> QED
    BY <1>1 DEF AgentInv, LockInv

\* The agents that do nothing keep their invariant and their register.
LEMMA QuietAgents ==
  ASSUME AgentInv, UNCHANGED <<ops, server, builtFrom, agentLock>>, unloads' \in [Node -> SUBSET Model]
  PROVE  AgentInv' /\ \A k \in Node : RegisterStep(k)
  <1>1. \A k \in Node : Untouched(k)
    BY DEF Untouched
  <1>2. AgentTypeOK'
    BY DEF AgentInv, AgentTypeOK
  <1>3. \A k \in Node : LocksOf(k)' /\ RegisterStep(k)
    BY <1>1, UntouchedStays DEF AgentInv, LockInv
  <1> QED
    BY <1>2, <1>3 DEF AgentInv, LockInv

LEMMA EntryOfOperation ==
  ASSUME NEW q \in Operation
  PROVE  /\ EntryOf(q) # None
         /\ EntryOf(q).model = q.model /\ EntryOf(q).id = q.id
         /\ EntryOf(q).state = "pending" <=> q.at \in Active
         /\ q.at \in Active => EntryOf(q) = [model |-> q.model, id |-> q.id, state |-> "pending"]
         /\ q.at = "ready" => EntryOf(q) = [model |-> q.model, id |-> q.id, state |-> "ready"]
         /\ q.at \in {"failed", "late"} => EntryOf(q) = [model |-> q.model, id |-> q.id, state |-> "failed"]
  <1>1. /\ q.model \in Model /\ q.id \in Identity /\ q.at \in Active \cup Terminal
    BY DEF Operation
  <1>2. EntryOf(q) \in [model : Model, id : Identity, state : {"pending", "ready", "failed"}]
    BY <1>1 DEF EntryOf
  <1>3. EntryOf(q) # None
    BY <1>2, AgentAssumption
  <1> QED
    BY <1>1, <1>3 DEF EntryOf, Active

LEMMA ModelOfOp ==
  ASSUME AgentTypeOK, NEW n \in Node, NEW o \in Op, ops[n][o] # None
  PROVE  ops[n][o] \in Operation /\ ops[n][o].model \in Model /\ ops[n][o].id \in Identity
  BY DEF AgentTypeOK, Operation

\* The operation o of node n goes from one phase to another; nothing else moves.
LEMMA MoveMoves ==
  ASSUME AgentTypeOK, NEW n \in Node, NEW o \in Op, NEW from, NEW to \in Active \cup Terminal,
         Move(n, o, from, to)
  PROVE  /\ ops[n][o] \in Operation /\ ops[n][o].at = from
         /\ ops' \in [Node -> [Op -> Operation \cup {None}]]
         /\ ops'[n][o] \in Operation /\ ops'[n][o] # None /\ ops'[n][o].model = ops[n][o].model
         /\ ops'[n][o].id = ops[n][o].id /\ ops'[n][o].at = to
         /\ \A p \in Op \ {o} : ops'[n][p] = ops[n][p]
         /\ \A k \in Node \ {n} : ops'[k] = ops[k]
  <1> DEFINE q == [ops[n][o] EXCEPT !.at = to]
  <1>1. ops[n][o] \in Operation /\ ops[n][o].at = from
    BY DEF Move, AgentTypeOK
  <1>2. /\ q \in Operation /\ q.model = ops[n][o].model /\ q.id = ops[n][o].id /\ q.at = to
    BY <1>1 DEF Operation
  <1>3. q # None
    BY <1>2, AgentAssumption
  <1>4. ops' = [ops EXCEPT ![n][o] = q]
    BY Zenon DEF Move
  <1> HIDE DEF q
  <1>5. ops \in [Node -> [Op -> Operation \cup {None}]]
    BY DEF AgentTypeOK
  <1>6. /\ ops' \in [Node -> [Op -> Operation \cup {None}]]
        /\ ops'[n][o] = q
        /\ \A p \in Op \ {o} : ops'[n][p] = ops[n][p]
        /\ \A k \in Node \ {n} : ops'[k] = ops[k]
    BY <1>2, <1>4, <1>5
  <1> QED
    BY <1>1, <1>2, <1>3, <1>6

\* What the register sees of a move: nothing, or the outcome.
LEMMA MoveSettles ==
  ASSUME AgentTypeOK, NEW n \in Node, NEW o \in Op, NEW from \in Active, NEW to \in Active \cup Terminal,
         Move(n, o, from, to),
         to = "ready" => ops[n][o].model \notin DOMAIN ServedBy(n),
         ServedBy(n)' = IF to = "ready" THEN Register(n)!ServedToo(ops[n][o].model, ops[n][o].id.digest)
                        ELSE ServedBy(n)
  PROVE  RegisterStep(n)
  <1> DEFINE q == ops[n][o]  p == ops'[n][o]
             Known(x) == IF x = None THEN None ELSE EntryOf(x)
  <1>1. /\ q \in Operation /\ q.at = from /\ p \in Operation /\ p.at = to
        /\ p.model = q.model /\ p.id = q.id
        /\ \A x \in Op \ {o} : ops'[n][x] = ops[n][x]
    BY MoveMoves
  <1>2. q # None /\ p # None
    BY <1>1, AgentAssumption
  <1>3. RegisterOf(n)' = [RegisterOf(n) EXCEPT ![o] = EntryOf(p)]
    <2>1. RegisterOf(n) = [x \in Op |-> Known(ops[n][x])] /\ RegisterOf(n)' = [x \in Op |-> Known(ops'[n][x])]
      BY DEF RegisterOf
    <2>2. Known(p) = EntryOf(p)
      BY <1>2
    <2> HIDE DEF Known
    <2>3. \A x \in Op : Known(ops'[n][x]) = IF x = o THEN EntryOf(p) ELSE Known(ops[n][x])
      BY <1>1, <2>2
    <2>4. [RegisterOf(n) EXCEPT ![o] = EntryOf(p)] = [x \in Op |-> IF x = o THEN EntryOf(p) ELSE Known(ops[n][x])]
      BY <2>1
    <2> QED
      BY <2>1, <2>3, <2>4
  <1>4. RegisterOf(n)[o] = EntryOf(q)
    BY <1>2 DEF RegisterOf
  <1>5. /\ RegisterOf(n)[o] # None /\ RegisterOf(n)[o].state = "pending"
        /\ RegisterOf(n)[o].model = q.model /\ RegisterOf(n)[o].id = q.id
        /\ RegisterOf(n)[o] = [model |-> q.model, id |-> q.id, state |-> "pending"]
    BY <1>1, <1>4, EntryOfOperation
  <1>6. CASE to \in Active
    <2>1. EntryOf(p) = [model |-> q.model, id |-> q.id, state |-> "pending"]
      BY <1>1, <1>6, EntryOfOperation
    <2>2. RegisterOf(n)' = [RegisterOf(n) EXCEPT ![o] = RegisterOf(n)[o]]
      BY <1>3, <1>5, <2>1
    <2>3. RegisterOf(n)' = RegisterOf(n)
      BY <2>2 DEF RegisterOf
    <2>4. to # "ready"
      BY <1>6 DEF Active
    <2> QED
      BY <2>3, <2>4 DEF RegisterStep
  <1>7. CASE to = "ready"
    <2>1. EntryOf(p) = [model |-> q.model, id |-> q.id, state |-> "ready"]
      BY <1>1, <1>7, EntryOfOperation
    <2>2. RegisterOf(n)' = Register(n)!Settled(o, "ready")
      BY <1>3, <1>5, <2>1 DEF Register!Settled
    <2>3. Register(n)!Finish(o)
      BY <1>5, <1>7, <2>2 DEF Register!Finish
    <2> QED
      BY <2>3 DEF RegisterStep, Register!Next
  <1>8. CASE to \in {"failed", "late"}
    <2>1. EntryOf(p) = [model |-> q.model, id |-> q.id, state |-> "failed"]
      BY <1>1, <1>8, EntryOfOperation
    <2>2. RegisterOf(n)' = Register(n)!Settled(o, "failed")
      BY <1>3, <1>5, <2>1 DEF Register!Settled
    <2>3. Register(n)!Finish(o)
      BY <1>5, <1>8, <2>2 DEF Register!Finish
    <2> QED
      BY <2>3 DEF RegisterStep, Register!Next
  <1> QED
    BY <1>6, <1>7, <1>8 DEF Terminal

LEMMA ServedUnchanged ==
  ASSUME NEW n \in Node,
         \A m \in Model : /\ server'[n][m] = "ready" <=> server[n][m] = "ready"
                          /\ server[n][m] = "ready" => builtFrom'[n][m] = builtFrom[n][m]
  PROVE  ServedBy(n)' = ServedBy(n)
  <1>1. \A l \in Model : server'[n][l] = "ready" <=> server[n][l] = "ready"
    OBVIOUS
  <1>2. {l \in Model : server'[n][l] = "ready"} = {l \in Model : server[n][l] = "ready"}
    BY <1>1
  <1> QED
    BY <1>2 DEF ServedBy

LEMMA ServedDomain ==
  \A n : DOMAIN ServedBy(n) = {l \in Model : server[n][l] = "ready"}
  BY DEF ServedBy

\* A server that was not there is served too, from the definition of its load.
LEMMA ServedAdded ==
  ASSUME NEW n \in Node, NEW m \in Model, NEW id,
         server'[n][m] = "ready", builtFrom'[n][m] = id,
         \A l \in Model \ {m} : server'[n][l] = server[n][l] /\ builtFrom'[n][l] = builtFrom[n][l]
  PROVE  ServedBy(n)' = Register(n)!ServedToo(m, id.digest)
  <1>1. {l \in Model : server'[n][l] = "ready"} = {l \in Model : server[n][l] = "ready"} \cup {m}
    OBVIOUS
  <1>2. DOMAIN ServedBy(n) \cup {m} = {l \in Model : server'[n][l] = "ready"}
    BY <1>1, ServedDomain
  <1>3. \A l \in {k \in Model : server'[n][k] = "ready"} :
          builtFrom'[n][l].digest = IF l = m THEN id.digest ELSE ServedBy(n)[l]
    BY <1>1 DEF ServedBy
  <1>4. Register(n)!ServedToo(m, id.digest)
          = [l \in DOMAIN ServedBy(n) \cup {m} |-> IF l = m THEN id.digest ELSE ServedBy(n)[l]]
    BY DEF Register!ServedToo
  <1>5. ServedBy(n)' = [l \in {k \in Model : server'[n][k] = "ready"} |-> builtFrom'[n][l].digest]
    BY DEF ServedBy
  <1> QED
    BY <1>2, <1>3, <1>4, <1>5

\* A server goes; the others are not touched.
LEMMA ServedWithout ==
  ASSUME NEW n \in Node, NEW m \in Model, server'[n][m] # "ready",
         \A l \in Model \ {m} : server'[n][l] = server[n][l] /\ builtFrom'[n][l] = builtFrom[n][l]
  PROVE  ServedBy(n)' = [l \in DOMAIN ServedBy(n) \ {m} |-> ServedBy(n)[l]]
  <1>1. DOMAIN ServedBy(n) \ {m} = {l \in Model : server'[n][l] = "ready"}
    BY ServedDomain
  <1>2. \A l \in {k \in Model : server'[n][k] = "ready"} : builtFrom'[n][l].digest = ServedBy(n)[l]
    BY DEF ServedBy
  <1>3. ServedBy(n)' = [l \in {k \in Model : server'[n][k] = "ready"} |-> builtFrom'[n][l].digest]
    BY DEF ServedBy
  <1> QED
    BY <1>1, <1>2, <1>3

LEMMA MoveTyped ==
  ASSUME AgentTypeOK, NEW n \in Node, NEW o \in Op, NEW from, NEW to \in Active \cup Terminal,
         Move(n, o, from, to)
  PROVE  /\ ops[n][o].model \in Model /\ ops[n][o].id \in Identity /\ ops[n][o] # None
         /\ ops[n][o].id # None
  <1>1. ops[n][o] \in Operation
    BY MoveMoves
  <1> QED
    BY <1>1, AgentAssumption DEF Operation

\* Before the load begins a task holds nothing.
LEMMA WaitingMoves ==
  ASSUME AgentInv, NEW n \in Node, NEW o \in Op,
         NEW from \in {"validating", "waiting"}, NEW to \in {"waiting", "failed", "late"},
         Move(n, o, from, to), UNCHANGED <<server, builtFrom, agentLock, unloads>>
  PROVE  AgentInv' /\ \A k \in Node : RegisterStep(k)
  <1>1. AgentTypeOK /\ LocksOf(n) /\ from \in Active /\ to \in Active \cup Terminal
    BY DEF AgentInv, LockInv, Active, Terminal
  <1>2. AgentTypeOK'
    BY <1>1, MoveMoves DEF AgentTypeOK
  <1>3. LocksOf(n)'
    BY <1>1, MoveMoves, MoveTyped DEF LocksOf, TasksHold, HoldersWork, OneTask, Active
  <1>4. ServedBy(n)' = ServedBy(n)
    BY DEF ServedBy
  <1>5. RegisterStep(n)
    BY <1>1, <1>4, MoveSettles
  <1>6. \A k \in Node \ {n} : Untouched(k)
    BY <1>1, MoveMoves DEF Untouched
  <1> QED
    BY <1>2, <1>3, <1>5, <1>6, OneNode

LEMMA ValidateKeeps ==
  ASSUME AgentInv, NEW n \in Node, NEW o \in Op, Validate(n, o) \/ DeadlineBefore(n, o)
  PROVE  AgentInv' /\ \A k \in Node : RegisterStep(k)
  BY WaitingMoves DEF Validate, DeadlineBefore

LEMMA BeginServerKeeps ==
  ASSUME AgentInv, NEW n \in Node, NEW o \in Op, BeginServer(n, o)
  PROVE  AgentInv' /\ \A k \in Node : RegisterStep(k)
  <1> DEFINE m == ops[n][o].model
  <1>1. AgentTypeOK /\ LocksOf(n) /\ "waiting" \in Active /\ "waiting" \in Active \cup Terminal
    BY DEF AgentInv, LockInv, Active
  <1>a. ops[n][o] # None /\ ops[n][o].at = "waiting" /\ agentLock[n][m] = None /\ unloads' = unloads
    BY DEF BeginServer
  <1>b. m \in Model /\ ops[n][o].id \in Identity /\ ops[n][o].id # None
    BY <1>1, <1>a, AgentAssumption DEF AgentTypeOK, Operation
  <1>2. CASE /\ server[n][m] = "ready"
             /\ Move(n, o, "waiting", "ready")
             /\ builtFrom' = [builtFrom EXCEPT ![n][m] = ops[n][o].id]
             /\ UNCHANGED <<server, agentLock>>
    BY <1>1, <1>a, <1>2 DEF LocksOf, TasksHold
  <1>3. CASE /\ server[n][m] = "none" /\ Cardinality(Managers(n)) >= Places
             /\ Move(n, o, "waiting", "failed")
             /\ UNCHANGED <<server, builtFrom, agentLock>>
    BY <1>3, <1>a, WaitingMoves
  <1>4. CASE /\ server[n][m] = "none" /\ Cardinality(Managers(n)) < Places
             /\ Move(n, o, "waiting", "loading")
             /\ server' = [server EXCEPT ![n][m] = "loading"]
             /\ agentLock' = [agentLock EXCEPT ![n][m] = o]
             /\ UNCHANGED builtFrom
    <2>1. "loading" \in Active \cup Terminal /\ "loading" \in Active
      BY DEF Active
    <2>2. AgentTypeOK'
      BY <1>1, <1>a, <1>b, <1>4, <2>1, MoveMoves DEF AgentTypeOK
    <2>3. /\ \A l \in Model : server'[n][l] = IF l = m THEN "loading" ELSE server[n][l]
          /\ \A l \in Model : agentLock'[n][l] = IF l = m THEN o ELSE agentLock[n][l]
          /\ builtFrom' = builtFrom
      BY <1>1, <1>b, <1>4 DEF AgentTypeOK
    <2>8. /\ ops'[n][o] # None /\ ops'[n][o].model = m /\ ops'[n][o].at = "loading"
          /\ \A p \in Op \ {o} : ops'[n][p] = ops[n][p]
      BY <1>1, <1>4, <2>1, MoveMoves
    <2>9. TasksHold(n)'
      BY <1>1, <1>a, <2>3, <2>8, ModelOfOp, AgentAssumption DEF LocksOf, TasksHold, OneTask, Active
    <2>10. HoldersWork(n)'
      BY <1>1, <1>a, <1>b, <2>3, <2>8, AgentAssumption DEF LocksOf, HoldersWork
    <2>11. OneTask(n)'
      BY <1>1, <1>a, <2>1, <2>8 DEF LocksOf, OneTask, Active
    <2>4. LocksOf(n)'
      BY <2>9, <2>10, <2>11 DEF LocksOf
    <2>5. ServedBy(n)' = ServedBy(n)
      BY <1>b, <1>4, <2>3, ServedUnchanged
    <2>6. RegisterStep(n)
      BY <1>1, <1>4, <2>1, <2>5, MoveSettles
    <2>7. \A k \in Node \ {n} : Untouched(k)
      BY <1>1, <1>4, <2>1, MoveMoves DEF Untouched, AgentTypeOK
    <2> QED
      BY <2>2, <2>4, <2>6, <2>7, OneNode DEF AgentInv
  <1> QED
    BY <1>2, <1>3, <1>4 DEF BeginServer

\* _release_manager at the end of the critical section of a model.
LEMMA ReleasedGone ==
  ASSUME AgentTypeOK, NEW n \in Node, NEW m \in Model, Released(n, m)
  PROVE  /\ server' \in [Node -> [Model -> {"none", "loading", "ready", "unloading"}]]
         /\ builtFrom' \in [Node -> [Model -> Identity \cup {None}]]
         /\ agentLock' \in [Node -> [Model -> Op \cup {"unload", None}]]
         /\ server'[n][m] = "none" /\ agentLock'[n][m] = None
         /\ \A l \in Model \ {m} : /\ server'[n][l] = server[n][l] /\ builtFrom'[n][l] = builtFrom[n][l]
                                   /\ agentLock'[n][l] = agentLock[n][l]
         /\ \A k \in Node \ {n} : server'[k] = server[k] /\ builtFrom'[k] = builtFrom[k] /\ agentLock'[k] = agentLock[k]
  BY DEF AgentTypeOK, Released

\* A load ends without a server.
LEMMA ReleasedKeeps ==
  ASSUME AgentInv, NEW n \in Node, NEW o \in Op, NEW from \in {"loading", "cancelling"},
         NEW to \in {"failed", "late"}, Move(n, o, from, to), Released(n, ops[n][o].model), UNCHANGED unloads
  PROVE  AgentInv' /\ \A k \in Node : RegisterStep(k)
  <1> DEFINE m == ops[n][o].model
  <1>1. AgentTypeOK /\ LocksOf(n) /\ from \in Active /\ to \in Active \cup Terminal /\ to \notin Active
    BY DEF AgentInv, LockInv, Active, Terminal
  <1>2. m \in Model
    BY <1>1, MoveTyped
  <1>3. agentLock[n][m] = o /\ server[n][m] # "ready"
    BY <1>1, MoveMoves, MoveTyped DEF LocksOf, TasksHold
  <1>4. AgentTypeOK'
    BY <1>1, <1>2, MoveMoves, ReleasedGone DEF AgentTypeOK
  <1>5. /\ ops'[n][o].model = m /\ ops'[n][o].at = to
        /\ \A p \in Op \ {o} : ops'[n][p] = ops[n][p]
        /\ \A k \in Node \ {n} : ops'[k] = ops[k]
    BY <1>1, MoveMoves
  <1>6. /\ server'[n][m] = "none" /\ agentLock'[n][m] = None
        /\ \A l \in Model \ {m} : /\ server'[n][l] = server[n][l] /\ builtFrom'[n][l] = builtFrom[n][l]
                                  /\ agentLock'[n][l] = agentLock[n][l]
        /\ \A k \in Node \ {n} : server'[k] = server[k] /\ builtFrom'[k] = builtFrom[k] /\ agentLock'[k] = agentLock[k]
    BY <1>1, <1>2, ReleasedGone
  <1>7. TasksHold(n)'
    BY <1>1, <1>3, <1>5, <1>6, ModelOfOp DEF LocksOf, TasksHold
  <1>8. HoldersWork(n)'
    BY <1>1, <1>3, <1>5, <1>6, AgentAssumption DEF LocksOf, HoldersWork
  <1>9. OneTask(n)'
    BY <1>1, <1>5 DEF LocksOf, OneTask, Active
  <1>10. ServedBy(n)' = ServedBy(n)
    BY <1>3, <1>6, ServedUnchanged
  <1>11. RegisterStep(n)
    BY <1>1, <1>10, MoveSettles
  <1>12. \A k \in Node \ {n} : Untouched(k)
    BY <1>5, <1>6 DEF Untouched
  <1> QED
    BY <1>4, <1>7, <1>8, <1>9, <1>11, <1>12, OneNode DEF LocksOf

LEMMA ServerStartedKeeps ==
  ASSUME AgentInv, NEW n \in Node, NEW o \in Op, ServerStarted(n, o)
  PROVE  AgentInv' /\ \A k \in Node : RegisterStep(k)
  <1> DEFINE m == ops[n][o].model
  <1>1. CASE /\ Move(n, o, "loading", "ready")
             /\ server' = [server EXCEPT ![n][m] = "ready"]
             /\ builtFrom' = [builtFrom EXCEPT ![n][m] = ops[n][o].id]
             /\ agentLock' = [agentLock EXCEPT ![n][m] = None]
             /\ UNCHANGED unloads
    <2>1. AgentTypeOK /\ LocksOf(n) /\ "loading" \in Active /\ "ready" \in Active \cup Terminal /\ "ready" \notin Active
      BY DEF AgentInv, LockInv, Active, Terminal
    <2>2. m \in Model /\ ops[n][o].id \in Identity /\ ops[n][o].id # None
      BY <1>1, <2>1, MoveTyped
    <2>3. agentLock[n][m] = o /\ server[n][m] # "ready"
      BY <1>1, <2>1, MoveMoves, MoveTyped DEF LocksOf, TasksHold
    <2>4. AgentTypeOK'
      BY <1>1, <2>1, <2>2, MoveMoves DEF AgentTypeOK
    <2>5. /\ ops'[n][o].model = m /\ ops'[n][o].at = "ready"
          /\ ops[n][o] # None /\ ops[n][o].at = "loading"
          /\ \A p \in Op \ {o} : ops'[n][p] = ops[n][p]
          /\ \A k \in Node \ {n} : ops'[k] = ops[k]
      BY <1>1, <2>1, MoveMoves, MoveTyped
    <2>6. /\ server'[n][m] = "ready" /\ agentLock'[n][m] = None /\ builtFrom'[n][m] = ops[n][o].id
          /\ \A l \in Model \ {m} : /\ server'[n][l] = server[n][l] /\ builtFrom'[n][l] = builtFrom[n][l]
                                    /\ agentLock'[n][l] = agentLock[n][l]
          /\ \A k \in Node \ {n} : server'[k] = server[k] /\ builtFrom'[k] = builtFrom[k] /\ agentLock'[k] = agentLock[k]
      BY <1>1, <2>1, <2>2 DEF AgentTypeOK
    <2>7. TasksHold(n)'
      BY <2>1, <2>3, <2>5, <2>6, ModelOfOp DEF LocksOf, TasksHold, OneTask, Active
    <2>8. HoldersWork(n)'
      BY <2>1, <2>2, <2>3, <2>5, <2>6, AgentAssumption DEF LocksOf, HoldersWork
    <2>9. OneTask(n)'
      BY <2>1, <2>5 DEF LocksOf, OneTask, Active
    <2>10. ServedBy(n)' = Register(n)!ServedToo(m, ops[n][o].id.digest)
      BY <2>2, <2>6, ServedAdded
    <2>13. m \notin DOMAIN ServedBy(n)
      BY <2>3, ServedDomain
    <2>11. RegisterStep(n)
      BY <1>1, <2>1, <2>10, <2>13, MoveSettles
    <2>12. \A k \in Node \ {n} : Untouched(k)
      BY <2>5, <2>6 DEF Untouched
    <2> QED
      BY <2>4, <2>7, <2>8, <2>9, <2>11, <2>12, OneNode DEF LocksOf
  <1>2. CASE Move(n, o, "loading", "failed") /\ Released(n, m) /\ UNCHANGED unloads
    BY <1>2, ReleasedKeeps
  <1> QED
    BY <1>1, <1>2 DEF ServerStarted

LEMMA CancelLoadKeeps ==
  ASSUME AgentInv, NEW n \in Node, NEW o \in Op, CancelLoad(n, o)
  PROVE  AgentInv' /\ \A k \in Node : RegisterStep(k)
  <1> DEFINE m == ops[n][o].model
  <1>1. AgentTypeOK /\ LocksOf(n) /\ "loading" \in Active /\ "cancelling" \in Active /\ "cancelling" \in Active \cup Terminal
    BY DEF AgentInv, LockInv, Active, Terminal
  <1>2. /\ Move(n, o, "loading", "cancelling") /\ server' = [server EXCEPT ![n][m] = "unloading"]
        /\ UNCHANGED <<builtFrom, agentLock, unloads>>
    BY DEF CancelLoad
  <1>3. m \in Model
    BY <1>1, <1>2, MoveTyped
  <1>4. agentLock[n][m] = o /\ server[n][m] = "loading"
    BY <1>1, <1>2, MoveMoves, MoveTyped DEF LocksOf, TasksHold
  <1>5. AgentTypeOK'
    BY <1>1, <1>2, <1>3, MoveMoves DEF AgentTypeOK
  <1>6. /\ ops'[n][o] # None /\ ops'[n][o].model = m /\ ops'[n][o].at = "cancelling"
        /\ ops[n][o] # None /\ ops[n][o].at = "loading"
        /\ \A p \in Op \ {o} : ops'[n][p] = ops[n][p]
        /\ \A k \in Node \ {n} : ops'[k] = ops[k]
    BY <1>1, <1>2, MoveMoves, MoveTyped
  <1>7. /\ server'[n][m] = "unloading" /\ agentLock' = agentLock /\ builtFrom' = builtFrom
        /\ \A l \in Model \ {m} : server'[n][l] = server[n][l]
        /\ \A k \in Node \ {n} : server'[k] = server[k]
    BY <1>1, <1>2, <1>3 DEF AgentTypeOK
  <1>8. TasksHold(n)'
    BY <1>1, <1>4, <1>6, <1>7, ModelOfOp DEF LocksOf, TasksHold, OneTask, Active
  <1>9. HoldersWork(n)'
    BY <1>1, <1>4, <1>6, <1>7, AgentAssumption DEF LocksOf, HoldersWork
  <1>10. OneTask(n)'
    BY <1>1, <1>6 DEF LocksOf, OneTask, Active
  <1>11. ServedBy(n)' = ServedBy(n)
    BY <1>4, <1>7, ServedUnchanged
  <1>12. RegisterStep(n)
    BY <1>1, <1>2, <1>11, MoveSettles
  <1>13. \A k \in Node \ {n} : Untouched(k)
    BY <1>6, <1>7 DEF Untouched
  <1> QED
    BY <1>5, <1>8, <1>9, <1>10, <1>12, <1>13, OneNode DEF LocksOf

LEMMA TaskKeeps ==
  ASSUME AgentInv, NEW n \in Node, NEW o \in Op, TaskStep(n, o)
  PROVE  AgentInv' /\ \A k \in Node : RegisterStep(k)
  <1>1. ASSUME LoadCancelled(n, o) PROVE AgentInv' /\ \A k \in Node : RegisterStep(k)
    BY <1>1, ReleasedKeeps DEF LoadCancelled
  <1> QED
    BY <1>1, ValidateKeeps, BeginServerKeeps, ServerStartedKeeps, CancelLoadKeeps DEF TaskStep

\* Servers come and go without the operations.
LEMMA WithdrawStep ==
  ASSUME NEW n \in Node, NEW m \in Model, ops' = ops,
         ServedBy(n)' = [l \in DOMAIN ServedBy(n) \ {m} |-> ServedBy(n)[l]]
  PROVE  RegisterStep(n)
  <1>1. RegisterOf(n)' = RegisterOf(n)
    BY DEF RegisterOf
  <1>2. Register(n)!Withdraw(m)
    BY <1>1 DEF Register!Withdraw
  <1> QED
    BY <1>2 DEF RegisterStep, Register!Next

LEMMA BeginUnloadKeeps ==
  ASSUME AgentInv, NEW n \in Node, NEW m \in Model, BeginUnload(n, m)
  PROVE  AgentInv' /\ \A k \in Node : RegisterStep(k)
  <1>1. AgentTypeOK /\ LocksOf(n)
    BY DEF AgentInv, LockInv
  <1>2. /\ agentLock[n][m] = None /\ server[n][m] = "ready" /\ ops' = ops /\ builtFrom' = builtFrom
        /\ server' = [server EXCEPT ![n][m] = "unloading"]
        /\ agentLock' = [agentLock EXCEPT ![n][m] = "unload"] /\ unloads' = unloads
    BY DEF BeginUnload
  <1>3. AgentTypeOK'
    BY <1>1, <1>2 DEF AgentTypeOK
  <1>4. /\ server'[n][m] = "unloading" /\ agentLock'[n][m] = "unload"
        /\ \A l \in Model \ {m} : server'[n][l] = server[n][l] /\ agentLock'[n][l] = agentLock[n][l]
        /\ \A k \in Node \ {n} : server'[k] = server[k] /\ agentLock'[k] = agentLock[k]
    BY <1>1, <1>2 DEF AgentTypeOK
  <1>5. TasksHold(n)'
    BY <1>1, <1>2, <1>4, ModelOfOp, AgentAssumption DEF LocksOf, TasksHold
  <1>6. HoldersWork(n)'
    BY <1>1, <1>2, <1>4, AgentAssumption DEF LocksOf, HoldersWork
  <1>7. OneTask(n)'
    BY <1>1, <1>2 DEF LocksOf, OneTask
  <1>8. ServedBy(n)' = [l \in DOMAIN ServedBy(n) \ {m} |-> ServedBy(n)[l]]
    BY <1>2, <1>4, ServedWithout
  <1>9. \A k \in Node \ {n} : Untouched(k)
    BY <1>2, <1>4 DEF Untouched
  <1> QED
    BY <1>2, <1>3, <1>5, <1>6, <1>7, <1>8, <1>9, WithdrawStep, OneNode DEF LocksOf

LEMMA EndUnloadKeeps ==
  ASSUME AgentInv, NEW n \in Node, NEW m \in Model, EndUnload(n, m)
  PROVE  AgentInv' /\ \A k \in Node : RegisterStep(k)
  <1>1. AgentTypeOK /\ LocksOf(n)
    BY DEF AgentInv, LockInv
  <1>2. ops' = ops /\ unloads' \in [Node -> SUBSET Model]
    BY <1>1 DEF EndUnload, AgentTypeOK
  <1>3. CASE agentLock[n][m] = "unload" /\ Released(n, m)
    <2>1. server[n][m] = "unloading"
      BY <1>1, <1>3 DEF LocksOf, HoldersWork
    <2>2. /\ server'[n][m] = "none" /\ agentLock'[n][m] = None
          /\ \A l \in Model \ {m} : /\ server'[n][l] = server[n][l] /\ builtFrom'[n][l] = builtFrom[n][l]
                                    /\ agentLock'[n][l] = agentLock[n][l]
          /\ \A k \in Node \ {n} : server'[k] = server[k] /\ builtFrom'[k] = builtFrom[k] /\ agentLock'[k] = agentLock[k]
      BY <1>1, <1>3, ReleasedGone
    <2>3. AgentTypeOK'
      BY <1>1, <1>2, <1>3, ReleasedGone DEF AgentTypeOK
    <2>4. TasksHold(n)'
      BY <1>1, <1>2, <1>3, <2>2, ModelOfOp, AgentAssumption DEF LocksOf, TasksHold
    <2>5. HoldersWork(n)'
      BY <1>1, <1>2, <2>2, AgentAssumption DEF LocksOf, HoldersWork
    <2>6. OneTask(n)'
      BY <1>1, <1>2 DEF LocksOf, OneTask
    <2>7. ServedBy(n)' = [l \in DOMAIN ServedBy(n) \ {m} |-> ServedBy(n)[l]]
      BY <2>1, <2>2, ServedWithout
    <2>8. \A k \in Node \ {n} : Untouched(k)
      BY <1>2, <2>2 DEF Untouched
    <2> QED
      BY <1>2, <2>3, <2>4, <2>5, <2>6, <2>7, <2>8, WithdrawStep, OneNode DEF LocksOf
  <1>4. CASE UNCHANGED <<server, builtFrom, agentLock>>
    BY <1>2, <1>4, QuietAgents
  <1> QED
    BY <1>3, <1>4 DEF EndUnload

\* A READY model is nobody's: its server may die without its lock being touched.
LEMMA ServerCrashedKeeps ==
  ASSUME AgentInv, NEW n \in Node, NEW m \in Model, ServerCrashed(n, m)
  PROVE  AgentInv' /\ \A k \in Node : RegisterStep(k)
  <1>1. AgentTypeOK /\ LocksOf(n)
    BY DEF AgentInv, LockInv
  <1>2. /\ server[n][m] = "ready" /\ ops' = ops /\ agentLock' = agentLock
        /\ server' = [server EXCEPT ![n][m] = "none"]
        /\ builtFrom' = [builtFrom EXCEPT ![n][m] = None] /\ unloads' = unloads
    BY DEF ServerCrashed
  <1>3. AgentTypeOK'
    BY <1>1, <1>2 DEF AgentTypeOK
  <1>4. /\ server'[n][m] = "none"
        /\ \A l \in Model \ {m} : server'[n][l] = server[n][l] /\ builtFrom'[n][l] = builtFrom[n][l]
        /\ \A k \in Node \ {n} : server'[k] = server[k] /\ builtFrom'[k] = builtFrom[k]
    BY <1>1, <1>2 DEF AgentTypeOK
  <1>5. TasksHold(n)'
    BY <1>1, <1>2, <1>4, ModelOfOp DEF LocksOf, TasksHold
  <1>6. HoldersWork(n)'
    BY <1>1, <1>2, <1>4 DEF LocksOf, HoldersWork
  <1>7. OneTask(n)'
    BY <1>1, <1>2 DEF LocksOf, OneTask
  <1>8. ServedBy(n)' = [l \in DOMAIN ServedBy(n) \ {m} |-> ServedBy(n)[l]]
    BY <1>2, <1>4, ServedWithout
  <1>9. \A k \in Node \ {n} : Untouched(k)
    BY <1>2, <1>4 DEF Untouched
  <1> QED
    BY <1>2, <1>3, <1>5, <1>6, <1>7, <1>8, <1>9, WithdrawStep, OneNode DEF LocksOf

LEMMA AgentRestartedKeeps ==
  ASSUME AgentInv, NEW n \in Node, AgentRestarted(n)
  PROVE  AgentInv' /\ \A k \in Node : RegisterStep(k)
  <1>1. AgentTypeOK'
    BY DEF AgentInv, AgentTypeOK, AgentRestarted
  <1>2. /\ \A o \in Op : ops'[n][o] = None
        /\ \A m \in Model : server'[n][m] = "none" /\ agentLock'[n][m] = None
        /\ \A k \in Node \ {n} : Untouched(k)
    BY DEF AgentInv, AgentTypeOK, AgentRestarted, Untouched
  <1>3. LocksOf(n)'
    BY <1>2, AgentAssumption DEF LocksOf, TasksHold, HoldersWork, OneTask
  <1>4. RegisterOf(n)' = [o \in Op |-> None] /\ ServedBy(n)' = [m \in {} |-> 0]
    <2>1. {m \in Model : server'[n][m] = "ready"} = {}
      BY <1>2
    <2> QED
      BY <1>2, <2>1 DEF RegisterOf, ServedBy
  <1>5. Register(n)!Restart
    BY <1>4 DEF Register!Restart
  <1>6. RegisterStep(n)
    BY <1>5 DEF RegisterStep, Register!Next
  <1> QED
    BY <1>1, <1>2, <1>3, <1>6, OneNode

LEMMA ForgetKeeps ==
  ASSUME AgentInv, NEW n \in Node, NEW o \in Op, ForgetOperation(n, o)
  PROVE  AgentInv' /\ \A k \in Node : RegisterStep(k)
  <1>1. AgentTypeOK /\ LocksOf(n)
    BY DEF AgentInv, LockInv
  <1>2. /\ ops[n][o] # None /\ ops[n][o].at \in Terminal /\ ops' = [ops EXCEPT ![n][o] = None]
        /\ UNCHANGED <<server, builtFrom, agentLock, unloads>>
    BY DEF ForgetOperation
  <1>3. AgentTypeOK'
    BY <1>1, <1>2 DEF AgentTypeOK
  <1>4. /\ ops'[n][o] = None /\ \A p \in Op \ {o} : ops'[n][p] = ops[n][p]
        /\ \A k \in Node \ {n} : ops'[k] = ops[k]
    BY <1>1, <1>2 DEF AgentTypeOK
  <1>5. LocksOf(n)'
    BY <1>1, <1>2, <1>4 DEF LocksOf, TasksHold, HoldersWork, OneTask, Terminal
  <1>6. RegisterOf(n)' = [RegisterOf(n) EXCEPT ![o] = None]
    BY <1>4 DEF RegisterOf
  <1>7. RegisterOf(n)[o] = EntryOf(ops[n][o])
    BY <1>2 DEF RegisterOf
  <1>8. RegisterOf(n)[o] # None /\ RegisterOf(n)[o].state # "pending"
    BY <1>1, <1>2, <1>7, ModelOfOp, EntryOfOperation DEF Active, Terminal
  <1>9. ServedBy(n)' = ServedBy(n)
    BY <1>2 DEF ServedBy
  <1>10. Register(n)!Forget(o)
    BY <1>6, <1>8, <1>9 DEF Register!Forget
  <1>11. RegisterStep(n)
    BY <1>10 DEF RegisterStep, Register!Next
  <1>12. \A k \in Node \ {n} : Untouched(k)
    BY <1>2, <1>4 DEF Untouched
  <1> QED
    BY <1>3, <1>5, <1>11, <1>12, OneNode

\* What a POST leaves: its operation is recorded once, if it is accepted.
LEMMA HandleLoadRecords ==
  ASSUME AgentTypeOK, NEW n \in Node, NEW o \in Op, NEW m \in Model, NEW id \in Identity,
         HandleLoad(n, o, m, id)
  PROVE  /\ UNCHANGED <<server, builtFrom, agentLock, unloads>>
         /\ \/ ops' = ops /\ (ops[n][o] # None \/ LoadAnswer(n, o, m, id) \notin {"ready", "loading"})
            \/ /\ ops[n][o] = None /\ LoadAnswer(n, o, m, id) \in {"ready", "loading"}
               /\ ActiveOps(n, m) = {} /\ agentLock[n][m] = None
               /\ ops' \in [Node -> [Op -> Operation \cup {None}]]
               /\ ops'[n][o] \in Operation /\ ops'[n][o] # None
               /\ ops'[n][o].model = m /\ ops'[n][o].id = id
               /\ \/ /\ LoadAnswer(n, o, m, id) = "ready" /\ server[n][m] = "ready"
                     /\ builtFrom[n][m].digest = id.digest
                     /\ ops'[n][o].at = "ready"
                  \/ /\ LoadAnswer(n, o, m, id) = "loading" /\ server[n][m] # "ready"
                     /\ ops'[n][o].at = "validating"
               /\ \A p \in Op \ {o} : ops'[n][p] = ops[n][p]
               /\ \A k \in Node \ {n} : ops'[k] = ops[k]
  <1> DEFINE answer == LoadAnswer(n, o, m, id)
             at == IF answer = "ready" THEN "ready" ELSE "validating"
             q == [model |-> m, id |-> id, at |-> at]
  <1>1. UNCHANGED <<server, builtFrom, agentLock, unloads>>
    BY DEF HandleLoad
  <1>2. CASE ops[n][o] = None /\ answer \in {"ready", "loading"}
    <2>1. /\ ActiveOps(n, m) = {}
          /\ answer = "ready" => server[n][m] = "ready" /\ builtFrom[n][m].digest = id.digest
          /\ answer = "loading" => server[n][m] # "ready"
      BY <1>2 DEF LoadAnswer
    <2>6. agentLock[n][m] = None
      BY <1>2 DEF HandleLoad
    <2>2. ops' = [ops EXCEPT ![n][o] = q]
      BY <1>2, Zenon DEF HandleLoad
    <2>3. q \in Operation /\ q.model = m /\ q.id = id /\ q.at = at
      BY DEF Operation, Active, Terminal
    <2>4. q # None
      BY <2>3, AgentAssumption
    <2> HIDE DEF q
    <2>5. /\ ops' \in [Node -> [Op -> Operation \cup {None}]]
          /\ ops'[n][o] = q
          /\ \A p \in Op \ {o} : ops'[n][p] = ops[n][p]
          /\ \A k \in Node \ {n} : ops'[k] = ops[k]
      BY <2>2, <2>3 DEF AgentTypeOK
    <2> QED
      BY <1>1, <1>2, <2>1, <2>3, <2>4, <2>5, <2>6
  <1>3. CASE ~(ops[n][o] = None /\ answer \in {"ready", "loading"})
    <2>1. ops' = ops
      BY <1>3, Zenon DEF HandleLoad
    <2> QED
      BY <1>1, <1>3, <2>1
  <1> QED
    BY <1>2, <1>3

LEMMA HandleLoadKeeps ==
  ASSUME AgentInv, NEW n \in Node, NEW o \in Op, NEW m \in Model, NEW id \in Identity,
         HandleLoad(n, o, m, id)
  PROVE  AgentInv' /\ \A k \in Node : RegisterStep(k)
  <1> DEFINE q == ops'[n][o]
  <1>1. AgentTypeOK /\ LocksOf(n)
    BY DEF AgentInv, LockInv
  <1>2. UNCHANGED <<server, builtFrom, agentLock, unloads>>
    BY <1>1, HandleLoadRecords
  <1>3. CASE ops' = ops
    BY <1>1, <1>2, <1>3, QuietAgents DEF AgentTypeOK
  <1>4. CASE ops' # ops
    <2>1. /\ ops[n][o] = None /\ ActiveOps(n, m) = {} /\ agentLock[n][m] = None
          /\ ops' \in [Node -> [Op -> Operation \cup {None}]]
          /\ q \in Operation /\ q # None /\ q.model = m /\ q.id = id
          /\ \/ q.at = "ready" /\ server[n][m] = "ready" /\ builtFrom[n][m].digest = id.digest
             \/ q.at = "validating" /\ server[n][m] # "ready"
          /\ \A p \in Op \ {o} : ops'[n][p] = ops[n][p]
          /\ \A k \in Node \ {n} : ops'[k] = ops[k]
      BY <1>1, <1>4, HandleLoadRecords
    <2>2. AgentTypeOK'
      BY <1>1, <1>2, <2>1 DEF AgentTypeOK
    <2>12. q.at = "validating" => server[n][m] = "none"
      BY <1>1, <2>1, AgentAssumption DEF AgentTypeOK, LocksOf, HoldersWork
    <2>3. TasksHold(n)'
      BY <1>1, <1>2, <2>1, <2>12 DEF LocksOf, TasksHold
    <2>4. HoldersWork(n)'
      BY <1>1, <1>2, <2>1 DEF LocksOf, HoldersWork
    <2>5. OneTask(n)'
      BY <1>1, <2>1 DEF LocksOf, OneTask, ActiveOps
    <2>6. ServedBy(n)' = ServedBy(n)
      BY <1>2 DEF ServedBy
    <2>7. RegisterOf(n)' = [RegisterOf(n) EXCEPT ![o] = EntryOf(q)]
      BY <2>1 DEF RegisterOf
    <2>8. RegisterOf(n)[o] = None
      BY <2>1 DEF RegisterOf
    <2>9. ASSUME q.at = "validating", server[n][m] # "ready" PROVE RegisterStep(n)
      <3>1. EntryOf(q) = [model |-> m, id |-> id, state |-> "pending"]
        BY <2>1, <2>9, EntryOfOperation DEF Active
      <3>2. ASSUME NEW p \in Op, RegisterOf(n)[p] # None, RegisterOf(n)[p].model = m PROVE RegisterOf(n)[p].state # "pending"
        <4>1. ops[n][p] # None /\ RegisterOf(n)[p] = EntryOf(ops[n][p])
          BY <3>2 DEF RegisterOf
        <4>2. ops[n][p].model = m /\ ops[n][p].at \notin Active
          BY <1>1, <2>1, <3>2, <4>1, ModelOfOp, EntryOfOperation DEF ActiveOps
        <4> QED
          BY <1>1, <4>1, <4>2, ModelOfOp, EntryOfOperation
      <3>3. Register(n)!Pending(m) = {}
        BY <3>2 DEF Register!Pending
      <3>5. m \notin DOMAIN ServedBy(n)
        BY <2>9, ServedDomain
      <3>4. Register(n)!Accept(o, m, id)
        BY <2>6, <2>7, <2>8, <3>1, <3>3, <3>5 DEF Register!Accept
      <3>9. \E x \in Op, y \in Model, z \in Identity : Register(n)!Accept(x, y, z)
        BY <3>4, Zenon
      <3>10. Register(n)!Next
        BY <3>9, Zenon DEF Register!Next
      <3> QED
        BY <3>10 DEF RegisterStep
    <2>10. ASSUME q.at = "ready", server[n][m] = "ready", builtFrom[n][m].digest = id.digest PROVE RegisterStep(n)
      <3>1. EntryOf(q) = [model |-> m, id |-> id, state |-> "ready"]
        BY <2>1, <2>10, EntryOfOperation
      <3>2. Register(n)!Serves(m, id.digest)
        BY <2>10 DEF ServedBy, Register!Serves
      <3>3. Register(n)!Accept(o, m, id)
        BY <2>6, <2>7, <2>8, <3>1, <3>2 DEF Register!Accept
      <3>9. \E x \in Op, y \in Model, z \in Identity : Register(n)!Accept(x, y, z)
        BY <3>3, Zenon
      <3>10. Register(n)!Next
        BY <3>9, Zenon DEF Register!Next
      <3> QED
        BY <3>10 DEF RegisterStep
    <2>11. \A k \in Node \ {n} : Untouched(k)
      BY <1>2, <2>1 DEF Untouched
    <2> QED
      BY <2>1, <2>2, <2>3, <2>4, <2>5, <2>9, <2>10, <2>11, OneNode DEF LocksOf
  <1> QED
    BY <1>3, <1>4

\* What the agents do by themselves: they run their tasks, fail and forget.
LEMMA AgentKeeps ==
  ASSUME AgentInv, NEW n \in Node, Agent(n)
  PROVE  AgentInv' /\ \A k \in Node : RegisterStep(k)
  <1>1. CASE AgentStep(n)
    BY <1>1, TaskKeeps, BeginUnloadKeeps, EndUnloadKeeps DEF AgentStep
  <1>2. CASE AgentFault(n)
    BY <1>2, AgentRestartedKeeps, ServerCrashedKeeps, ForgetKeeps DEF AgentFault
  <1> QED
    BY <1>1, <1>2 DEF Agent

-----------------------------------------------------------------------------
(* The requests: what each position of a request says of its fields        *)

\* Where a request holds the lock of its node.
OnNode == {"evict", "post", "poll"}

Sound(q) ==
  /\ q.pc # "idle" => q.model \in Model
  /\ q.pc \in OnNode \cup {"resume", "refresh", "serve", "drop"} => q.node \in Node
  /\ q.pc \in {"resume", "refresh", "place", "post", "poll", "serve"} => q.id \in Identity
  /\ q.pc = "evict" => /\ q.victim \in Model /\ q.mode \in {"load", "admin"}
                       /\ q.mode = "load" => q.id \in Identity
  /\ IF q.pc \in {"resume", "post", "poll"} THEN q.op \in Op ELSE q.op = None
  /\ q.pc = "place" => q.mode = "load"
  /\ q.pc \in {"unlock", "drop"} => q.mode = "admin"
  /\ q.attached => q.pc = "serve"

RequestInv == \A r \in Req : Sound(req[r])

\* A request that does not move may still lose its record.
Keeps(q, p) ==
  /\ q.pc = p.pc /\ q.model = p.model /\ q.node = p.node /\ q.mode = p.mode
  /\ q.victim = p.victim /\ q.id = p.id /\ q.op = p.op
  /\ q.attached => p.attached

\* Only the requests of A move, and where they go they are sound.
OnlyMove(A) ==
  /\ req' \in [Req -> Request]
  /\ \A r \in Req \ A : Keeps(req'[r], req[r])
  /\ \A r \in A : Sound(req'[r])

LEMMA RequestMoves ==
  ASSUME RequestInv, NEW A \in SUBSET Req, OnlyMove(A)
  PROVE  RequestInv'
  BY DEF RequestInv, OnlyMove, Keeps, Sound, OnNode

LEMMA IdleSound ==
  /\ Idle \in Request /\ Idle.pc = "idle" /\ Idle.model = None /\ Idle.node = None /\ Idle.mode = None
  /\ Idle.victim = None /\ Idle.id = None /\ Idle.op = None /\ Idle.told = FALSE /\ Idle.attached = FALSE
  /\ Idle.failed = {} /\ Idle.avoid = {}
  /\ Sound(Idle)
  BY DEF Idle, Request, Pcs, Modes, Sound, OnNode

LEMMA BecomeMoves ==
  ASSUME req \in [Req -> Request], NEW r \in Req, NEW q \in Request, Sound(q), req' = Become(r, q)
  PROVE  /\ OnlyMove({r}) /\ req'[r] = q
         /\ \A p \in Req \ {r} : req'[p] = req[p]
  <1>1. /\ req' \in [Req -> Request] /\ req'[r] = q
        /\ \A p \in Req \ {r} : req'[p] = req[p]
    BY DEF Become
  <1> QED
    BY <1>1 DEF OnlyMove, Keeps

LEMMA AnswerMoves ==
  ASSUME req \in [Req -> Request], NEW r \in Req, req' = Answer(r)
  PROVE  /\ OnlyMove({r}) /\ req'[r] = Idle
         /\ \A p \in Req \ {r} : req'[p] = req[p]
  BY IdleSound, BecomeMoves DEF Answer

LEMMA StillRequests ==
  ASSUME req \in [Req -> Request], req' = req
  PROVE  OnlyMove({})
  BY DEF OnlyMove, Keeps

LEMMA DetachMoves ==
  ASSUME req \in [Req -> Request], RequestInv, NEW n, NEW ms
  PROVE  /\ Detach(n, ms) \in [Req -> Request]
         /\ \A r \in Req : /\ Keeps(Detach(n, ms)[r], req[r]) /\ Sound(Detach(n, ms)[r])
                           /\ Detach(n, ms)[r].attached =>
                                ~(req[r].pc = "serve" /\ req[r].node = n /\ req[r].model \in ms)
  <1> DEFINE off(r) == [req[r] EXCEPT !.attached = FALSE]
             out(r) == \E m \in ms : r \in Streams(n, m)
  <1>1. ASSUME NEW r \in Req
        PROVE  off(r) \in Request /\ Keeps(off(r), req[r]) /\ Sound(off(r)) /\ off(r).attached = FALSE
    <2>1. req[r] \in Request /\ Sound(req[r])
      BY DEF RequestInv
    <2>2. /\ off(r) \in Request
          /\ off(r).pc = req[r].pc /\ off(r).model = req[r].model /\ off(r).node = req[r].node
          /\ off(r).mode = req[r].mode /\ off(r).victim = req[r].victim /\ off(r).id = req[r].id
          /\ off(r).op = req[r].op /\ off(r).attached = FALSE
      BY <2>1 DEF Request
    <2> HIDE DEF off
    <2> QED
      BY <2>1, <2>2 DEF Keeps, Sound, OnNode
  <1>2. Detach(n, ms) = [r \in Req |-> IF out(r) THEN off(r) ELSE req[r]]
    BY Zenon DEF Detach
  <1>3. \A r \in Req : req[r].pc = "serve" /\ req[r].node = n /\ req[r].model \in ms => out(r)
    BY DEF Streams
  <1>4. \A r \in Req : Keeps(req[r], req[r]) /\ Sound(req[r])
    BY DEF Keeps, RequestInv
  <1> HIDE DEF off, out
  <1>5. \A r \in Req : Detach(n, ms)[r] = IF out(r) THEN off(r) ELSE req[r]
    BY <1>2
  <1> QED
    BY <1>1, <1>2, <1>3, <1>4, <1>5

\* The requests when a record goes, or is replaced.
LEMMA DetachedMoves ==
  ASSUME req \in [Req -> Request], RequestInv, NEW n, NEW ms, req' = Detach(n, ms)
  PROVE  /\ OnlyMove({})
         /\ \A r \in Req : req'[r].attached =>
               ~(req[r].pc = "serve" /\ req[r].node = n /\ req[r].model \in ms)
  BY DetachMoves DEF OnlyMove

LEMMA DetachBecomeMoves ==
  ASSUME req \in [Req -> Request], RequestInv, NEW n, NEW ms, NEW r \in Req, NEW q \in Request, Sound(q),
         req' = [Detach(n, ms) EXCEPT ![r] = q]
  PROVE  /\ OnlyMove({r}) /\ req'[r] = q
         /\ \A p \in Req \ {r} : req'[p].attached =>
               ~(req[p].pc = "serve" /\ req[p].node = n /\ req[p].model \in ms)
  <1> DEFINE d == Detach(n, ms)
  <1>1. /\ d \in [Req -> Request]
        /\ \A p \in Req : /\ Keeps(d[p], req[p])
                          /\ d[p].attached => ~(req[p].pc = "serve" /\ req[p].node = n /\ req[p].model \in ms)
    BY DetachMoves
  <1> HIDE DEF d
  <1>2. req' = [d EXCEPT ![r] = q]
    BY DEF d
  <1>3. req' \in [Req -> Request] /\ req'[r] = q /\ \A p \in Req \ {r} : req'[p] = d[p]
    BY <1>1, <1>2
  <1> QED
    BY <1>1, <1>3 DEF OnlyMove

-----------------------------------------------------------------------------
(* Evictions: one at a time on a node, of a record nobody uses             *)

VictimKnown == \A r \in Req : req[r].pc = "evict" => loaded[req[r].node][req[r].victim] # None

\* A record is marked for as long as the request that evicts it.
MarkedIsUnused ==
  \A n \in Node, m \in Model :
    loaded[n][m] # None /\ loaded[n][m].evicting =>
      /\ Pins(n, m) = {}
      /\ \E r \in Req : req[r].pc = "evict" /\ req[r].node = n /\ req[r].victim = m

\* operation_lock of a node.
OneOnNode ==
  /\ \A r, q \in Req : req[r].pc \in OnNode /\ req[q].pc \in OnNode /\ req[r].node = req[q].node => r = q
  /\ \A n \in Node : purge[n] = "calling" => \A r \in Req : req[r].pc \in OnNode => req[r].node # n

\* The lifespan serves nothing before the first heartbeats.
BootIsQuiet ==
  \A n \in Node : beat[n].at = "boot" =>
    (\A r \in Req : req[r].pc = "idle") /\ \A k \in Node : purge[k] = "idle"

EvictInv == VictimKnown /\ MarkedIsUnused /\ OneOnNode /\ BootIsQuiet

\* What a step must respect on the nodes, when the requests of A move.
EvictMove(A) ==
  /\ \A r, q \in A : r = q
  /\ \A r \in A : /\ Booted
                  /\ req'[r].pc \in OnNode =>
                       \/ NodeFree(req'[r].node)
                       \/ req[r].pc \in OnNode /\ req'[r].node = req[r].node
                  /\ req'[r].pc = "evict" => loaded'[req'[r].node][req'[r].victim] # None
                  /\ req'[r].pc = "serve" =>
                       \/ loaded'[req'[r].node][req'[r].model] = None
                       \/ ~loaded'[req'[r].node][req'[r].model].evicting
  /\ \A n \in Node, m \in Model :
       /\ loaded'[n][m] # None /\ loaded'[n][m].evicting =>
            \/ /\ loaded[n][m] # None /\ loaded[n][m].evicting
               /\ ~\E r \in A : req[r].pc = "evict" /\ req[r].node = n /\ req[r].victim = m
            \/ /\ Pins(n, m) = {}
               /\ \E r \in A : req'[r].pc = "evict" /\ req'[r].node = n /\ req'[r].victim = m
       /\ loaded[n][m] # None /\ loaded'[n][m] = None => \A r \in Req \ A : req[r].pc = "evict" => req[r].node # n
  /\ \A n \in Node : purge'[n] = "calling" =>
       /\ purge[n] = "calling" \/ NodeFree(n)
       /\ \A r \in A : req'[r].pc \in OnNode => purge[n] = "calling" /\ purge'[n] = purge[n]
  /\ \A n \in Node : beat'[n].at = "boot" => beat[n].at = "boot"
  /\ purge' = purge \/ Booted \/ \A k \in Node : purge[k] = "idle" => purge'[k] = "idle"

LEMMA EvictMoves ==
  ASSUME ClusterTypeOK, RequestInv, EvictInv, NEW A \in SUBSET Req, OnlyMove(A), EvictMove(A)
  PROVE  EvictInv'
  <1> DEFINE S(r) == req'[r]
  <1>1. \A r \in Req \ A : Keeps(req'[r], req[r])
    BY DEF OnlyMove
  <1>2. VictimKnown'
    <2> SUFFICES ASSUME NEW r \in Req, req'[r].pc = "evict" PROVE loaded'[req'[r].node][req'[r].victim] # None
      BY DEF VictimKnown
    <2>1. CASE r \in A
      BY <2>1 DEF EvictMove
    <2>2. CASE r \notin A
      <3>1. /\ req[r].pc = "evict" /\ req'[r].node = req[r].node /\ req'[r].victim = req[r].victim
            /\ req[r].node \in Node /\ req[r].victim \in Model
        BY <1>1, <2>2 DEF Keeps, RequestInv, Sound, OnNode
      <3>2. loaded[req[r].node][req[r].victim] # None
        BY <3>1 DEF EvictInv, VictimKnown
      <3> QED
        BY <2>2, <3>1, <3>2 DEF EvictMove
    <2> QED
      BY <2>1, <2>2
  <1>3. MarkedIsUnused'
    <2> SUFFICES ASSUME NEW n \in Node, NEW m \in Model, loaded'[n][m] # None, loaded'[n][m].evicting
                 PROVE  /\ Pins(n, m)' = {}
                        /\ \E r \in Req : req'[r].pc = "evict" /\ req'[r].node = n /\ req'[r].victim = m
      BY DEF MarkedIsUnused
    <2>1. Pins(n, m) = {} /\ \E r \in Req : req'[r].pc = "evict" /\ req'[r].node = n /\ req'[r].victim = m
      <3>1. CASE /\ loaded[n][m] # None /\ loaded[n][m].evicting
                 /\ ~\E r \in A : req[r].pc = "evict" /\ req[r].node = n /\ req[r].victim = m
        BY <1>1, <3>1 DEF EvictInv, MarkedIsUnused, Keeps
      <3>2. CASE /\ Pins(n, m) = {}
                 /\ \E r \in A : req'[r].pc = "evict" /\ req'[r].node = n /\ req'[r].victim = m
        BY <3>2
      <3> QED
        BY <3>1, <3>2 DEF EvictMove
    <2>2. ASSUME NEW r \in Req, r \in Pins(n, m)' PROVE FALSE
      <3>1. req'[r].pc = "serve" /\ req'[r].node = n /\ req'[r].model = m /\ req'[r].attached
        BY <2>2 DEF Pins, Streams
      <3>2. r \notin A
        BY <3>1 DEF EvictMove
      <3>3. r \in Pins(n, m)
        BY <1>1, <3>1, <3>2 DEF Keeps, Pins, Streams
      <3> QED
        BY <2>1, <3>3
    <2> QED
      BY <2>1, <2>2 DEF Pins, Streams
  <1>4. OneOnNode'
    <2>1. ASSUME NEW r \in Req, NEW q \in Req, req'[r].pc \in OnNode, req'[q].pc \in OnNode, req'[r].node = req'[q].node
          PROVE  r = q
      BY <1>1, <2>1 DEF EvictMove, EvictInv, OneOnNode, Keeps, NodeFree, OnNode
    <2>2. ASSUME NEW n \in Node, purge'[n] = "calling", NEW r \in Req, req'[r].pc \in OnNode
          PROVE  req'[r].node # n
      BY <1>1, <2>2 DEF EvictMove, EvictInv, OneOnNode, Keeps, NodeFree, OnNode
    <2> QED
      BY <2>1, <2>2 DEF OneOnNode
  <1>5. BootIsQuiet'
    <2> SUFFICES ASSUME NEW n \in Node, beat'[n].at = "boot"
                 PROVE  (\A r \in Req : req'[r].pc = "idle") /\ \A k \in Node : purge'[k] = "idle"
      BY DEF BootIsQuiet
    <2>1. beat[n].at = "boot" /\ (\A r \in Req : req[r].pc = "idle") /\ \A k \in Node : purge[k] = "idle"
      BY DEF EvictMove, EvictInv, BootIsQuiet
    <2>2. A = {} /\ ~Booted
      BY <2>1 DEF EvictMove, Booted
    <2> QED
      BY <1>1, <2>1, <2>2 DEF Keeps, EvictMove
  <1> QED
    BY <1>2, <1>3, <1>4, <1>5 DEF EvictInv

LEMMA BusyIsBooted ==
  ASSUME EvictInv, NEW r \in Req, req[r].pc # "idle"
  PROVE  Booted
  BY DEF EvictInv, BootIsQuiet, Booted

\* A request moves and no record is touched.
LEMMA EvictQuiet ==
  ASSUME ClusterTypeOK, RequestInv, EvictInv, NEW r \in Req, OnlyMove({r}), UNCHANGED <<loaded, purge, beat>>,
         req[r].pc # "idle" \/ Booted, req[r].pc # "evict", req'[r].pc # "evict",
         req'[r].pc \in OnNode =>
           \/ NodeFree(req'[r].node)
           \/ req[r].pc \in OnNode /\ req'[r].node = req[r].node,
         req'[r].pc = "serve" =>
           \/ loaded[req'[r].node][req'[r].model] = None
           \/ ~loaded[req'[r].node][req'[r].model].evicting
  PROVE  EvictInv'
  <1>1. EvictMove({r})
    BY BusyIsBooted DEF EvictMove
  <1> QED
    BY <1>1, EvictMoves

\* Nothing that the evictions depend on moves.
LEMMA EvictStays ==
  ASSUME ClusterTypeOK, RequestInv, EvictInv, OnlyMove({}), UNCHANGED <<loaded, purge>>,
         \A n \in Node : beat'[n].at = "boot" => beat[n].at = "boot"
  PROVE  EvictInv'
  <1>1. EvictMove({})
    BY DEF EvictMove
  <1> QED
    BY <1>1, EvictMoves

-----------------------------------------------------------------------------
(* Operations: between the choice of its identifier and the answer to its  *)
(* POST an operation is known to one request only                          *)

Alone(r) ==
  LET o == req[r].op
  IN  /\ \A k \in Node : ops[k][o] = None
      /\ \A post \in posts : post.op # o
      /\ \A q \in Req \ {r} : req[q].op # o
      /\ \A k \in Node, m \in Model :
           pending[k][m] # None /\ pending[k][m].op = o
             => k = req[r].node /\ m = req[r].model /\ ~pending[k][m].ack

PostAlone == \A r \in Req : req[r].pc = "post" => Alone(r)

\* A late POST is the only thing left of its operation.
LateUnknown ==
  \A post \in posts :
    /\ \A k \in Node : ops[k][post.op] = None
    /\ \A late \in posts : late.op = post.op => late = post

\* What an agent has acknowledged is not on its way any more.
AckedArrived ==
  \A k \in Node, m \in Model :
    pending[k][m] # None /\ pending[k][m].ack => \A post \in posts : post.op # pending[k][m].op

OpInv == PostAlone /\ LateUnknown /\ AckedArrived

\* What a step must respect, when the requests of A move.
OpMove(A) ==
  /\ \A r \in A : req'[r].pc = "post" => req'[r].op \in FreshOp
  /\ \A r \in A : \A q \in Req \ A : req[q].pc = "post" => req'[r].op # req[q].op
  /\ \A r, q \in A : r = q
  /\ \A k \in Node, o \in Op : ops'[k][o] # None =>
       \/ ops[k][o] # None
       \/ /\ \A q \in Req \ A : req[q].pc = "post" => req[q].op # o
          /\ \A r \in A : req'[r].pc # "post"
          /\ \A post \in posts' : post.op # o
  /\ \A post \in posts' :
       post \in posts \/ \E r \in A : /\ req[r].pc = "post" /\ post.op = req[r].op
                                      /\ \A late \in posts' : late.op = post.op => late = post
  /\ \A k \in Node, m \in Model : pending'[k][m] # None =>
       \/ pending[k][m] # None /\ pending'[k][m].op = pending[k][m].op /\ pending'[k][m].ack = pending[k][m].ack
       \/ \E r \in A : /\ req'[r].pc = "post" /\ k = req'[r].node /\ m = req'[r].model
                       /\ pending'[k][m].op = req'[r].op /\ ~pending'[k][m].ack
       \/ pending'[k][m].op \in Op /\ \E j \in Node : ops'[j][pending'[k][m].op] # None

LEMMA FreshOpUnused ==
  ASSUME ClusterTypeOK, NEW o \in FreshOp
  PROVE  /\ o \in Op
         /\ \A k \in Node : ops[k][o] = None
         /\ \A post \in posts : post.op # o
         /\ \A q \in Req : req[q].op # o
         /\ \A k \in Node, m \in Model : pending[k][m] # None => pending[k][m].op # o
  BY DEF FreshOp, Reservations

LEMMA OpMoves ==
  ASSUME ClusterTypeOK, RequestInv, OpInv, NEW A \in SUBSET Req, OnlyMove(A), OpMove(A), posts' \subseteq Post
  PROVE  OpInv'
  <1>1. \A r \in Req \ A : Keeps(req'[r], req[r])
    BY DEF OnlyMove
  <1>2. \A r \in Req : req'[r].pc = "post" => req'[r].op \in Op
    <2>1. RequestInv'
      BY RequestMoves
    <2> QED
      BY <2>1 DEF RequestInv, Sound
  <1>3. ASSUME NEW r \in Req, req'[r].pc = "post" PROVE \A k \in Node : ops'[k][req'[r].op] = None
    <2>1. CASE r \in A
      <3>1. \A k \in Node : ops[k][req'[r].op] = None
        BY <1>3, <2>1, FreshOpUnused DEF OpMove
      <3> QED
        BY <1>2, <1>3, <2>1, <3>1 DEF OpMove
    <2>2. CASE r \notin A
      <3>1. req[r].pc = "post" /\ req'[r].op = req[r].op /\ Alone(r)
        BY <1>1, <1>3, <2>2 DEF Keeps, OpInv, PostAlone
      <3> QED
        BY <1>2, <1>3, <2>2, <3>1 DEF OpMove, Alone
    <2> QED
      BY <2>1, <2>2
  <1>4. ASSUME NEW post \in posts', NEW k \in Node PROVE ops'[k][post.op] = None
    <2>1. post.op \in Op
      BY DEF Post
    <2>2. ops[k][post.op] = None
      BY DEF OpMove, OpInv, LateUnknown, PostAlone, Alone
    <2> QED
      BY <2>1, <2>2 DEF OpMove
  <1>5. ASSUME NEW post \in posts', NEW late \in posts', late.op = post.op PROVE late = post
    BY <1>5 DEF OpMove, OpInv, LateUnknown
  <1>6. ASSUME NEW r \in Req, req'[r].pc = "post" PROVE \A post \in posts' : post.op # req'[r].op
    <2>1. CASE r \in A
      <3>1. /\ \A post \in posts : post.op # req'[r].op
            /\ \A q \in Req : req[q].op # req'[r].op
        BY <1>6, <2>1, FreshOpUnused DEF OpMove
      <3> QED
        BY <3>1 DEF OpMove
    <2>2. CASE r \notin A
      <3>1. req[r].pc = "post" /\ req'[r].op = req[r].op /\ Alone(r)
        BY <1>1, <1>6, <2>2 DEF Keeps, OpInv, PostAlone
      <3> QED
        BY <2>2, <3>1 DEF OpMove, Alone
    <2> QED
      BY <2>1, <2>2
  <1>7. ASSUME NEW r \in Req, req'[r].pc = "post", NEW q \in Req \ {r} PROVE req'[q].op # req'[r].op
    <2>1. CASE r \in A
      BY <1>1, <1>7, <2>1, FreshOpUnused DEF OpMove, Keeps
    <2>2. CASE r \notin A
      <3>1. req[r].pc = "post" /\ req'[r].op = req[r].op /\ Alone(r)
        BY <1>1, <1>7, <2>2 DEF Keeps, OpInv, PostAlone
      <3> QED
        BY <1>1, <2>2, <3>1 DEF OpMove, Alone, Keeps
    <2> QED
      BY <2>1, <2>2
  <1>8. ASSUME NEW r \in Req, req'[r].pc = "post", NEW k \in Node, NEW m \in Model,
               pending'[k][m] # None, pending'[k][m].op = req'[r].op
        PROVE  k = req'[r].node /\ m = req'[r].model /\ ~pending'[k][m].ack
    <2>1. CASE pending[k][m] # None /\ pending'[k][m].op = pending[k][m].op /\ pending'[k][m].ack = pending[k][m].ack
      <3>1. CASE r \in A
        <4>1. req'[r].op \in FreshOp
          BY <1>8, <3>1 DEF OpMove
        <4>2. pending[k][m].op # req'[r].op
          BY <2>1, <4>1, FreshOpUnused
        <4> QED
          BY <1>8, <2>1, <4>2
      <3>2. CASE r \notin A
        <4>1. /\ req[r].pc = "post" /\ req'[r].op = req[r].op /\ req'[r].node = req[r].node
              /\ req'[r].model = req[r].model
          BY <1>1, <1>8, <3>2 DEF Keeps
        <4>2. Alone(r)
          BY <4>1 DEF OpInv, PostAlone
        <4> QED
          BY <1>8, <2>1, <4>1, <4>2 DEF Alone
      <3> QED
        BY <3>1, <3>2
    <2>2. CASE \E q \in A : /\ req'[q].pc = "post" /\ k = req'[q].node /\ m = req'[q].model
                            /\ pending'[k][m].op = req'[q].op /\ ~pending'[k][m].ack
      BY <1>7, <1>8, <2>2
    <2>3. CASE \E j \in Node : ops'[j][pending'[k][m].op] # None
      BY <1>3, <1>8, <2>3
    <2> QED
      BY <1>8, <2>1, <2>2, <2>3 DEF OpMove
  <1>9. ASSUME NEW k \in Node, NEW m \in Model, pending'[k][m] # None, pending'[k][m].ack, NEW post \in posts'
        PROVE  post.op # pending'[k][m].op
    <2>0. \/ pending[k][m] # None /\ pending'[k][m].op = pending[k][m].op /\ pending'[k][m].ack = pending[k][m].ack
          \/ \E j \in Node : ops'[j][pending'[k][m].op] # None
      BY <1>9 DEF OpMove
    <2>1. CASE pending[k][m] # None /\ pending'[k][m].op = pending[k][m].op /\ pending'[k][m].ack = pending[k][m].ack
      BY <1>9, <2>1 DEF OpMove, OpInv, AckedArrived, PostAlone, Alone
    <2>2. CASE \E j \in Node : ops'[j][pending'[k][m].op] # None
      BY <1>4, <1>9, <2>2
    <2> QED
      BY <2>0, <2>1, <2>2
  <1> QED
    BY <1>3, <1>4, <1>5, <1>6, <1>7, <1>8, <1>9 DEF OpInv, PostAlone, Alone, LateUnknown, AckedArrived

-----------------------------------------------------------------------------
(* What every step of the cluster keeps and respects                       *)

ClusterInv == ClusterTypeOK /\ LockInv /\ RequestInv /\ EvictInv /\ OpInv

SafeFailover ==
  \A n \in Node, m \in Model :
    LET op == pending[n][m].op
    IN  pending[n][m] # None /\ pending'[n][m] = None /\ Online(n) /\ epoch' = epoch
          => /\ ops'[n][op] # None => ops'[n][op].at \in Terminal
             /\ \A post \in posts' : post.op # op

Good == ClusterInv' /\ (\A k \in Node : RegisterStep(k)) /\ SafeFailover

LEMMA ClusterInvFacts ==
  ASSUME ClusterInv
  PROVE  /\ ClusterTypeOK /\ AgentTypeOK /\ AgentInv /\ LockInv /\ RequestInv /\ EvictInv /\ OpInv
         /\ req \in [Req -> Request]
  BY DEF ClusterInv, ClusterTypeOK, AgentInv

LEMMA Together ==
  ASSUME ClusterInv, AgentInv', ClusterTypeOK', EvictInv', \A k \in Node : RegisterStep(k), SafeFailover,
         NEW A \in SUBSET Req, OnlyMove(A), OpMove(A)
  PROVE  Good
  <1>1. posts' \subseteq Post
    BY DEF ClusterTypeOK
  <1>2. OpInv'
    BY <1>1, ClusterInvFacts, OpMoves
  <1>3. RequestInv'
    BY ClusterInvFacts, RequestMoves
  <1> QED
    BY <1>2, <1>3 DEF Good, ClusterInv, AgentInv

\* No reservation is withdrawn.
LEMMA NoWithdrawal ==
  ASSUME \A n \in Node, m \in Model : pending[n][m] # None => pending'[n][m] # None
  PROVE  SafeFailover
  BY DEF SafeFailover

LEMMA OpQuiet ==
  ASSUME ClusterInv, NEW r \in Req, OnlyMove({r}), UNCHANGED <<ops, posts>>,
         req'[r].pc # "post", req'[r].op \in {None, req[r].op},
         \A k \in Node, m \in Model : pending'[k][m] \in {None, pending[k][m]}
  PROVE  OpMove({r})
  <1>1. ASSUME NEW q \in Req \ {r}, req[q].pc = "post" PROVE req'[r].op # req[q].op
    <2>1. req[q].op \in Op /\ Alone(q)
      BY <1>1 DEF ClusterInv, RequestInv, Sound, OpInv, PostAlone
    <2> QED
      BY <2>1, AgentAssumption DEF Alone
  <1> QED
    BY <1>1 DEF OpMove

LEMMA OpStays ==
  ASSUME ClusterInv, OnlyMove({}), UNCHANGED <<ops, posts>>,
         \A k \in Node, m \in Model : pending'[k][m] \in {None, pending[k][m]}
  PROVE  OpMove({})
  BY DEF OpMove

LEMMA OpReserves ==
  ASSUME ClusterInv, NEW r \in Req, OnlyMove({r}), UNCHANGED <<ops, posts>>,
         req'[r].pc = "post", req'[r].op \in FreshOp,
         \A k \in Node, m \in Model :
           \/ pending'[k][m] = pending[k][m]
           \/ /\ k = req'[r].node /\ m = req'[r].model
              /\ pending'[k][m].op = req'[r].op /\ ~pending'[k][m].ack
  PROVE  OpMove({r})
  <1>1. ASSUME NEW q \in Req \ {r}, req[q].pc = "post" PROVE req'[r].op # req[q].op
    BY FreshOpUnused DEF ClusterInv
  <1> QED
    BY <1>1 DEF OpMove

\* A request moves; the agents, the records and the calls stay.
LEMMA RequestStepKeeps ==
  ASSUME ClusterInv, ClusterTypeOK', NEW r \in Req, OnlyMove({r}),
         UNCHANGED <<loaded, purge, beat, posts, agentVars>>, SafeFailover,
         req[r].pc # "idle" \/ Booted, req[r].pc # "evict", req'[r].pc \notin {"post", "evict"},
         req'[r].op \in {None, req[r].op},
         req'[r].pc \in OnNode =>
           \/ NodeFree(req'[r].node)
           \/ req[r].pc \in OnNode /\ req'[r].node = req[r].node,
         req'[r].pc = "serve" =>
           \/ loaded[req'[r].node][req'[r].model] = None
           \/ ~loaded[req'[r].node][req'[r].model].evicting,
         \A k \in Node, m \in Model : pending'[k][m] \in {None, pending[k][m]}
  PROVE  Good
  <1>1. ClusterTypeOK /\ RequestInv /\ EvictInv /\ AgentInv
    BY ClusterInvFacts
  <1>2. EvictInv'
    BY <1>1, EvictQuiet
  <1>3. UNCHANGED <<ops, server, builtFrom, agentLock>> /\ unloads' \in [Node -> SUBSET Model]
    BY <1>1 DEF agentVars, AgentInv, AgentTypeOK
  <1>4. AgentInv' /\ \A k \in Node : RegisterStep(k)
    BY <1>1, <1>3, QuietAgents
  <1>5. OpMove({r})
    BY <1>3, OpQuiet
  <1> QED
    BY <1>2, <1>4, <1>5, Together

-----------------------------------------------------------------------------
(* Arrivals, and a request that gets the lock of its model                 *)

LEMMA SpendTyped ==
  ASSUME left \in [Fault -> Nat \cup {None}], NEW f, Spend(f)
  PROVE  left' \in [Fault -> Nat \cup {None}]
  <1>1. CASE left[f] = None
    BY <1>1 DEF Spend
  <1>2. CASE left[f] # None
    <2>1. left[f] > 0 /\ left' = [left EXCEPT ![f] = left[f] - 1]
      BY <1>2 DEF Spend
    <2>2. f \in Fault => left[f] - 1 \in Nat
      BY <1>2, <2>1
    <2> QED
      BY <2>1, <2>2
  <1> QED
    BY <1>1, <1>2

LEMMA AgentTypesStay ==
  ASSUME AgentTypeOK, UNCHANGED agentVars
  PROVE  AgentTypeOK'
  BY DEF AgentTypeOK, agentVars

LEMMA AskKeeps ==
  ASSUME ClusterInv, NEW r \in Req, NEW m \in Model, Ask(r, m)
  PROVE  Good
  <1> DEFINE q == [Idle EXCEPT !.pc = "lock", !.model = m]
  <1>1. q \in Request /\ q.pc = "lock" /\ q.model = m /\ q.op = None /\ q.attached = FALSE
    BY IdleSound DEF Request, Pcs
  <1>2. req' = Become(r, q)
    BY Zenon DEF Ask
  <1> HIDE DEF q
  <1>3. Sound(q)
    BY <1>1 DEF Sound, OnNode
  <1>4. OnlyMove({r}) /\ req'[r] = q
    BY <1>1, <1>2, <1>3, BecomeMoves, ClusterInvFacts
  <1>5. /\ Booted /\ req[r].pc = "idle" /\ Spend("ask") /\ UNCHANGED <<book, placement, desired>>
        /\ UNCHANGED <<purge, beat, posts, version, epoch, agentVars>>
    BY DEF Ask, UnchangedWorld
  <1>6. UNCHANGED <<failures, avail, loaded, pending, suspect>>
    BY <1>5 DEF book
  <1>7. ClusterTypeOK'
    BY <1>4, <1>5, <1>6, SpendTyped, AgentTypesStay, ClusterInvFacts DEF ClusterTypeOK, OnlyMove
  <1>8. SafeFailover
    BY <1>6, NoWithdrawal
  <1> QED
    BY <1>1, <1>4, <1>5, <1>6, <1>7, <1>8, RequestStepKeeps DEF OnNode

LEMMA UnloadModelKeeps ==
  ASSUME ClusterInv, NEW r \in Req, NEW m \in Model, UnloadModel(r, m)
  PROVE  Good
  <1> DEFINE q == [Idle EXCEPT !.pc = "unlock", !.model = m, !.mode = "admin"]
  <1>1. q \in Request /\ q.pc = "unlock" /\ q.model = m /\ q.mode = "admin" /\ q.op = None /\ q.attached = FALSE
    BY IdleSound DEF Request, Pcs, Modes
  <1>2. req' = Become(r, q)
    BY Zenon DEF UnloadModel
  <1> HIDE DEF q
  <1>3. Sound(q)
    BY <1>1 DEF Sound, OnNode
  <1>4. OnlyMove({r}) /\ req'[r] = q
    BY <1>1, <1>2, <1>3, BecomeMoves, ClusterInvFacts
  <1>5. /\ Booted /\ req[r].pc = "idle" /\ Spend("unload") /\ UNCHANGED <<book, placement, desired>>
        /\ UNCHANGED <<purge, beat, posts, version, epoch, agentVars>>
    BY DEF UnloadModel, UnchangedWorld
  <1>6. UNCHANGED <<failures, avail, loaded, pending, suspect>>
    BY <1>5 DEF book
  <1>7. ClusterTypeOK'
    BY <1>4, <1>5, <1>6, SpendTyped, AgentTypesStay, ClusterInvFacts DEF ClusterTypeOK, OnlyMove
  <1>8. SafeFailover
    BY <1>6, NoWithdrawal
  <1> QED
    BY <1>1, <1>4, <1>5, <1>6, <1>7, <1>8, RequestStepKeeps DEF OnNode

\* With the lock of the model: the identity is fixed, then one branch is taken.
LEMMA IdentityTyped ==
  ASSUME ClusterInv, NEW m \in Model
  PROVE  IdentityOf(m) \in Identity
  <1>1. version[m] \in Nat /\ epoch \in Nat /\ desired[m] \in Identity \cup {None}
    BY ClusterInvFacts DEF ClusterTypeOK
  <1>2. [digest |-> version[m], generation |-> epoch] \in Identity
    BY <1>1 DEF Identity
  <1> QED
    BY <1>1, <1>2 DEF IdentityOf

LEMMA EnterMoves ==
  ASSUME ClusterInv, NEW r \in Req, NEW m \in Model, NEW q \in Request, Sound(q), Enter(r, m, q)
  PROVE  /\ OnlyMove({r}) /\ req'[r] = q
         /\ req[r].pc = "lock" /\ req[r].model = m /\ ModelFree(m)
         /\ desired' \in [Model -> Identity \cup {None}]
         /\ left' = left
         /\ UNCHANGED <<purge, beat, posts, version, epoch, agentVars>>
  <1>1. /\ req[r].pc = "lock" /\ req[r].model = m /\ ModelFree(m) /\ left' = left
        /\ UNCHANGED <<purge, beat, posts, version, epoch, agentVars>>
        /\ req' = Become(r, q) /\ desired' = [desired EXCEPT ![m] = IdentityOf(m)]
    BY DEF Enter, UnchangedWorld
  <1>2. desired' \in [Model -> Identity \cup {None}]
    BY <1>1, IdentityTyped, ClusterInvFacts DEF ClusterTypeOK
  <1> QED
    BY <1>1, <1>2, BecomeMoves, ClusterInvFacts

LEMMA RefuseKeeps ==
  ASSUME ClusterInv, NEW r \in Req, NEW m \in Model, Refuse(r, m)
  PROVE  Good
  <1>1. Enter(r, m, Idle) /\ UNCHANGED <<book, placement>>
    BY DEF Refuse
  <1>2. UNCHANGED <<failures, avail, loaded, pending, suspect, placement>>
    BY <1>1 DEF book
  <1>3. /\ OnlyMove({r}) /\ req'[r] = Idle /\ req[r].pc = "lock"
        /\ desired' \in [Model -> Identity \cup {None}] /\ left' = left
        /\ UNCHANGED <<purge, beat, posts, version, epoch, agentVars>>
    BY <1>1, IdleSound, EnterMoves
  <1>4. ClusterTypeOK'
    BY <1>2, <1>3, AgentTypesStay, ClusterInvFacts DEF ClusterTypeOK, OnlyMove
  <1>5. SafeFailover
    BY <1>2, NoWithdrawal
  <1> QED
    BY <1>2, <1>3, <1>4, <1>5, IdleSound, RequestStepKeeps DEF OnNode

\* The agents do nothing: a step of the gateway.
LEMMA GatewayStep ==
  ASSUME ClusterInv, ClusterTypeOK', EvictInv', UNCHANGED <<ops, server, builtFrom, agentLock>>, SafeFailover,
         NEW A \in SUBSET Req, OnlyMove(A), OpMove(A)
  PROVE  Good
  <1>1. AgentInv' /\ \A k \in Node : RegisterStep(k)
    BY QuietAgents, ClusterInvFacts DEF ClusterTypeOK, AgentTypeOK
  <1> QED
    BY <1>1, Together

LEMMA PendingTyped ==
  ASSUME ClusterInv, NEW n \in Node, NEW m \in Model, pending[n][m] # None
  PROVE  /\ pending[n][m] \in Reservation /\ pending[n][m].op \in Op /\ pending[n][m].id \in Identity
         /\ pending[n][m].ack \in BOOLEAN /\ pending[n][m].told \in BOOLEAN
  BY ClusterInvFacts DEF ClusterTypeOK, Reservation

LEMMA ResumeKeeps ==
  ASSUME ClusterInv, NEW r \in Req, NEW m \in Model, Resume(r, m)
  PROVE  Good
  <1>1. PICK n \in Node : /\ n \in Reserved(m)
                          /\ Enter(r, m, [req[r] EXCEPT !.pc = "resume", !.mode = "resume", !.node = n,
                                !.id = pending[n][m].id, !.op = pending[n][m].op, !.told = pending[n][m].told])
    BY Zenon DEF Resume, Reserved
  <1> DEFINE q == [req[r] EXCEPT !.pc = "resume", !.mode = "resume", !.node = n,
                     !.id = pending[n][m].id, !.op = pending[n][m].op, !.told = pending[n][m].told]
  <1>2. req[r] \in Request /\ Sound(req[r]) /\ pending[n][m] # None
    BY <1>1, ClusterInvFacts DEF RequestInv, Reserved
  <1>3. req[r].pc = "lock" /\ req[r].model = m
    BY <1>1 DEF Enter
  <1>4. /\ q \in Request /\ q.pc = "resume" /\ q.model = m /\ q.node = n /\ q.id = pending[n][m].id
        /\ q.op = pending[n][m].op /\ q.attached = req[r].attached
    <2> DEFINE p == req[r]  i == pending[n][m].id  o == pending[n][m].op  t == pending[n][m].told
    <2>1. p \in Request /\ i \in Identity /\ o \in Op /\ t \in BOOLEAN
      BY <1>2, PendingTyped
    <2>2. q = [p EXCEPT !.pc = "resume", !.mode = "resume", !.node = n, !.id = i, !.op = o, !.told = t]
      OBVIOUS
    <2> HIDE DEF p, i, o, t, q
    <2>3. /\ q \in Request /\ q.pc = "resume" /\ q.model = p.model /\ q.node = n /\ q.id = i
          /\ q.op = o /\ q.attached = p.attached
      BY <2>1, <2>2 DEF Request, Pcs, Modes
    <2> QED
      BY <1>3, <2>3 DEF p, i, o
  <1>5. Enter(r, m, q)
    BY <1>1
  <1> HIDE DEF q
  <1>6. Sound(q)
    BY <1>2, <1>3, <1>4, PendingTyped DEF Sound, OnNode
  <1>7. /\ OnlyMove({r}) /\ req'[r] = q /\ ModelFree(m)
        /\ desired' \in [Model -> Identity \cup {None}] /\ left' = left
        /\ UNCHANGED <<purge, beat, posts, version, epoch, agentVars>>
    BY <1>4, <1>5, <1>6, EnterMoves
  <1>8. UNCHANGED <<failures, avail, loaded, pending, suspect, placement>>
    BY DEF Resume, book
  <1>9. ClusterTypeOK'
    BY <1>7, <1>8, AgentTypesStay, ClusterInvFacts DEF ClusterTypeOK, OnlyMove
  <1>10. SafeFailover
    BY <1>8, NoWithdrawal
  <1>11. EvictInv'
    BY <1>3, <1>4, <1>7, <1>8, ClusterInvFacts, EvictQuiet DEF OnNode
  <1>12. ASSUME NEW p \in Req \ {r}, req[p].pc = "post" PROVE q.op # req[p].op
    <2>1. req[p].model # m /\ Alone(p)
      BY <1>7, <1>12, ClusterInvFacts DEF ModelFree, OpInv, PostAlone
    <2> QED
      BY <1>2, <1>4, <2>1 DEF Alone
  <1>13. ops' = ops
    BY <1>7 DEF agentVars
  <1>14. OpMove({r})
    BY <1>4, <1>7, <1>8, <1>12, <1>13 DEF OpMove
  <1> QED
    BY <1>7, <1>9, <1>10, <1>11, <1>14, GatewayStep DEF agentVars

LEMMA RoutedTyped ==
  ASSUME ClusterInv, NEW m \in Model, Routed(m) # None
  PROVE  placement[m] \in Node /\ Routed(m) = loaded[placement[m]][m] /\ Routed(m) \in Info
  BY ClusterInvFacts DEF ClusterTypeOK, Routed

LEMMA ServeKeeps ==
  ASSUME ClusterInv, NEW r \in Req, NEW m \in Model, Serve(r, m)
  PROVE  Good
  <1> DEFINE q == [Idle EXCEPT !.pc = "serve", !.model = m, !.node = placement[m],
                               !.id = IdentityOf(m), !.attached = TRUE]
  <1>1. Routable(m) /\ Enter(r, m, q) /\ UNCHANGED <<book, placement>>
    BY Zenon DEF Serve, FastPath
  <1>2. placement[m] \in Node /\ ~loaded[placement[m]][m].evicting
    BY <1>1, RoutedTyped DEF Routable
  <1>3. /\ q \in Request /\ q.pc = "serve" /\ q.model = m /\ q.node = placement[m] /\ q.id \in Identity
        /\ q.op = None
    BY <1>2, IdleSound, IdentityTyped DEF Request, Pcs
  <1> HIDE DEF q
  <1>4. Sound(q)
    BY <1>2, <1>3 DEF Sound, OnNode
  <1>5. /\ OnlyMove({r}) /\ req'[r] = q /\ req[r].pc = "lock"
        /\ desired' \in [Model -> Identity \cup {None}] /\ left' = left
        /\ UNCHANGED <<purge, beat, posts, version, epoch, agentVars>>
    <2>1. Enter(r, m, q)
      BY <1>1
    <2> QED
      BY <1>3, <1>4, <2>1, EnterMoves
  <1>6. UNCHANGED <<failures, avail, loaded, pending, suspect, placement>>
    BY <1>1 DEF book
  <1>7. ClusterTypeOK'
    BY <1>5, <1>6, AgentTypesStay, ClusterInvFacts DEF ClusterTypeOK, OnlyMove
  <1>8. SafeFailover
    BY <1>6, NoWithdrawal
  <1> QED
    BY <1>2, <1>3, <1>5, <1>6, <1>7, <1>8, RequestStepKeeps DEF OnNode

LEMMA RefreshKeeps ==
  ASSUME ClusterInv, NEW r \in Req, NEW m \in Model, Refresh(r, m)
  PROVE  Good
  <1> DEFINE q == [req[r] EXCEPT !.pc = "refresh", !.mode = "refresh", !.node = placement[m],
                                 !.id = IdentityOf(m)]
  <1>1. Routable(m) /\ Enter(r, m, q) /\ UNCHANGED <<book, placement>>
    BY Zenon DEF Refresh
  <1>2. placement[m] \in Node /\ req[r].pc = "lock" /\ req[r].model = m /\ req[r] \in Request /\ Sound(req[r])
    BY <1>1, RoutedTyped, ClusterInvFacts DEF Routable, Enter, RequestInv
  <1>3. /\ q \in Request /\ q.pc = "refresh" /\ q.model = m /\ q.node = placement[m] /\ q.id \in Identity
        /\ q.op = req[r].op /\ q.attached = req[r].attached
    BY <1>2, IdentityTyped DEF Request, Pcs, Modes
  <1> HIDE DEF q
  <1>4. Sound(q)
    BY <1>2, <1>3 DEF Sound, OnNode
  <1>5. /\ OnlyMove({r}) /\ req'[r] = q
        /\ desired' \in [Model -> Identity \cup {None}] /\ left' = left
        /\ UNCHANGED <<purge, beat, posts, version, epoch, agentVars>>
    <2>1. Enter(r, m, q)
      BY <1>1
    <2> QED
      BY <1>3, <1>4, <2>1, EnterMoves
  <1>6. UNCHANGED <<failures, avail, loaded, pending, suspect, placement>>
    BY <1>1 DEF book
  <1>7. ClusterTypeOK'
    BY <1>5, <1>6, AgentTypesStay, ClusterInvFacts DEF ClusterTypeOK, OnlyMove
  <1>8. SafeFailover
    BY <1>6, NoWithdrawal
  <1> QED
    BY <1>2, <1>3, <1>5, <1>6, <1>7, <1>8, RequestStepKeeps DEF OnNode

LEMMA AvoidedNodes == \A m : Avoided(m) \in SUBSET Node
  BY DEF Avoided

LEMMA UnusableKeeps ==
  ASSUME ClusterInv, NEW r \in Req, NEW m \in Model, Unusable(r, m)
  PROVE  Good
  <1> DEFINE q == [req[r] EXCEPT !.pc = "place", !.mode = "load", !.id = IdentityOf(m), !.avoid = Avoided(m)]
  <1>1. Enter(r, m, q)
    BY Zenon DEF Unusable
  <1>2. req[r].pc = "lock" /\ req[r].model = m /\ req[r] \in Request /\ Sound(req[r])
    BY <1>1, ClusterInvFacts DEF Enter, RequestInv
  <1>3. /\ q \in Request /\ q.pc = "place" /\ q.model = m /\ q.mode = "load" /\ q.id \in Identity
        /\ q.op = req[r].op /\ q.attached = req[r].attached
    BY <1>2, IdentityTyped, AvoidedNodes DEF Request, Pcs, Modes
  <1> HIDE DEF q
  <1>4. Sound(q)
    BY <1>2, <1>3 DEF Sound, OnNode
  <1>5. /\ OnlyMove({r}) /\ req'[r] = q
        /\ desired' \in [Model -> Identity \cup {None}] /\ left' = left
        /\ UNCHANGED <<purge, beat, posts, version, epoch, agentVars>>
    BY <1>1, <1>3, <1>4, EnterMoves
  <1>6. /\ UNCHANGED <<failures, avail, loaded, pending>>
        /\ suspect' \in [Node -> SUBSET Model] /\ placement' \in [Model -> Node \cup {None}]
    BY RoutedTyped, ClusterInvFacts DEF Unusable, ClusterTypeOK
  <1>7. ClusterTypeOK'
    BY <1>5, <1>6, AgentTypesStay, ClusterInvFacts DEF ClusterTypeOK, OnlyMove
  <1>8. SafeFailover
    BY <1>6, NoWithdrawal
  <1> QED
    BY <1>2, <1>3, <1>5, <1>6, <1>7, <1>8, RequestStepKeeps DEF OnNode

LEMMA DecideKeeps ==
  ASSUME ClusterInv, NEW r \in Req, NEW m \in Model, Decide(r, m)
  PROVE  Good
  BY RefuseKeeps, ResumeKeeps, ServeKeeps, RefreshKeeps, UnusableKeeps DEF Decide

-----------------------------------------------------------------------------
(* Placing a load                                                          *)

LEMMA FreshChosen ==
  ASSUME FreshOp # {}
  PROVE  (CHOOSE o \in FreshOp : TRUE) \in FreshOp
  OBVIOUS

\* A request that gets the lock of a node reserves its place and sends its POST.
LEMMA ReserveKeeps ==
  ASSUME ClusterInv, NEW r \in Req, NEW n \in Node, NEW op \in FreshOp, Reserve(r, n, op),
         req[r].pc \in {"place", "refresh"}, NodeFree(n),
         UNCHANGED <<placement, desired, left, purge, beat, posts, version, epoch, agentVars>>
  PROVE  Good
  <1> DEFINE q == [req[r] EXCEPT !.pc = "post", !.node = n, !.op = op, !.told = FALSE]
             m == req[r].model
             p == [op |-> op, id |-> req[r].id, ack |-> FALSE, told |-> FALSE]
  <1>1. req' = Become(r, q) /\ pending' = [pending EXCEPT ![n][m] = p]
    BY Zenon DEF Reserve
  <1>2. req[r] \in Request /\ Sound(req[r]) /\ op \in Op
    BY ClusterInvFacts, FreshOpUnused DEF RequestInv
  <1>3. /\ q \in Request /\ q.pc = "post" /\ q.model = m /\ q.node = n /\ q.op = op /\ q.id = req[r].id
        /\ q.attached = req[r].attached /\ q.mode = req[r].mode
    BY <1>2 DEF Request, Pcs
  <1>4. m \in Model /\ req[r].id \in Identity
    BY <1>2 DEF Sound
  <1>5. p \in Reservation /\ p.op = op /\ ~p.ack
    BY <1>2, <1>4 DEF Reservation
  <1> HIDE DEF q, p
  <1>6. Sound(q)
    BY <1>2, <1>3, <1>4 DEF Sound, OnNode
  <1>7. OnlyMove({r}) /\ req'[r] = q
    BY <1>1, <1>3, <1>6, BecomeMoves, ClusterInvFacts
  <1>8. /\ pending' \in [Node -> [Model -> Reservation \cup {None}]]
        /\ pending'[n][m] = p
        /\ \A k \in Node, l \in Model : k # n \/ l # m => pending'[k][l] = pending[k][l]
    BY <1>1, <1>4, <1>5, ClusterInvFacts DEF ClusterTypeOK
  <1>9. UNCHANGED <<failures, avail, loaded, suspect>>
    BY DEF Reserve
  <1>10. ClusterTypeOK'
    BY <1>7, <1>8, <1>9, AgentTypesStay, ClusterInvFacts DEF ClusterTypeOK, OnlyMove
  <1>11. SafeFailover
    <2>1. p # None
      BY <1>5, ClusterAssumption
    <2> QED
      BY <1>8, <2>1, NoWithdrawal
  <1>12. EvictInv'
    BY <1>3, <1>7, <1>9, ClusterInvFacts, EvictQuiet DEF OnNode
  <1>13. OpMove({r})
    BY <1>3, <1>5, <1>7, <1>8, OpReserves DEF agentVars
  <1> QED
    BY <1>7, <1>10, <1>11, <1>12, <1>13, GatewayStep DEF agentVars

LEMMA PlaceAtOnceKeeps ==
  ASSUME ClusterInv, NEW r \in Req, NEW n \in Node, PlaceAtOnce(r, n)
  PROVE  Good
  <1>1. \E op \in FreshOp : Reserve(r, n, op)
    BY FreshChosen, Zenon DEF PlaceAtOnce
  <1>2. /\ req[r].pc = "place" /\ NodeFree(n)
        /\ UNCHANGED <<placement, desired, left, purge, beat, posts, version, epoch, agentVars>>
    BY DEF PlaceAtOnce, UnchangedWorld
  <1> QED
    BY <1>1, <1>2, ReserveKeeps

LEMMA BeginRefreshKeeps ==
  ASSUME ClusterInv, NEW r \in Req, BeginRefresh(r)
  PROVE  Good
  <1>1. \E op \in FreshOp : Reserve(r, req[r].node, op)
    BY FreshChosen, Zenon DEF BeginRefresh
  <1>2. /\ req[r].pc = "refresh" /\ NodeFree(req[r].node)
        /\ UNCHANGED <<placement, desired, left, purge, beat, posts, version, epoch, agentVars>>
    BY DEF BeginRefresh, UnchangedWorld
  <1>3. req[r].node \in Node
    BY <1>2, ClusterInvFacts DEF RequestInv, Sound
  <1> QED
    BY <1>1, <1>2, <1>3, ReserveKeeps

LEMMA BeginResumeKeeps ==
  ASSUME ClusterInv, NEW r \in Req, BeginResume(r)
  PROVE  Good
  <1> DEFINE q == [req[r] EXCEPT !.pc = "poll"]
  <1>1. /\ req[r].pc = "resume" /\ NodeFree(req[r].node) /\ req' = Become(r, q)
        /\ UNCHANGED <<book, placement, desired, left, purge, beat, posts, version, epoch, agentVars>>
    BY Zenon DEF BeginResume, UnchangedWorld, Goto
  <1>2. req[r] \in Request /\ Sound(req[r])
    BY ClusterInvFacts DEF RequestInv
  <1>3. /\ q \in Request /\ q.pc = "poll" /\ q.model = req[r].model /\ q.node = req[r].node /\ q.op = req[r].op
        /\ q.id = req[r].id /\ q.attached = req[r].attached
    BY <1>2 DEF Request, Pcs
  <1> HIDE DEF q
  <1>4. Sound(q)
    BY <1>1, <1>2, <1>3 DEF Sound, OnNode
  <1>5. OnlyMove({r}) /\ req'[r] = q
    BY <1>1, <1>3, <1>4, BecomeMoves, ClusterInvFacts
  <1>6. UNCHANGED <<failures, avail, loaded, pending, suspect>>
    BY <1>1 DEF book
  <1>7. ClusterTypeOK'
    BY <1>1, <1>5, <1>6, AgentTypesStay, ClusterInvFacts DEF ClusterTypeOK, OnlyMove
  <1>8. SafeFailover
    BY <1>6, NoWithdrawal
  <1> QED
    BY <1>1, <1>3, <1>5, <1>6, <1>7, <1>8, RequestStepKeeps DEF OnNode

LEMMA NoPlacementKeeps ==
  ASSUME ClusterInv, NEW r \in Req, NoPlacement(r)
  PROVE  Good
  <1> DEFINE q == [req[r] EXCEPT !.avoid = {}]
  <1>1. /\ req[r].pc = "place" /\ (req' = Become(r, q) \/ req' = Answer(r))
        /\ UNCHANGED <<book, placement, desired, left, purge, beat, posts, version, epoch, agentVars>>
    BY Zenon DEF NoPlacement, UnchangedWorld
  <1>2. req[r] \in Request /\ Sound(req[r])
    BY ClusterInvFacts DEF RequestInv
  <1>3. /\ q \in Request /\ q.pc = req[r].pc /\ q.model = req[r].model /\ q.node = req[r].node /\ q.op = req[r].op
        /\ q.id = req[r].id /\ q.attached = req[r].attached /\ q.mode = req[r].mode
    BY <1>2 DEF Request
  <1> HIDE DEF q
  <1>4. Sound(q)
    BY <1>1, <1>2, <1>3 DEF Sound, OnNode
  <1>5. OnlyMove({r}) /\ req'[r].pc \in {"place", "idle"} /\ req'[r].op \in {None, req[r].op}
    BY <1>1, <1>3, <1>4, BecomeMoves, AnswerMoves, IdleSound, ClusterInvFacts
  <1>6. UNCHANGED <<failures, avail, loaded, pending, suspect>>
    BY <1>1 DEF book
  <1>7. ClusterTypeOK'
    BY <1>1, <1>5, <1>6, AgentTypesStay, ClusterInvFacts DEF ClusterTypeOK, OnlyMove
  <1>8. SafeFailover
    BY <1>6, NoWithdrawal
  <1> QED
    BY <1>1, <1>5, <1>6, <1>7, <1>8, RequestStepKeeps DEF OnNode

-----------------------------------------------------------------------------
(* Evictions                                                               *)

LEMMA AgentFreeTyped == \A n \in Node : AgentFree(n) \in 0..Places
  <1> SUFFICES ASSUME NEW n \in Node PROVE AgentFree(n) \in 0..Places
    OBVIOUS
  <1>1. IsFiniteSet(Managers(n))
    BY AgentAssumption, FS_Subset DEF Managers
  <1>2. Cardinality(Managers(n)) \in Nat
    BY <1>1, FS_CardinalityType
  <1> QED
    BY <1>2, AgentAssumption DEF AgentFree, AtLeast0

LEMMA UnloadsTyped ==
  ASSUME AgentTypeOK, NEW n \in Node, NEW v \in Model, unloads' = [unloads EXCEPT ![n] = @ \cup {v}],
         UNCHANGED <<ops, server, builtFrom, agentLock>>
  PROVE  AgentTypeOK'
  BY DEF AgentTypeOK

\* A request marks an idle record and tells the agent.
LEMMA MarkKeeps ==
  ASSUME ClusterInv, NEW r \in Req, NEW n \in Node, NEW v \in Model, NEW q \in Request, Sound(q),
         req' = Become(r, q), MarkEvicting(n, v), unloads' = [unloads EXCEPT ![n] = @ \cup {v}],
         req[r].pc \in {"place", "drop"}, NodeFree(n), loaded[n][v] # None, Pins(n, v) = {},
         q.pc = "evict", q.node = n, q.victim = v,
         UNCHANGED <<placement, desired, left, purge, beat, posts, version, epoch, ops, server, builtFrom, agentLock>>
  PROVE  Good
  <1> DEFINE p == [loaded[n][v] EXCEPT !.evicting = TRUE]
  <1>1. loaded' = [loaded EXCEPT ![n][v] = p] /\ UNCHANGED <<failures, avail, pending, suspect>>
    BY Zenon DEF MarkEvicting
  <1>2. loaded[n][v] \in Info
    BY ClusterInvFacts DEF ClusterTypeOK
  <1>3. p \in Info
    BY <1>2 DEF Info
  <1>4. p # None
    BY <1>3, ClusterAssumption
  <1> HIDE DEF p
  <1>5. /\ loaded' \in [Node -> [Model -> Info \cup {None}]]
        /\ loaded'[n][v] = p
        /\ \A k \in Node, l \in Model : k # n \/ l # v => loaded'[k][l] = loaded[k][l]
    BY <1>1, <1>3, ClusterInvFacts DEF ClusterTypeOK
  <1>6. OnlyMove({r}) /\ req'[r] = q
    BY BecomeMoves, ClusterInvFacts
  <1>7. AgentTypeOK'
    BY UnloadsTyped, ClusterInvFacts
  <1>8. ClusterTypeOK'
    BY <1>1, <1>5, <1>6, <1>7, ClusterInvFacts DEF ClusterTypeOK, OnlyMove
  <1>9. SafeFailover
    BY <1>1, NoWithdrawal
  <1>10. Booted
    BY BusyIsBooted, ClusterInvFacts
  <1>11. EvictMove({r})
    BY <1>4, <1>5, <1>6, <1>10 DEF EvictMove, OnNode
  <1>12. EvictInv'
    BY <1>6, <1>11, ClusterInvFacts, EvictMoves
  <1>13. q.op = None
    BY DEF Sound
  <1>14. OpMove({r})
    BY <1>1, <1>6, <1>13, OpQuiet
  <1> QED
    BY <1>6, <1>8, <1>9, <1>12, <1>14, GatewayStep

LEMMA PlaceByEvictionKeeps ==
  ASSUME ClusterInv, NEW r \in Req, NEW n \in Node, NEW v \in Model, PlaceByEviction(r, n, v)
  PROVE  Good
  <1> DEFINE q == [req[r] EXCEPT !.pc = "evict", !.node = n, !.victim = v]
  <1>1. req' = Become(r, q)
    BY Zenon DEF PlaceByEviction
  <1>2. /\ req[r].pc = "place" /\ NodeFree(n) /\ v \in Evictable(n) /\ MarkEvicting(n, v)
        /\ unloads' = [unloads EXCEPT ![n] = @ \cup {v}]
        /\ UNCHANGED <<placement, desired, left, purge, beat, posts, version, epoch, ops, server, builtFrom, agentLock>>
    BY DEF PlaceByEviction
  <1>3. req[r] \in Request /\ Sound(req[r])
    BY ClusterInvFacts DEF RequestInv
  <1>4. /\ q \in Request /\ q.pc = "evict" /\ q.model = req[r].model /\ q.node = n /\ q.op = req[r].op
        /\ q.victim = v /\ q.id = req[r].id /\ q.attached = req[r].attached /\ q.mode = req[r].mode
    BY <1>3 DEF Request, Pcs
  <1> HIDE DEF q
  <1>5. Sound(q)
    BY <1>2, <1>3, <1>4 DEF Sound, OnNode
  <1>6. loaded[n][v] # None /\ Pins(n, v) = {}
    BY <1>2 DEF Evictable
  <1> QED
    BY <1>1, <1>2, <1>4, <1>5, <1>6, MarkKeeps

LEMMA UnloadPlacedKeeps ==
  ASSUME ClusterInv, NEW r \in Req, UnloadPlaced(r)
  PROVE  Good
  <1> DEFINE m == req[r].model
             q == [req[r] EXCEPT !.pc = "drop", !.node = placement[m]]
  <1>1. /\ req[r].pc = "unlock"
        /\ req' = Answer(r) \/ (placement[m] # None /\ req' = Become(r, q))
        /\ UNCHANGED <<book, placement, desired, left, purge, beat, posts, version, epoch, agentVars>>
    BY Zenon DEF UnloadPlaced, UnchangedWorld
  <1>2. req[r] \in Request /\ Sound(req[r])
    BY ClusterInvFacts DEF RequestInv
  <1>3. ASSUME placement[m] # None, req' = Become(r, q)
        PROVE  OnlyMove({r}) /\ req'[r].pc = "drop" /\ req'[r].op = req[r].op
    <2>1. placement[m] \in Node
      BY <1>1, <1>2, <1>3, ClusterInvFacts DEF ClusterTypeOK, Sound
    <2>2. /\ q \in Request /\ q.pc = "drop" /\ q.model = m /\ q.node = placement[m] /\ q.op = req[r].op
          /\ q.attached = req[r].attached /\ q.mode = req[r].mode
      BY <1>2, <2>1 DEF Request, Pcs
    <2>3. req' = Become(r, q)
      BY <1>3
    <2> HIDE DEF q
    <2>4. Sound(q)
      BY <1>1, <1>2, <2>1, <2>2 DEF Sound, OnNode
    <2> QED
      BY <2>2, <2>3, <2>4, BecomeMoves, ClusterInvFacts
  <1>4. OnlyMove({r}) /\ req'[r].pc \in {"drop", "idle"} /\ req'[r].op \in {None, req[r].op}
    BY <1>1, <1>3, AnswerMoves, IdleSound, ClusterInvFacts
  <1>5. UNCHANGED <<failures, avail, loaded, pending, suspect>>
    BY <1>1 DEF book
  <1>6. ClusterTypeOK'
    BY <1>1, <1>4, <1>5, AgentTypesStay, ClusterInvFacts DEF ClusterTypeOK, OnlyMove
  <1>7. SafeFailover
    BY <1>5, NoWithdrawal
  <1> QED
    BY <1>1, <1>4, <1>5, <1>6, <1>7, RequestStepKeeps DEF OnNode

LEMMA UnroutedTyped ==
  ASSUME ClusterInv, NEW m \in Model, NEW n
  PROVE  Unroute(m, n) \in Node \cup {None}
  BY ClusterInvFacts DEF ClusterTypeOK, Unroute

LEMMA UnloadOnNodeKeeps ==
  ASSUME ClusterInv, NEW r \in Req, UnloadOnNode(r)
  PROVE  Good
  <1> DEFINE m == req[r].model  n == req[r].node
             q == [req[r] EXCEPT !.pc = "evict", !.victim = m]
  <1>1. /\ req[r].pc = "drop" /\ NodeFree(n)
        /\ UNCHANGED <<desired, left, purge, beat, posts, version, epoch, ops, server, builtFrom, agentLock>>
    BY DEF UnloadOnNode
  <1>2. req[r] \in Request /\ Sound(req[r])
    BY ClusterInvFacts DEF RequestInv
  <1>3. m \in Model /\ n \in Node
    BY <1>1, <1>2 DEF Sound
  <1>4. CASE loaded[n][m] = None \/ Pins(n, m) # {}
    <2>1. /\ req' = Answer(r) /\ UNCHANGED <<book, unloads>>
          /\ placement' = IF loaded[n][m] = None THEN [placement EXCEPT ![m] = Unroute(m, n)] ELSE placement
      BY <1>4, Zenon DEF UnloadOnNode
    <2>2. OnlyMove({r}) /\ req'[r] = Idle
      BY <2>1, AnswerMoves, ClusterInvFacts
    <2>3. placement' \in [Model -> Node \cup {None}]
      BY <2>1, <1>3, UnroutedTyped, ClusterInvFacts DEF ClusterTypeOK
    <2>4. UNCHANGED <<failures, avail, loaded, pending, suspect>> /\ UNCHANGED agentVars
      BY <1>1, <2>1 DEF book, agentVars
    <2>5. ClusterTypeOK'
      BY <1>1, <2>2, <2>3, <2>4, AgentTypesStay, ClusterInvFacts DEF ClusterTypeOK, OnlyMove
    <2>6. SafeFailover
      BY <2>4, NoWithdrawal
    <2> QED
      BY <1>1, <2>2, <2>4, <2>5, <2>6, IdleSound, RequestStepKeeps DEF OnNode
  <1>5. CASE ~(loaded[n][m] = None \/ Pins(n, m) # {})
    <2>1. /\ req' = Become(r, q) /\ MarkEvicting(n, m) /\ unloads' = [unloads EXCEPT ![n] = @ \cup {m}]
          /\ placement' = placement
      BY <1>5, Zenon DEF UnloadOnNode
    <2>2. /\ q \in Request /\ q.pc = "evict" /\ q.model = m /\ q.node = n /\ q.op = req[r].op
          /\ q.victim = m /\ q.attached = req[r].attached /\ q.mode = req[r].mode
      BY <1>2, <1>3 DEF Request, Pcs
    <2> HIDE DEF q
    <2>3. Sound(q)
      BY <1>1, <1>2, <1>3, <2>2, AgentAssumption, ClusterAssumption DEF Sound, OnNode
    <2> QED
      BY <1>1, <1>3, <1>5, <2>1, <2>2, <2>3, MarkKeeps
  <1> QED
    BY <1>4, <1>5

LEMMA GoneKeeps ==
  ASSUME ClusterInv, NEW r \in Req, NEW free \in 0..Places, req[r].pc = "evict", Gone(r, free),
         unloads' \in [Node -> SUBSET Model], left' \in [Fault -> Nat \cup {None}],
         UNCHANGED <<desired, purge, beat, posts, version, epoch, ops, server, builtFrom, agentLock>>
  PROVE  Good
  <1> DEFINE n == req[r].node  v == req[r].victim  m == req[r].model
  <1>1. req[r] \in Request /\ Sound(req[r])
    BY ClusterInvFacts DEF RequestInv
  <1>2. n \in Node /\ v \in Model /\ m \in Model
    BY <1>1 DEF Sound, OnNode
  <1>3. /\ placement' = [placement EXCEPT ![v] = Unroute(v, n)] /\ loaded' = [loaded EXCEPT ![n][v] = None]
        /\ avail' = [avail EXCEPT ![n] = free] /\ UNCHANGED <<failures, suspect>>
    BY Zenon DEF Gone
  <1>4. /\ placement' \in [Model -> Node \cup {None}] /\ avail' \in [Node -> 0..Places]
        /\ loaded' \in [Node -> [Model -> Info \cup {None}]]
        /\ loaded'[n][v] = None
        /\ \A k \in Node, l \in Model : k # n \/ l # v => loaded'[k][l] = loaded[k][l]
    BY <1>2, <1>3, UnroutedTyped, ClusterInvFacts DEF ClusterTypeOK
  <1>5. AgentTypeOK'
    BY ClusterInvFacts DEF AgentTypeOK
  <1>6. ASSUME OnlyMove({r}), req'[r].pc \in {"idle", "post"}, req'[r].pc = "post" => req'[r].node = n
        PROVE  EvictInv'
    <2>1. \A q \in Req \ {r} : req[q].pc = "evict" => req[q].node # n
      BY ClusterInvFacts DEF EvictInv, OneOnNode, OnNode
    <2>2. Booted
      BY BusyIsBooted, ClusterInvFacts
    <2>3. \A q \in Req : req[q].pc \in OnNode => purge[req[q].node] # "calling"
      BY ClusterInvFacts DEF EvictInv, OneOnNode, RequestInv, Sound
    <2>4. EvictMove({r})
      BY <1>2, <1>4, <1>6, <2>1, <2>2, <2>3 DEF EvictMove, OnNode
    <2> QED
      BY <1>6, <2>4, ClusterInvFacts, EvictMoves
  <1>7. CASE req[r].mode = "admin" /\ req' = [Detach(n, {v}) EXCEPT ![r] = Idle] /\ UNCHANGED pending
    <2>1. OnlyMove({r}) /\ req'[r] = Idle
      <3> DEFINE d == Detach(n, {v})
      <3>1. d \in [Req -> Request] /\ \A p \in Req : Keeps(d[p], req[p])
        BY ClusterInvFacts, DetachMoves
      <3>2. req' = [d EXCEPT ![r] = Idle]
        BY <1>7
      <3> HIDE DEF d
      <3>3. req' \in [Req -> Request] /\ req'[r] = Idle /\ \A p \in Req \ {r} : req'[p] = d[p]
        BY <3>1, <3>2, IdleSound
      <3> QED
        BY <3>1, <3>3, IdleSound DEF OnlyMove
    <2>2. ClusterTypeOK'
      BY <1>3, <1>4, <1>5, <1>7, <2>1, ClusterInvFacts DEF ClusterTypeOK, OnlyMove
    <2>3. SafeFailover
      BY <1>7, NoWithdrawal
    <2>4. OpMove({r})
      BY <1>7, <2>1, IdleSound, OpQuiet
    <2> QED
      BY <1>6, <2>1, <2>2, <2>3, <2>4, IdleSound, GatewayStep
  <1>8. CASE req[r].mode # "admin" /\ FreshOp # {}
    <2> DEFINE op == CHOOSE o \in FreshOp : TRUE
               q == [req[r] EXCEPT !.pc = "post", !.op = op, !.victim = None, !.told = FALSE]
               p == [op |-> op, id |-> req[r].id, ack |-> FALSE, told |-> FALSE]
    <2>1. pending' = [pending EXCEPT ![n][m] = p]
      BY <1>8, Zenon DEF Gone
    <2>13. req' = [Detach(n, {v}) EXCEPT ![r] = q]
      BY <1>8, Zenon DEF Gone
    <2>2. op \in FreshOp /\ op \in Op
      BY <1>8, FreshChosen, FreshOpUnused, ClusterInvFacts
    <2> HIDE DEF op
    <2>3. req[r].id \in Identity
      BY <1>1, <1>8 DEF Sound
    <2>4. /\ q \in Request /\ q.pc = "post" /\ q.model = m /\ q.node = n /\ q.op = op /\ q.id = req[r].id
          /\ q.attached = req[r].attached /\ q.mode = req[r].mode
      BY <1>1, <2>2 DEF Request, Pcs
    <2>5. p \in Reservation /\ p.op = op /\ ~p.ack
      BY <2>2, <2>3 DEF Reservation
    <2>6. p # None
      BY <2>5, ClusterAssumption
    <2> HIDE DEF q, p
    <2>7. Sound(q)
      BY <1>1, <1>2, <2>2, <2>3, <2>4 DEF Sound, OnNode
    <2>8. OnlyMove({r}) /\ req'[r] = q
      <3>1. q \in Request
        BY <2>4
      <3>2. req \in [Req -> Request] /\ RequestInv
        BY ClusterInvFacts
      <3> DEFINE d == Detach(n, {v})
      <3>3. d \in [Req -> Request] /\ \A x \in Req : Keeps(d[x], req[x])
        BY <3>2, DetachMoves
      <3>4. req' = [d EXCEPT ![r] = q]
        BY <2>13
      <3> HIDE DEF d
      <3>5. req' \in [Req -> Request] /\ req'[r] = q /\ \A x \in Req \ {r} : req'[x] = d[x]
        BY <3>1, <3>3, <3>4
      <3> QED
        BY <2>7, <3>3, <3>5 DEF OnlyMove
    <2>9. /\ pending' \in [Node -> [Model -> Reservation \cup {None}]]
          /\ pending'[n][m] = p
          /\ \A k \in Node, l \in Model : k # n \/ l # m => pending'[k][l] = pending[k][l]
      BY <1>2, <2>1, <2>5, ClusterInvFacts DEF ClusterTypeOK
    <2>10. ClusterTypeOK'
      BY <1>3, <1>4, <1>5, <2>8, <2>9, ClusterInvFacts DEF ClusterTypeOK, OnlyMove
    <2>11. SafeFailover
      BY <2>6, <2>9, NoWithdrawal
    <2>12. OpMove({r})
      BY <2>2, <2>4, <2>5, <2>8, <2>9, OpReserves
    <2> QED
      BY <1>6, <2>4, <2>8, <2>10, <2>11, <2>12, GatewayStep
  <1> QED
    BY <1>7, <1>8, Zenon DEF Gone

LEMMA UnloadedKeeps ==
  ASSUME ClusterInv, NEW r \in Req, Unloaded(r)
  PROVE  Good
  <1>1. /\ req[r].pc = "evict"
        /\ UNCHANGED <<desired, left, purge, beat, posts, version, epoch, agentVars>>
        /\ Gone(r, Capped(avail[req[r].node] + 1)) \/ Gone(r, AgentFree(req[r].node))
    BY DEF Unloaded, UnchangedWorld
  <1>2. req[r].node \in Node
    BY <1>1, ClusterInvFacts DEF RequestInv, Sound, OnNode
  <1>3. avail[req[r].node] \in 0..Places
    BY <1>2, ClusterInvFacts DEF ClusterTypeOK
  <1>4. Capped(avail[req[r].node] + 1) \in 0..Places
    BY <1>3, AgentAssumption DEF Capped
  <1>5. AgentFree(req[r].node) \in 0..Places
    BY <1>2, AgentFreeTyped
  <1>6. unloads' \in [Node -> SUBSET Model] /\ left' \in [Fault -> Nat \cup {None}]
    BY <1>1, ClusterInvFacts DEF ClusterTypeOK, AgentTypeOK, agentVars
  <1>7. UNCHANGED <<desired, purge, beat, posts, version, epoch, ops, server, builtFrom, agentLock>>
    BY <1>1 DEF agentVars
  <1> QED
    BY <1>1, <1>4, <1>5, <1>6, <1>7, GoneKeeps

\* The eviction failed: the record loses its mark and is in doubt.
LEMMA DoubtKeeps ==
  ASSUME ClusterInv, NEW r \in Req, req[r].pc = "evict", Doubt(r),
         failures' \in [Node -> 0..(Threshold + 1)], avail' \in [Node -> 0..Places],
         unloads' \in [Node -> SUBSET Model], left' \in [Fault -> Nat \cup {None}],
         UNCHANGED <<desired, purge, beat, posts, version, epoch, ops, server, builtFrom, agentLock>>
  PROVE  Good
  <1> DEFINE n == req[r].node  v == req[r].victim
             p == [loaded[n][v] EXCEPT !.evicting = FALSE, !.uncertain = TRUE]
             q == [req[r] EXCEPT !.pc = "place", !.failed = req[r].failed \cup {n}, !.victim = None]
  <1>1. req[r] \in Request /\ Sound(req[r])
    BY ClusterInvFacts DEF RequestInv
  <1>2. n \in Node /\ v \in Model
    BY <1>1 DEF Sound, OnNode
  <1>3. /\ loaded' = [loaded EXCEPT ![n][v] = p] /\ UNCHANGED <<placement, pending, suspect>>
        /\ \/ req[r].mode = "admin" /\ req' = Answer(r)
           \/ req[r].mode # "admin" /\ req' = Become(r, q)
    BY Zenon DEF Doubt
  <1>4. loaded[n][v] # None /\ loaded[n][v] \in Info
    BY <1>2, ClusterInvFacts DEF ClusterTypeOK, EvictInv, VictimKnown
  <1>5. p \in Info /\ p.evicting = FALSE
    BY <1>4 DEF Info
  <1>6. p # None
    BY <1>5, ClusterAssumption
  <1> HIDE DEF p
  <1>7. /\ loaded' \in [Node -> [Model -> Info \cup {None}]]
        /\ loaded'[n][v] = p
        /\ \A k \in Node, l \in Model : k # n \/ l # v => loaded'[k][l] = loaded[k][l]
    BY <1>2, <1>3, <1>5, ClusterInvFacts DEF ClusterTypeOK
  <1>8. OnlyMove({r}) /\ req'[r].pc \in {"idle", "place"} /\ req'[r].op = None
    <2>1. CASE req' = Answer(r)
      BY <2>1, AnswerMoves, IdleSound, ClusterInvFacts
    <2>2. CASE req[r].mode # "admin" /\ req' = Become(r, q)
      <3>1. /\ q \in Request /\ q.pc = "place" /\ q.model = req[r].model /\ q.node = n /\ q.op = req[r].op
            /\ q.id = req[r].id /\ q.attached = req[r].attached /\ q.mode = req[r].mode
        BY <1>1, <1>2 DEF Request, Pcs
      <3>2. req' = Become(r, q)
        BY <2>2
      <3> HIDE DEF q
      <3>3. Sound(q) /\ q.op = None
        BY <1>1, <2>2, <3>1 DEF Sound, OnNode
      <3> QED
        BY <3>1, <3>2, <3>3, BecomeMoves, ClusterInvFacts
    <2> QED
      BY <1>3, <2>1, <2>2
  <1>9. AgentTypeOK'
    BY ClusterInvFacts DEF AgentTypeOK
  <1>10. ClusterTypeOK'
    BY <1>3, <1>7, <1>8, <1>9, ClusterInvFacts DEF ClusterTypeOK, OnlyMove
  <1>11. SafeFailover
    BY <1>3, NoWithdrawal
  <1>12. Booted
    BY BusyIsBooted, ClusterInvFacts
  <1>13. EvictMove({r})
    BY <1>2, <1>5, <1>6, <1>7, <1>8, <1>12 DEF EvictMove, OnNode
  <1>14. EvictInv'
    BY <1>8, <1>13, ClusterInvFacts, EvictMoves
  <1>15. OpMove({r})
    BY <1>3, <1>8, OpQuiet
  <1> QED
    BY <1>8, <1>10, <1>11, <1>14, <1>15, GatewayStep

LEMMA MoreFailuresTyped ==
  ASSUME ClusterInv, NEW n \in Node
  PROVE  MoreFailures(n) \in 0..(Threshold + 1)
  <1>1. failures[n] \in 0..(Threshold + 1)
    BY ClusterInvFacts DEF ClusterTypeOK
  <1> QED
    BY <1>1, ClusterAssumption DEF MoreFailures

LEMMA UnloadLostKeeps ==
  ASSUME ClusterInv, NEW r \in Req, UnloadLost(r)
  PROVE  Good
  <1> DEFINE n == req[r].node
  <1>1. /\ req[r].pc = "evict" /\ Spend("lost")
        /\ UNCHANGED <<desired, purge, beat, posts, version, epoch, ops, server, builtFrom, agentLock>>
        /\ unloads' = unloads \/ unloads' = [unloads EXCEPT ![n] = @ \ {req[r].victim}]
        /\ \/ Gone(r, AgentFree(n))
           \/ Doubt(r) /\ avail' = [avail EXCEPT ![n] = AgentFree(n)] /\ UNCHANGED failures
           \/ Doubt(r) /\ failures' = [failures EXCEPT ![n] = MoreFailures(n)] /\ UNCHANGED avail
    BY Zenon DEF UnloadLost
  <1>2. n \in Node
    BY <1>1, ClusterInvFacts DEF RequestInv, Sound, OnNode
  <1>3. left' \in [Fault -> Nat \cup {None}]
    BY <1>1, SpendTyped, ClusterInvFacts DEF ClusterTypeOK
  <1>4. unloads' \in [Node -> SUBSET Model]
    BY <1>1, <1>2, ClusterInvFacts DEF AgentTypeOK
  <1>5. AgentFree(n) \in 0..Places /\ MoreFailures(n) \in 0..(Threshold + 1)
    BY <1>2, AgentFreeTyped, MoreFailuresTyped
  <1>6. /\ avail' = [avail EXCEPT ![n] = AgentFree(n)] \/ avail' = avail => avail' \in [Node -> 0..Places]
        /\ failures' = [failures EXCEPT ![n] = MoreFailures(n)] \/ failures' = failures
             => failures' \in [Node -> 0..(Threshold + 1)]
    BY <1>2, <1>5, ClusterInvFacts DEF ClusterTypeOK
  <1> QED
    BY <1>1, <1>3, <1>4, <1>5, <1>6, GoneKeeps, DoubtKeeps

-----------------------------------------------------------------------------
(* The operation and its outcome                                           *)

\* A reservation is withdrawn by the request whose operation it names.
LEMMA ClearedMoves ==
  ASSUME ClusterInv, NEW r \in Req, pending' \in {pending, Cleared(r)}
  PROVE  /\ pending' \in [Node -> [Model -> Reservation \cup {None}]]
         /\ \A k \in Node, l \in Model :
              \/ pending'[k][l] = pending[k][l]
              \/ /\ pending'[k][l] = None
                 /\ k = req[r].node /\ l = req[r].model /\ pending[k][l].op = req[r].op
  <1> DEFINE n == req[r].node  m == req[r].model
  <1>0. pending \in [Node -> [Model -> Reservation \cup {None}]]
    BY ClusterInvFacts DEF ClusterTypeOK
  <1>1. CASE pending' = pending
    BY <1>0, <1>1
  <1>2. CASE pending' = [pending EXCEPT ![n][m] = None] /\ pending[n][m].op = req[r].op
    BY <1>0, <1>2
  <1>3. CASE IsMine(r)
    <2>1. pending[n][m].op = req[r].op
      BY <1>3 DEF IsMine
    <2>2. Cleared(r) = [pending EXCEPT ![n][m] = None]
      BY <1>3 DEF Cleared
    <2> QED
      BY <1>1, <1>2, <2>1, <2>2
  <1>4. CASE ~IsMine(r)
    BY <1>1, <1>4 DEF Cleared
  <1> QED
    BY <1>3, <1>4

\* When that is safe.
LEMMA WithdrawalIsSafe ==
  ASSUME NEW r \in Req,
         \A k \in Node, l \in Model :
           \/ pending[k][l] # None => pending'[k][l] # None
           \/ k = req[r].node /\ l = req[r].model /\ pending[k][l].op = req[r].op,
         Online(req[r].node) =>
           /\ ops'[req[r].node][req[r].op] # None => ops'[req[r].node][req[r].op].at \in Terminal
           /\ \A post \in posts' : post.op # req[r].op
  PROVE  SafeFailover
  BY DEF SafeFailover

\* A request that holds its node with an operation.
LEMMA OperationTyped ==
  ASSUME ClusterInv, NEW r \in Req, req[r].pc \in {"post", "poll"}
  PROVE  /\ req[r] \in Request /\ Sound(req[r])
         /\ req[r].node \in Node /\ req[r].model \in Model /\ req[r].id \in Identity /\ req[r].op \in Op
         /\ req[r].op # None /\ Booted
  <1>1. req[r] \in Request /\ Sound(req[r]) /\ Booted
    BY BusyIsBooted, ClusterInvFacts DEF RequestInv
  <1> QED
    BY <1>1, AgentAssumption DEF Sound, OnNode

\* The outcome: the request leaves its node, or goes on waiting there.
LEMMA OutcomeKeeps ==
  ASSUME ClusterInv, NEW r \in Req, req[r].pc \in {"post", "poll"},
         AgentInv', \A k \in Node : RegisterStep(k), ClusterTypeOK', SafeFailover,
         OnlyMove({r}), req'[r].pc \in {"idle", "place", "serve", "poll"}, req'[r].op \in {None, req[r].op},
         req'[r].pc = "poll" => req'[r].node = req[r].node,
         req'[r].pc = "serve" =>
           \/ loaded'[req'[r].node][req'[r].model] = None
           \/ ~loaded'[req'[r].node][req'[r].model].evicting,
         UNCHANGED <<posts, purge, beat>>,
         \A k \in Node, l \in Model :
           \/ loaded'[k][l] = loaded[k][l]
           \/ loaded'[k][l] # None /\ ~loaded'[k][l].evicting,
         \A k \in Node, o \in Op :
           ops'[k][o] # None => ops[k][o] # None \/ (req[r].pc = "post" /\ o = req[r].op),
         \A k \in Node, l \in Model :
           \/ pending'[k][l] \in {None, pending[k][l]}
           \/ pending'[k][l].op \in Op /\ \E j \in Node : ops'[j][pending'[k][l].op] # None
  PROVE  Good
  <1>1. Booted /\ req[r].op # None
    BY OperationTyped
  <1>2. EvictMove({r})
    BY <1>1 DEF EvictMove, OnNode
  <1>3. EvictInv'
    BY <1>2, ClusterInvFacts, EvictMoves
  <1>4. ASSUME NEW q \in Req \ {r}, req[q].pc = "post" PROVE req'[r].op # req[q].op /\ req[r].op # req[q].op
    <2>1. Alone(q)
      BY <1>4, ClusterInvFacts DEF OpInv, PostAlone
    <2>2. req[q].op # None
      BY <1>4, OperationTyped
    <2> QED
      BY <2>1, <2>2 DEF Alone
  <1>5. req[r].pc = "post" => \A post \in posts : post.op # req[r].op
    BY ClusterInvFacts DEF OpInv, PostAlone, Alone
  <1>6. OpMove({r})
    BY <1>4, <1>5 DEF OpMove
  <1> QED
    BY <1>3, <1>6, Together

\* The load failed: its request goes back to placing.
LEMMA FailMoves ==
  ASSUME ClusterInv, NEW r \in Req, req[r].pc \in {"post", "poll"}, NEW counts, NEW suspected,
         Fail(r, counts, suspected)
  PROVE  /\ OnlyMove({r}) /\ req'[r].pc = "place" /\ req'[r].op = None
         /\ pending' = Cleared(r) /\ UNCHANGED <<avail, loaded>>
         /\ failures' \in [Node -> 0..(Threshold + 1)]
         /\ suspect' \in [Node -> SUBSET Model]
         /\ placement' \in [Model -> Node \cup {None}]
  <1> DEFINE n == req[r].node  m == req[r].model  mode == req[r].mode
             q == [req[r] EXCEPT !.pc = "place", !.mode = "load", !.op = None,
                     !.failed = IF mode = "load" THEN req[r].failed \cup {n} ELSE req[r].failed,
                     !.avoid = IF mode = "load" THEN req[r].avoid ELSE Avoided(m)]
  <1>1. /\ req[r] \in Request /\ Sound(req[r])
        /\ n \in Node /\ m \in Model /\ req[r].id \in Identity /\ req[r].op \in Op
    BY OperationTyped
  <1>2. req' = Become(r, q)
    BY Zenon DEF Fail
  <1>3. /\ pending' = Cleared(r) /\ UNCHANGED <<avail, loaded>>
        /\ failures' = failures \/ failures' = [failures EXCEPT ![n] = MoreFailures(n)]
        /\ suspect' = suspect \/ suspect' = [suspect EXCEPT ![n] = suspect[n] \cup {m}]
        /\ placement' = placement \/ placement' = [placement EXCEPT ![m] = Unroute(m, n)]
    BY Zenon DEF Fail
  <1>4. Avoided(m) \in SUBSET Node
    BY AvoidedNodes
  <1>5. /\ (IF mode = "load" THEN req[r].failed \cup {n} ELSE req[r].failed) \in SUBSET Node
        /\ (IF mode = "load" THEN req[r].avoid ELSE Avoided(m)) \in SUBSET Node
    BY <1>1, <1>4 DEF Request
  <1>6. /\ q \in Request /\ q.pc = "place" /\ q.mode = "load" /\ q.op = None
        /\ q.model = m /\ q.node = n /\ q.id = req[r].id /\ q.attached = req[r].attached
    BY <1>1, <1>5 DEF Request, Pcs, Modes
  <1> HIDE DEF q
  <1>7. Sound(q)
    BY <1>1, <1>6 DEF Sound, OnNode
  <1>8. OnlyMove({r}) /\ req'[r] = q
    BY <1>2, <1>6, <1>7, BecomeMoves, ClusterInvFacts
  <1>9. /\ failures' \in [Node -> 0..(Threshold + 1)]
        /\ suspect' \in [Node -> SUBSET Model]
        /\ placement' \in [Model -> Node \cup {None}]
    <2>1. MoreFailures(n) \in 0..(Threshold + 1) /\ Unroute(m, n) \in Node \cup {None}
      BY <1>1, MoreFailuresTyped, UnroutedTyped
    <2>2. failures' \in [Node -> 0..(Threshold + 1)]
      BY <1>3, <2>1, ClusterInvFacts DEF ClusterTypeOK
    <2>3. suspect' \in [Node -> SUBSET Model]
      <3> DEFINE s == suspect[n] \cup {m}
      <3>1. suspect \in [Node -> SUBSET Model]
        BY ClusterInvFacts DEF ClusterTypeOK
      <3>2. s \in SUBSET Model
        BY <1>1, <3>1
      <3>3. suspect' = suspect \/ suspect' = [suspect EXCEPT ![n] = s]
        BY <1>3, Zenon
      <3> HIDE DEF s
      <3> QED
        BY <3>1, <3>2, <3>3
    <2>4. placement' \in [Model -> Node \cup {None}]
      BY <1>3, <2>1, ClusterInvFacts DEF ClusterTypeOK
    <2> QED
      BY <2>2, <2>3, <2>4
  <1> QED
    BY <1>3, <1>6, <1>8, <1>9

\* The load succeeded: the record it leaves is not one that is being evicted.
LEMMA FinishMoves ==
  ASSUME ClusterInv, NEW r \in Req, req[r].pc \in {"post", "poll"}, NEW takes \in {0, 1}, Finish(r, takes)
  PROVE  /\ OnlyMove({r}) /\ req'[r].pc \in {"idle", "serve"} /\ req'[r].op = None
         /\ req'[r].pc = "serve" =>
               \/ loaded'[req'[r].node][req'[r].model] = None
               \/ ~loaded'[req'[r].node][req'[r].model].evicting
         /\ pending' \in {pending, Cleared(r)} /\ UNCHANGED failures
         /\ loaded' \in [Node -> [Model -> Info \cup {None}]]
         /\ \A k \in Node, l \in Model :
              \/ loaded'[k][l] = loaded[k][l]
              \/ loaded'[k][l] # None /\ ~loaded'[k][l].evicting
         /\ avail' \in [Node -> 0..Places]
         /\ suspect' \in [Node -> SUBSET Model]
         /\ placement' \in [Model -> Node \cup {None}]
  <1> DEFINE n == req[r].node  m == req[r].model
             refresh == req[r].mode = "refresh"
             kept  == refresh /\ loaded[n][m] # None
             base  == IF kept THEN loaded[n][m] ELSE NoInfo
             entry == [base EXCEPT !.digest = req[r].id.digest, !.key = TRUE]
             places == AtLeast0(avail[n] - IF refresh THEN 0 ELSE takes)
             serve == [Idle EXCEPT !.pc = "serve", !.model = m, !.node = n, !.id = req[r].id, !.attached = TRUE]
  <1>1. /\ req[r] \in Request /\ Sound(req[r])
        /\ n \in Node /\ m \in Model /\ req[r].id \in Identity /\ req[r].op \in Op
    BY OperationTyped
  <1>2. CASE Purging
    <2>1. /\ pending' \in {pending, Cleared(r)} /\ req' = Answer(r)
          /\ UNCHANGED <<failures, avail, loaded, suspect, placement>>
      BY <1>2, Zenon DEF Finish
    <2>2. OnlyMove({r}) /\ req'[r] = Idle
      BY <2>1, AnswerMoves, ClusterInvFacts
    <2>3. /\ loaded' \in [Node -> [Model -> Info \cup {None}]] /\ avail' \in [Node -> 0..Places]
          /\ suspect' \in [Node -> SUBSET Model] /\ placement' \in [Model -> Node \cup {None}]
      BY <2>1, ClusterInvFacts DEF ClusterTypeOK
    <2> QED
      BY <2>1, <2>2, <2>3, IdleSound
  <1>3. CASE ~Purging
    <2>1. /\ pending' = Cleared(r) /\ UNCHANGED failures
          /\ loaded' = [loaded EXCEPT ![n][m] = entry]
          /\ suspect' = [suspect EXCEPT ![n] = suspect[n] \ {m}]
          /\ avail' = [avail EXCEPT ![n] = places]
          /\ placement' = [placement EXCEPT ![m] = n]
      BY <1>3, Zenon DEF Finish
    <2>2. \/ kept /\ req' = Become(r, serve)
          \/ ~kept /\ req' = [Detach(n, {m}) EXCEPT ![r] = serve]
      BY <1>3, Zenon DEF Finish, Become
    <2>3. base \in Info
      BY <1>1, ClusterInvFacts DEF ClusterTypeOK, NoInfo, Info
    <2>4. req[r].id.digest \in Nat
      BY <1>1 DEF Identity
    <2>5. base.evicting = FALSE
      <3>1. CASE kept
        <4>1. base = loaded[n][m]
          BY <3>1
        <4>2. ASSUME loaded[n][m].evicting PROVE FALSE
          <5>1. PICK q \in Req : req[q].pc = "evict" /\ req[q].node = n
            BY <1>1, <3>1, <4>2, ClusterInvFacts DEF EvictInv, MarkedIsUnused
          <5> QED
            BY <5>1, ClusterInvFacts DEF EvictInv, OneOnNode, OnNode
        <4> QED
          BY <2>3, <4>1, <4>2 DEF Info
      <3>2. CASE ~kept
        BY <3>2 DEF NoInfo
      <3> QED
        BY <3>1, <3>2
    <2> HIDE DEF base
    <2>6. entry \in Info /\ entry.evicting = FALSE
      BY <2>3, <2>4, <2>5 DEF Info
    <2>7. entry # None
      BY <2>6, ClusterAssumption
    <2>8. places \in 0..Places
      <3>1. avail[n] \in 0..Places
        BY <1>1, ClusterInvFacts DEF ClusterTypeOK
      <3> QED
        BY <3>1, AgentAssumption DEF AtLeast0
    <2>9. /\ serve \in Request /\ serve.pc = "serve" /\ serve.model = m /\ serve.node = n
          /\ serve.id = req[r].id /\ serve.op = None
      BY <1>1, IdleSound DEF Request, Pcs
    <2> HIDE DEF entry, places, serve
    <2>10. Sound(serve)
      BY <1>1, <2>9 DEF Sound, OnNode
    <2>11. /\ loaded' \in [Node -> [Model -> Info \cup {None}]]
           /\ loaded'[n][m] = entry
           /\ \A k \in Node, l \in Model : k # n \/ l # m => loaded'[k][l] = loaded[k][l]
      BY <1>1, <2>1, <2>6, ClusterInvFacts DEF ClusterTypeOK
    <2>12. /\ avail' \in [Node -> 0..Places] /\ suspect' \in [Node -> SUBSET Model]
           /\ placement' \in [Model -> Node \cup {None}]
      BY <1>1, <2>1, <2>8, ClusterInvFacts DEF ClusterTypeOK
    <2>13. OnlyMove({r}) /\ req'[r] = serve
      <3>1. CASE req' = Become(r, serve)
        BY <2>9, <2>10, <3>1, BecomeMoves, ClusterInvFacts
      <3>2. CASE req' = [Detach(n, {m}) EXCEPT ![r] = serve]
        <4> DEFINE d == Detach(n, {m})
        <4>1. d \in [Req -> Request] /\ \A x \in Req : Keeps(d[x], req[x])
          BY DetachMoves, ClusterInvFacts
        <4>2. req' = [d EXCEPT ![r] = serve]
          BY <3>2
        <4> HIDE DEF d
        <4>3. req' \in [Req -> Request] /\ req'[r] = serve /\ \A x \in Req \ {r} : req'[x] = d[x]
          BY <2>9, <4>1, <4>2
        <4> QED
          BY <2>10, <4>1, <4>3 DEF OnlyMove
      <3> QED
        BY <2>2, <3>1, <3>2
    <2> QED
      BY <2>1, <2>6, <2>7, <2>9, <2>11, <2>12, <2>13
  <1> QED
    BY <1>2, <1>3

\* The agent knows the operation.
LEMMA AcknowledgeMoves ==
  ASSUME ClusterInv, NEW r \in Req, req[r].pc \in {"post", "poll"}, Acknowledge(r)
  PROVE  /\ UNCHANGED <<failures, avail, loaded, suspect>>
         /\ pending' \in [Node -> [Model -> Reservation \cup {None}]]
         /\ \A k \in Node, l \in Model :
              \/ pending'[k][l] = pending[k][l]
              \/ /\ pending'[k][l] # None /\ pending'[k][l].op = req[r].op
         /\ \A k \in Node, l \in Model : pending[k][l] # None => pending'[k][l] # None
  <1> DEFINE n == req[r].node  m == req[r].model
             p == [pending[n][m] EXCEPT !.ack = TRUE]
  <1>1. n \in Node /\ m \in Model
    BY OperationTyped
  <1>2. UNCHANGED <<failures, avail, loaded, suspect>>
    BY DEF Acknowledge
  <1>3. CASE IsMine(r)
    <2>1. pending' = [pending EXCEPT ![n][m] = p]
      BY <1>3, Zenon DEF Acknowledge
    <2>2. pending[n][m] # None /\ pending[n][m].op = req[r].op
      BY <1>3 DEF IsMine
    <2>3. pending[n][m] \in Reservation
      BY <1>1, <2>2, PendingTyped
    <2>4. p \in Reservation /\ p.op = req[r].op
      BY <2>2, <2>3 DEF Reservation
    <2>5. p # None
      BY <2>4, ClusterAssumption
    <2> HIDE DEF p
    <2>6. /\ pending' \in [Node -> [Model -> Reservation \cup {None}]]
          /\ pending'[n][m] = p
          /\ \A k \in Node, l \in Model : k # n \/ l # m => pending'[k][l] = pending[k][l]
      BY <1>1, <2>1, <2>4, ClusterInvFacts DEF ClusterTypeOK
    <2> QED
      BY <1>2, <2>4, <2>5, <2>6
  <1>4. CASE ~IsMine(r)
    <2>1. pending' = pending
      BY <1>4, Zenon DEF Acknowledge
    <2> QED
      BY <1>2, <2>1, ClusterInvFacts DEF ClusterTypeOK
  <1> QED
    BY <1>3, <1>4

\* Nothing but the outcome of r moves.
LEMMA OutcomeTyped ==
  ASSUME ClusterInv, NEW A \in SUBSET Req, OnlyMove(A), AgentInv',
         failures' \in [Node -> 0..(Threshold + 1)], avail' \in [Node -> 0..Places],
         loaded' \in [Node -> [Model -> Info \cup {None}]],
         pending' \in [Node -> [Model -> Reservation \cup {None}]],
         suspect' \in [Node -> SUBSET Model], placement' \in [Model -> Node \cup {None}],
         left' \in [Fault -> Nat \cup {None}],
         UNCHANGED <<desired, purge, beat, version, epoch>>, posts' \subseteq Post
  PROVE  ClusterTypeOK'
  BY ClusterInvFacts DEF ClusterTypeOK, AgentInv, OnlyMove

LEMMA FailKeeps ==
  ASSUME ClusterInv, NEW r \in Req, req[r].pc \in {"post", "poll"}, NEW counts, NEW suspected,
         Fail(r, counts, suspected), AgentInv', \A k \in Node : RegisterStep(k),
         \A k \in Node, o \in Op : ops'[k][o] # None => ops[k][o] # None,
         Online(req[r].node) =>
           /\ ops'[req[r].node][req[r].op] # None => ops'[req[r].node][req[r].op].at \in Terminal
           /\ \A post \in posts : post.op # req[r].op,
         left' \in [Fault -> Nat \cup {None}], UNCHANGED posts, UnchangedRest
  PROVE  Good
  <1>1. UNCHANGED <<desired, purge, beat, version, epoch>>
    BY DEF UnchangedRest
  <1>2. /\ OnlyMove({r}) /\ req'[r].pc = "place" /\ req'[r].op = None
        /\ pending' = Cleared(r) /\ UNCHANGED <<avail, loaded>>
        /\ failures' \in [Node -> 0..(Threshold + 1)]
        /\ suspect' \in [Node -> SUBSET Model]
        /\ placement' \in [Model -> Node \cup {None}]
    BY FailMoves
  <1>3. /\ pending' \in [Node -> [Model -> Reservation \cup {None}]]
        /\ \A k \in Node, l \in Model :
             \/ pending'[k][l] = pending[k][l]
             \/ /\ pending'[k][l] = None
                /\ k = req[r].node /\ l = req[r].model /\ pending[k][l].op = req[r].op
    BY <1>2, ClearedMoves
  <1>4. ClusterTypeOK'
    BY <1>1, <1>2, <1>3, OutcomeTyped, ClusterInvFacts DEF ClusterTypeOK
  <1>5. SafeFailover
    BY <1>3, WithdrawalIsSafe
  <1> QED
    BY <1>1, <1>2, <1>3, <1>4, <1>5, OutcomeKeeps

LEMMA FinishKeeps ==
  ASSUME ClusterInv, NEW r \in Req, req[r].pc \in {"post", "poll"}, NEW takes \in {0, 1},
         Finish(r, takes), AgentInv', \A k \in Node : RegisterStep(k),
         \A k \in Node, o \in Op :
           ops'[k][o] # None => ops[k][o] # None \/ (req[r].pc = "post" /\ o = req[r].op),
         ops'[req[r].node][req[r].op].at = "ready",
         \A post \in posts : post.op # req[r].op,
         UNCHANGED <<left, posts>>, UnchangedRest
  PROVE  Good
  <1>1. UNCHANGED <<desired, purge, beat, version, epoch>>
    BY DEF UnchangedRest
  <1>2. /\ OnlyMove({r}) /\ req'[r].pc \in {"idle", "serve"} /\ req'[r].op = None
        /\ req'[r].pc = "serve" =>
              \/ loaded'[req'[r].node][req'[r].model] = None
              \/ ~loaded'[req'[r].node][req'[r].model].evicting
        /\ pending' \in {pending, Cleared(r)} /\ UNCHANGED failures
        /\ loaded' \in [Node -> [Model -> Info \cup {None}]]
        /\ \A k \in Node, l \in Model :
             \/ loaded'[k][l] = loaded[k][l]
             \/ loaded'[k][l] # None /\ ~loaded'[k][l].evicting
        /\ avail' \in [Node -> 0..Places]
        /\ suspect' \in [Node -> SUBSET Model]
        /\ placement' \in [Model -> Node \cup {None}]
    BY FinishMoves
  <1>3. /\ pending' \in [Node -> [Model -> Reservation \cup {None}]]
        /\ \A k \in Node, l \in Model :
             \/ pending'[k][l] = pending[k][l]
             \/ /\ pending'[k][l] = None
                /\ k = req[r].node /\ l = req[r].model /\ pending[k][l].op = req[r].op
    BY <1>2, ClearedMoves
  <1>4. ClusterTypeOK'
    <2>1. /\ posts' \subseteq Post /\ left' \in [Fault -> Nat \cup {None}]
          /\ failures' \in [Node -> 0..(Threshold + 1)]
      BY <1>2, ClusterInvFacts DEF ClusterTypeOK
    <2> QED
      BY <1>1, <1>2, <1>3, <2>1, OutcomeTyped
  <1>5. SafeFailover
    BY <1>3, WithdrawalIsSafe, SMTT(30) DEF Terminal
  <1>6. /\ req'[r].pc \in {"idle", "place", "serve", "poll"} /\ req'[r].op \in {None, req[r].op}
        /\ req'[r].pc # "poll" /\ UNCHANGED <<posts, purge, beat>>
        /\ \A k \in Node, l \in Model : pending'[k][l] \in {None, pending[k][l]}
    BY <1>1, <1>2, <1>3
  <1> QED
    BY <1>2, <1>4, <1>5, <1>6, OutcomeKeeps

LEMMA AcknowledgeKeeps ==
  ASSUME ClusterInv, NEW r \in Req, req[r].pc \in {"post", "poll"}, Acknowledge(r),
         AgentInv', \A k \in Node : RegisterStep(k), UNCHANGED <<left, posts, placement>>, UnchangedRest,
         \A k \in Node, o \in Op :
           ops'[k][o] # None => ops[k][o] # None \/ (req[r].pc = "post" /\ o = req[r].op),
         ops'[req[r].node][req[r].op] # None,
         req' = Goto(r, "poll")
  PROVE  Good
  <1> DEFINE q == [req[r] EXCEPT !.pc = "poll"]
  <1>1. UNCHANGED <<desired, purge, beat, version, epoch>>
    BY DEF UnchangedRest
  <1>2. /\ req[r] \in Request /\ Sound(req[r])
        /\ req[r].node \in Node /\ req[r].model \in Model /\ req[r].id \in Identity /\ req[r].op \in Op
    BY OperationTyped
  <1>3. /\ q \in Request /\ q.pc = "poll" /\ q.mode = req[r].mode /\ q.op = req[r].op
        /\ q.model = req[r].model /\ q.node = req[r].node /\ q.id = req[r].id /\ q.attached = req[r].attached
    BY <1>2 DEF Request, Pcs
  <1>4. req' = Become(r, q)
    BY Zenon DEF Goto
  <1> HIDE DEF q
  <1>5. Sound(q)
    BY <1>2, <1>3 DEF Sound, OnNode
  <1>6. OnlyMove({r}) /\ req'[r] = q
    BY <1>3, <1>4, <1>5, BecomeMoves, ClusterInvFacts
  <1>7. /\ UNCHANGED <<failures, avail, loaded, suspect>>
        /\ pending' \in [Node -> [Model -> Reservation \cup {None}]]
        /\ \A k \in Node, l \in Model :
             \/ pending'[k][l] = pending[k][l]
             \/ /\ pending'[k][l] # None /\ pending'[k][l].op = req[r].op
        /\ \A k \in Node, l \in Model : pending[k][l] # None => pending'[k][l] # None
    BY AcknowledgeMoves
  <1>8. ClusterTypeOK'
    BY <1>1, <1>6, <1>7, OutcomeTyped, ClusterInvFacts DEF ClusterTypeOK
  <1>9. SafeFailover
    BY <1>7, NoWithdrawal
  <1> QED
    BY <1>1, <1>2, <1>3, <1>6, <1>7, <1>8, <1>9, OutcomeKeeps

\* A conflict: the operation was never accepted.
LEMMA ConflictKeeps ==
  ASSUME ClusterInv, NEW r \in Req, req[r].pc \in {"post", "poll"}, Conflict(r),
         AgentInv', \A k \in Node : RegisterStep(k), UNCHANGED <<ops, left, posts>>, UnchangedRest,
         ops[req[r].node][req[r].op] = None, \A post \in posts : post.op # req[r].op
  PROVE  Good
  <1>1. CASE Fail(r, FALSE, FALSE)
    BY <1>1, FailKeeps, ClusterInvFacts DEF ClusterTypeOK
  <1>2. CASE pending' = Cleared(r) /\ req' = Answer(r) /\ UNCHANGED <<failures, avail, loaded, suspect, placement>>
    <2>1. OnlyMove({r}) /\ req'[r] = Idle
      BY <1>2, AnswerMoves, ClusterInvFacts
    <2>2. UNCHANGED <<desired, purge, beat, version, epoch>>
      BY DEF UnchangedRest
    <2>3. /\ pending' \in [Node -> [Model -> Reservation \cup {None}]]
          /\ \A k \in Node, l \in Model :
               \/ pending'[k][l] = pending[k][l]
               \/ /\ pending'[k][l] = None
                  /\ k = req[r].node /\ l = req[r].model /\ pending[k][l].op = req[r].op
      BY <1>2, ClearedMoves
    <2>4. ClusterTypeOK'
      <3>1. /\ failures' \in [Node -> 0..(Threshold + 1)] /\ avail' \in [Node -> 0..Places]
            /\ loaded' \in [Node -> [Model -> Info \cup {None}]]
            /\ suspect' \in [Node -> SUBSET Model] /\ placement' \in [Model -> Node \cup {None}]
            /\ left' \in [Fault -> Nat \cup {None}] /\ posts' \subseteq Post
        BY <1>2, ClusterInvFacts DEF ClusterTypeOK
      <3> QED
        BY <2>1, <2>2, <2>3, <3>1, OutcomeTyped
    <2>5. SafeFailover
      BY <2>3, WithdrawalIsSafe
    <2> QED
      BY <1>2, <2>1, <2>2, <2>3, <2>4, <2>5, IdleSound, OutcomeKeeps
  <1> QED
    BY <1>1, <1>2, Zenon DEF Conflict

\* The answer to the POST of a new operation.
LEMMA PostedKeeps ==
  ASSUME ClusterInv, NEW r \in Req, Posted(r)
  PROVE  Good
  <1> DEFINE n == req[r].node  m == req[r].model  o == req[r].op  id == req[r].id
             answer == LoadAnswer(n, o, m, id)
  <1>1. req[r].pc = "post" /\ HandleLoad(n, o, m, id) /\ UNCHANGED <<posts, left>> /\ UnchangedRest
    BY DEF Posted
  <1>2. /\ n \in Node /\ m \in Model /\ id \in Identity /\ o \in Op
    BY <1>1, OperationTyped
  <1>3. AgentInv' /\ \A k \in Node : RegisterStep(k)
    BY <1>1, <1>2, HandleLoadKeeps, ClusterInvFacts
  <1>4. Alone(r)
    BY <1>1, ClusterInvFacts DEF OpInv, PostAlone
  <1>5. ops[n][o] = None /\ \A post \in posts : post.op # o
    BY <1>2, <1>4 DEF Alone
  <1>6. /\ \A k \in Node, p \in Op : ops'[k][p] # None => ops[k][p] # None \/ p = o
        /\ answer = "ready" => ops'[n][o].at = "ready"
        /\ answer = "loading" => ops'[n][o] # None
        /\ answer \notin {"ready", "loading"} => ops' = ops
    BY <1>1, <1>2, <1>5, HandleLoadRecords, ClusterInvFacts
  <1>7. CASE answer = "ready" /\ Finish(r, 0)
    BY <1>1, <1>3, <1>5, <1>6, <1>7, FinishKeeps
  <1>8. CASE answer = "loading" /\ Acknowledge(r) /\ req' = Goto(r, "poll") /\ UNCHANGED placement
    BY <1>1, <1>3, <1>6, <1>8, AcknowledgeKeeps
  <1>9. CASE answer = "conflict" /\ Conflict(r)
    BY <1>1, <1>3, <1>5, <1>6, <1>9, ConflictKeeps
  <1>10. CASE answer \in {"foreign", "failed", "late"} /\ Fail(r, TRUE, FALSE)
    BY <1>1, <1>3, <1>5, <1>6, <1>10, FailKeeps, ClusterInvFacts DEF ClusterTypeOK
  <1> QED
    BY <1>7, <1>8, <1>9, <1>10, Zenon DEF Posted

LEMMA QuietAgentsStay ==
  ASSUME ClusterInv, UNCHANGED agentVars
  PROVE  /\ AgentInv' /\ (\A k \in Node : RegisterStep(k))
         /\ UNCHANGED <<ops, server, builtFrom, agentLock, unloads>>
  BY QuietAgents, ClusterInvFacts DEF AgentInv, AgentTypeOK, agentVars

LEMMA PostRefusedKeeps ==
  ASSUME ClusterInv, NEW r \in Req, PostRefused(r)
  PROVE  Good
  <1>1. /\ req[r].pc = "post" /\ Spend("refused") /\ Fail(r, FALSE, FALSE)
        /\ UNCHANGED <<posts, agentVars>> /\ UnchangedRest
    BY DEF PostRefused
  <1>2. AgentInv' /\ (\A k \in Node : RegisterStep(k)) /\ UNCHANGED ops
    BY <1>1, QuietAgentsStay
  <1>3. left' \in [Fault -> Nat \cup {None}]
    BY <1>1, SpendTyped, ClusterInvFacts DEF ClusterTypeOK
  <1>4. Alone(r) /\ req[r].node \in Node
    BY <1>1, OperationTyped, ClusterInvFacts DEF OpInv, PostAlone
  <1> QED
    BY <1>1, <1>2, <1>3, <1>4, FailKeeps DEF Alone

LEMMA PostLostKeeps ==
  ASSUME ClusterInv, NEW r \in Req, PostLost(r)
  PROVE  Good
  <1> DEFINE q == [req[r] EXCEPT !.pc = "poll"]
             late == [node |-> req[r].node, op |-> req[r].op, model |-> req[r].model, id |-> req[r].id]
  <1>1. /\ req[r].pc = "post" /\ Spend("lost") /\ req' = Become(r, q)
        /\ posts' = posts \/ posts' = posts \cup {late}
        /\ UNCHANGED <<book, placement, agentVars>>
        /\ UNCHANGED <<desired, purge, beat, version, epoch>>
    BY Zenon DEF PostLost, Goto, UnchangedRest
  <1>2. /\ req[r] \in Request /\ Sound(req[r]) /\ Booted
        /\ req[r].node \in Node /\ req[r].model \in Model /\ req[r].id \in Identity /\ req[r].op \in Op
    BY <1>1, OperationTyped
  <1>3. /\ q \in Request /\ q.pc = "poll" /\ q.mode = req[r].mode /\ q.op = req[r].op
        /\ q.model = req[r].model /\ q.node = req[r].node /\ q.id = req[r].id /\ q.attached = req[r].attached
    BY <1>2 DEF Request, Pcs
  <1>4. late \in Post /\ late.op = req[r].op
    BY <1>2 DEF Post
  <1> HIDE DEF q, late
  <1>5. Sound(q)
    BY <1>1, <1>2, <1>3 DEF Sound, OnNode
  <1>6. OnlyMove({r}) /\ req'[r] = q
    BY <1>1, <1>3, <1>5, BecomeMoves, ClusterInvFacts
  <1>7. AgentInv' /\ (\A k \in Node : RegisterStep(k)) /\ UNCHANGED <<ops, server, builtFrom, agentLock>>
    BY <1>1, QuietAgentsStay
  <1>8. UNCHANGED <<failures, avail, loaded, pending, suspect, placement>>
    BY <1>1 DEF book
  <1>9. left' \in [Fault -> Nat \cup {None}] /\ posts' \subseteq Post
    BY <1>1, <1>4, SpendTyped, ClusterInvFacts DEF ClusterTypeOK
  <1>10. ClusterTypeOK'
    BY <1>1, <1>6, <1>7, <1>8, <1>9, OutcomeTyped, ClusterInvFacts DEF ClusterTypeOK
  <1>11. SafeFailover
    BY <1>8, NoWithdrawal
  <1>12. EvictMove({r})
    BY <1>1, <1>2, <1>3, <1>6, <1>8 DEF EvictMove, OnNode
  <1>13. EvictInv'
    BY <1>6, <1>12, ClusterInvFacts, EvictMoves
  <1>14. /\ \A post \in posts : post.op # req[r].op
         /\ \A p \in Req \ {r} : req[p].op # req[r].op
    BY <1>1, ClusterInvFacts DEF OpInv, PostAlone, Alone
  <1>15. OpMove({r})
    BY <1>1, <1>3, <1>4, <1>6, <1>7, <1>8, <1>14 DEF OpMove
  <1> QED
    BY <1>6, <1>7, <1>10, <1>11, <1>13, <1>15, GatewayStep

\* A POST that no one waits for reaches the agent: its operation is new there.
LEMMA LatePostKeeps ==
  ASSUME ClusterInv, NEW post \in posts, LatePost(post)
  PROVE  Good
  <1>1. /\ HandleLoad(post.node, post.op, post.model, post.id) /\ posts' = posts \ {post}
        /\ UNCHANGED <<book, placement, req, left>> /\ UNCHANGED <<desired, purge, beat, version, epoch>>
    BY DEF LatePost, UnchangedRest
  <1>2. post.node \in Node /\ post.op \in Op /\ post.model \in Model /\ post.id \in Identity /\ posts \subseteq Post
    BY ClusterInvFacts DEF ClusterTypeOK, Post
  <1>3. AgentInv' /\ \A k \in Node : RegisterStep(k)
    BY <1>1, <1>2, HandleLoadKeeps, ClusterInvFacts
  <1>4. OnlyMove({})
    BY <1>1, StillRequests, ClusterInvFacts
  <1>5. UNCHANGED <<failures, avail, loaded, pending, suspect>>
    BY <1>1 DEF book
  <1>6. ClusterTypeOK'
    BY <1>1, <1>2, <1>3, <1>4, <1>5, OutcomeTyped, ClusterInvFacts DEF ClusterTypeOK
  <1>7. SafeFailover
    BY <1>5, NoWithdrawal
  <1>8. EvictInv'
    BY <1>1, <1>4, <1>5, EvictStays, ClusterInvFacts
  <1>9. \A k \in Node, o \in Op : ops'[k][o] # None => ops[k][o] # None \/ o = post.op
    BY <1>1, <1>2, HandleLoadRecords, ClusterInvFacts
  <1>10. \A late \in posts : late.op = post.op => late = post
    BY ClusterInvFacts DEF OpInv, LateUnknown
  <1>11. \A q \in Req : req[q].pc = "post" => req[q].op # post.op
    BY ClusterInvFacts DEF OpInv, PostAlone, Alone
  <1>12. OpMove({})
    BY <1>1, <1>5, <1>9, <1>10, <1>11 DEF OpMove
  <1> QED
    BY <1>3, <1>4, <1>6, <1>7, <1>8, <1>12, Together

\* An operation that the agent knows has arrived.
LEMMA KnownArrived ==
  ASSUME ClusterInv, NEW n \in Node, NEW o \in Op, ops[n][o] # None
  PROVE  \A post \in posts : post.op # o
  BY ClusterInvFacts DEF OpInv, LateUnknown

LEMMA PolledKeeps ==
  ASSUME ClusterInv, NEW r \in Req, Polled(r)
  PROVE  Good
  <1> DEFINE n == req[r].node  operation == ops[n][req[r].op]
  <1>1. /\ req[r].pc = "poll" /\ operation # None
        /\ UNCHANGED <<posts, left, agentVars>> /\ UnchangedRest
    BY DEF Polled
  <1>2. /\ req[r] \in Request /\ Sound(req[r]) /\ n \in Node /\ req[r].op \in Op
    BY <1>1, OperationTyped
  <1>3. AgentInv' /\ (\A k \in Node : RegisterStep(k)) /\ UNCHANGED ops
    BY <1>1, QuietAgentsStay
  <1>4. \A post \in posts : post.op # req[r].op
    BY <1>1, <1>2, KnownArrived
  <1>5. CASE operation.at = "ready" /\ Finish(r, 1)
    BY <1>1, <1>3, <1>4, <1>5, FinishKeeps
  <1>6. CASE operation.at \in {"failed", "late"} /\ Fail(r, TRUE, FALSE)
    BY <1>1, <1>3, <1>4, <1>6, FailKeeps, ClusterInvFacts DEF ClusterTypeOK, Terminal
  <1>7. CASE Acknowledge(r) /\ UNCHANGED <<placement, req>>
    <2>1. OnlyMove({r}) /\ req'[r] = req[r]
      BY <1>2, <1>7, ClusterInvFacts DEF OnlyMove, Keeps
    <2>2. UNCHANGED <<desired, purge, beat, version, epoch>>
      BY <1>1 DEF UnchangedRest
    <2>3. /\ UNCHANGED <<failures, avail, loaded, suspect>>
          /\ pending' \in [Node -> [Model -> Reservation \cup {None}]]
          /\ \A k \in Node, l \in Model :
               \/ pending'[k][l] = pending[k][l]
               \/ /\ pending'[k][l] # None /\ pending'[k][l].op = req[r].op
          /\ \A k \in Node, l \in Model : pending[k][l] # None => pending'[k][l] # None
      BY <1>1, <1>7, AcknowledgeMoves
    <2>4. ClusterTypeOK'
      BY <1>1, <1>3, <1>7, <2>1, <2>2, <2>3, OutcomeTyped, ClusterInvFacts DEF ClusterTypeOK
    <2>5. SafeFailover
      BY <2>3, NoWithdrawal
    <2> QED
      BY <1>1, <1>2, <1>3, <2>1, <2>2, <2>3, <2>4, <2>5, OutcomeKeeps
  <1> QED
    BY <1>5, <1>6, <1>7, Zenon DEF Polled

\* A 404 is final when the agent had proved that it knew the operation, or when
\* the POST can no longer arrive.
LEMMA AbandonedKeeps ==
  ASSUME ClusterInv, NEW r \in Req, Abandoned(r)
  PROVE  Good
  <1> DEFINE n == req[r].node
  <1>1. /\ req[r].pc = "poll" /\ Fail(r, TRUE, req[r].mode = "resume")
        /\ UNCHANGED <<posts, left, agentVars>> /\ UnchangedRest
        /\ \/ ~Online(n)
           \/ /\ ops[n][req[r].op] = None
              /\ \/ IsMine(r) /\ pending[n][req[r].model].ack
                 \/ ~InFlight(req[r].op)
    BY DEF Abandoned
  <1>2. n \in Node /\ req[r].model \in Model
    BY <1>1, OperationTyped
  <1>3. AgentInv' /\ (\A k \in Node : RegisterStep(k)) /\ UNCHANGED ops
    BY <1>1, QuietAgentsStay
  <1>4. Online(n) => ops[n][req[r].op] = None /\ \A post \in posts : post.op # req[r].op
    BY <1>1, <1>2, ClusterInvFacts DEF OpInv, AckedArrived, IsMine, InFlight
  <1> QED
    BY <1>1, <1>3, <1>4, FailKeeps, ClusterInvFacts DEF ClusterTypeOK

LEMMA UncertainKeeps ==
  ASSUME ClusterInv, NEW r \in Req, Uncertain(r)
  PROVE  Good
  <1> DEFINE n == req[r].node
  <1>1. req[r].pc = "poll" /\ Spend("doubt") /\ UNCHANGED <<posts, agentVars>> /\ UnchangedRest
    BY DEF Uncertain
  <1>2. left' \in [Fault -> Nat \cup {None}]
    BY <1>1, SpendTyped, ClusterInvFacts DEF ClusterTypeOK
  <1>3. AgentInv' /\ (\A k \in Node : RegisterStep(k)) /\ UNCHANGED ops
    BY <1>1, QuietAgentsStay
  <1>4. CASE req' = Answer(r) /\ UNCHANGED <<book, placement>>
    <2>1. OnlyMove({r}) /\ req'[r] = Idle
      BY <1>4, AnswerMoves, ClusterInvFacts
    <2>2. UNCHANGED <<failures, avail, loaded, pending, suspect>>
      BY <1>4 DEF book
    <2>3. UNCHANGED <<desired, purge, beat, version, epoch>>
      BY <1>1 DEF UnchangedRest
    <2>4. ClusterTypeOK'
      BY <1>1, <1>2, <1>3, <1>4, <2>1, <2>2, <2>3, OutcomeTyped, ClusterInvFacts DEF ClusterTypeOK
    <2>5. SafeFailover
      BY <2>2, NoWithdrawal
    <2> QED
      BY <1>1, <1>3, <2>1, <2>2, <2>3, <2>4, <2>5, IdleSound, OutcomeKeeps
  <1>5. CASE /\ ops[n][req[r].op] # None => ops[n][req[r].op].at \in Terminal
             /\ ~InFlight(req[r].op)
             /\ Fail(r, TRUE, req[r].mode = "resume")
    BY <1>1, <1>2, <1>3, <1>5, FailKeeps DEF InFlight
  <1> QED
    BY <1>4, <1>5, Zenon DEF Uncertain

-----------------------------------------------------------------------------
(* Streams                                                                 *)

LEMMA StreamEndsKeeps ==
  ASSUME ClusterInv, NEW r \in Req, StreamEnds(r)
  PROVE  Good
  <1>1. /\ req[r].pc = "serve" /\ req' = Answer(r) /\ UNCHANGED <<book, placement, desired, left>>
        /\ UNCHANGED <<purge, beat, posts, version, epoch, agentVars>>
    BY DEF StreamEnds, UnchangedWorld
  <1>2. OnlyMove({r}) /\ req'[r] = Idle
    BY <1>1, AnswerMoves, ClusterInvFacts
  <1>3. UNCHANGED <<failures, avail, loaded, pending, suspect>>
    BY <1>1 DEF book
  <1>4. ClusterTypeOK'
    BY <1>1, <1>2, <1>3, AgentTypesStay, ClusterInvFacts DEF ClusterTypeOK, OnlyMove
  <1>5. SafeFailover
    BY <1>3, NoWithdrawal
  <1> QED
    BY <1>1, <1>2, <1>3, <1>4, <1>5, IdleSound, RequestStepKeeps DEF OnNode

LEMMA BackendFailedKeeps ==
  ASSUME ClusterInv, NEW r \in Req, BackendFailed(r)
  PROVE  Good
  <1> DEFINE n == req[r].node  m == req[r].model  s == suspect[n] \cup {m}
  <1>1. /\ req[r].pc = "serve" /\ req' = Answer(r) /\ UNCHANGED <<failures, avail, loaded, pending, desired>>
        /\ UNCHANGED <<purge, beat, posts, version, epoch, agentVars>>
        /\ left' = left \/ Spend("unroutable")
        /\ \/ placement' = [placement EXCEPT ![m] = None] /\ suspect' = [suspect EXCEPT ![n] = s]
           \/ UNCHANGED <<placement, suspect>>
    BY Zenon DEF BackendFailed, UnchangedWorld
  <1>2. OnlyMove({r}) /\ req'[r] = Idle
    BY <1>1, AnswerMoves, ClusterInvFacts
  <1>3. n \in Node /\ m \in Model
    BY <1>1, ClusterInvFacts DEF RequestInv, Sound
  <1>4. left' \in [Fault -> Nat \cup {None}]
    BY <1>1, SpendTyped, ClusterInvFacts DEF ClusterTypeOK
  <1>5. placement' \in [Model -> Node \cup {None}] /\ suspect' \in [Node -> SUBSET Model]
    <2>1. /\ placement \in [Model -> Node \cup {None}] /\ suspect \in [Node -> SUBSET Model]
      BY ClusterInvFacts DEF ClusterTypeOK
    <2>2. s \in SUBSET Model
      BY <1>3, <2>1
    <2> HIDE DEF s
    <2> QED
      BY <1>1, <2>1, <2>2
  <1>6. ClusterTypeOK'
    BY <1>1, <1>2, <1>4, <1>5, AgentTypesStay, ClusterInvFacts DEF ClusterTypeOK, OnlyMove
  <1>7. SafeFailover
    BY <1>1, NoWithdrawal
  <1> QED
    BY <1>1, <1>2, <1>6, <1>7, IdleSound, RequestStepKeeps DEF OnNode

-----------------------------------------------------------------------------
(* The nodes: unload_all_models and the heartbeat                          *)

\* Records are dropped or kept, and no request moves.
LEMMA RecordsKeeps ==
  ASSUME ClusterInv, ClusterTypeOK', UNCHANGED <<ops, server, builtFrom, agentLock, posts>>, OnlyMove({}),
         \A k \in Node, m \in Model :
           /\ loaded'[k][m] # None /\ loaded'[k][m].evicting => loaded[k][m] # None /\ loaded[k][m].evicting
           /\ loaded[k][m] # None /\ loaded'[k][m] = None => \A r \in Req : req[r].pc = "evict" => req[r].node # k,
         \A k \in Node : purge'[k] = "calling" => purge[k] = "calling" \/ NodeFree(k),
         \A k \in Node : beat'[k].at = "boot" => beat[k].at = "boot",
         purge' = purge \/ Booted,
         \A k \in Node, m \in Model :
           \/ pending'[k][m] = pending[k][m]
           \/ /\ pending'[k][m] # None /\ pending'[k][m].op \in Op
              /\ \E j \in Node : ops[j][pending'[k][m].op] # None
  PROVE  Good
  <1>1. EvictMove({})
    BY DEF EvictMove
  <1>2. EvictInv'
    BY <1>1, EvictMoves, ClusterInvFacts
  <1>3. OpMove({})
    BY DEF OpMove
  <1>4. SafeFailover
    BY NoWithdrawal
  <1> QED
    BY <1>2, <1>3, <1>4, GatewayStep

LEMMA UnloadAllKeeps ==
  ASSUME ClusterInv, UnloadAll
  PROVE  Good
  <1>1. /\ Booted /\ Spend("unload all") /\ purge' = [n \in Node |-> "waiting"]
        /\ UNCHANGED <<book, placement, desired, req, beat, posts, version, epoch, agentVars>>
    BY DEF UnloadAll
  <1>2. UNCHANGED <<failures, avail, loaded, pending, suspect>>
    BY <1>1 DEF book
  <1>3. OnlyMove({})
    BY <1>1, StillRequests, ClusterInvFacts
  <1>4. ClusterTypeOK'
    BY <1>1, <1>2, SpendTyped, AgentTypesStay, ClusterInvFacts DEF ClusterTypeOK
  <1> QED
    BY <1>1, <1>2, <1>3, <1>4, RecordsKeeps DEF agentVars

LEMMA EditModelKeeps ==
  ASSUME ClusterInv, NEW m \in Model, EditModel(m)
  PROVE  Good
  <1>1. /\ Spend("edit") /\ version' = [version EXCEPT ![m] = @ + 1]
        /\ UNCHANGED <<book, placement, desired, req, purge, beat, posts, epoch, agentVars>>
    BY DEF EditModel
  <1>2. UNCHANGED <<failures, avail, loaded, pending, suspect>>
    BY <1>1 DEF book
  <1>3. OnlyMove({})
    BY <1>1, StillRequests, ClusterInvFacts
  <1>4. version' \in [Model -> Nat]
    BY <1>1, ClusterInvFacts DEF ClusterTypeOK
  <1>5. ClusterTypeOK'
    BY <1>1, <1>2, <1>4, SpendTyped, AgentTypesStay, ClusterInvFacts DEF ClusterTypeOK
  <1> QED
    BY <1>1, <1>2, <1>3, <1>5, RecordsKeeps DEF agentVars

\* unload_all runs once the gateway has booted.
LEMMA PurgingIsBooted ==
  ASSUME ClusterInv, NEW n \in Node, purge[n] # "idle"
  PROVE  Booted
  BY ClusterInvFacts DEF EvictInv, BootIsQuiet, Booted

LEMMA UnloadNodeAllKeeps ==
  ASSUME ClusterInv, NEW n \in Node, UnloadNodeAll(n)
  PROVE  Good
  <1>1. /\ purge[n] = "waiting" /\ NodeFree(n) /\ purge' = [purge EXCEPT ![n] = "calling"]
        /\ unloads' = [unloads EXCEPT ![n] = @ \cup Managers(n)]
        /\ UNCHANGED <<book, placement, desired, req, beat, posts, version, epoch, left>>
        /\ UNCHANGED <<ops, server, builtFrom, agentLock>>
    BY DEF UnloadNodeAll
  <1>2. UNCHANGED <<failures, avail, loaded, pending, suspect>>
    BY <1>1 DEF book
  <1>3. OnlyMove({})
    BY <1>1, StillRequests, ClusterInvFacts
  <1>4. AgentTypeOK'
    BY <1>1, ClusterInvFacts DEF AgentTypeOK, Managers
  <1>5. purge' \in [Node -> {"idle", "waiting", "calling", "done"}]
    BY <1>1, ClusterInvFacts DEF ClusterTypeOK
  <1>6. ClusterTypeOK'
    BY <1>1, <1>2, <1>4, <1>5, ClusterInvFacts DEF ClusterTypeOK
  <1>7. \A k \in Node : purge'[k] = "calling" => purge[k] = "calling" \/ NodeFree(k)
    BY <1>1, ClusterInvFacts DEF ClusterTypeOK
  <1>8. Booted
    BY <1>1, PurgingIsBooted
  <1> QED
    BY <1>1, <1>2, <1>3, <1>6, <1>7, <1>8, RecordsKeeps

LEMMA NodeDoneMoves ==
  ASSUME ClusterInv, NEW n \in Node, NodeDone(n)
  PROVE  /\ purge' \in [Node -> {"idle", "waiting", "calling", "done"}]
         /\ \A k \in Node : purge'[k] = "calling" => purge[k] = "calling"
  BY ClusterInvFacts DEF NodeDone, ClusterTypeOK

LEMMA NodeUnloadedKeeps ==
  ASSUME ClusterInv, NEW n \in Node, NodeUnloaded(n)
  PROVE  Good
  <1>1. /\ purge[n] = "calling" /\ NodeDone(n)
        /\ loaded' = [loaded EXCEPT ![n] = [m \in Model |-> None]]
        /\ suspect' = [suspect EXCEPT ![n] = {}]
        /\ avail' = [avail EXCEPT ![n] = AgentFree(n)]
        /\ placement' = [m \in Model |-> IF loaded[n][m] = None THEN placement[m] ELSE Unroute(m, n)]
        /\ req' = Detach(n, Model)
        /\ UNCHANGED <<failures, pending, desired, beat, posts, version, epoch, left, agentVars>>
    BY DEF NodeUnloaded
  <1>2. OnlyMove({})
    BY <1>1, DetachedMoves, ClusterInvFacts
  <1>3. loaded' \in [Node -> [Model -> Info \cup {None}]] /\ suspect' \in [Node -> SUBSET Model]
    BY <1>1, ClusterInvFacts DEF ClusterTypeOK
  <1>4. avail' \in [Node -> 0..Places]
    BY <1>1, AgentFreeTyped, ClusterInvFacts DEF ClusterTypeOK
  <1>5. placement' \in [Model -> Node \cup {None}]
    BY <1>1, UnroutedTyped, ClusterInvFacts DEF ClusterTypeOK
  <1>6. AgentTypeOK'
    BY <1>1, AgentTypesStay, ClusterInvFacts
  <1>7. ClusterTypeOK'
    BY <1>1, <1>2, <1>3, <1>4, <1>5, <1>6, NodeDoneMoves, ClusterInvFacts DEF ClusterTypeOK, OnlyMove
  <1>8. \A r \in Req : req[r].pc = "evict" => req[r].node # n
    BY <1>1, ClusterInvFacts DEF EvictInv, OneOnNode, OnNode
  <1>9. \A k \in Node, m \in Model : loaded'[k][m] = loaded[k][m] \/ (k = n /\ loaded'[k][m] = None)
    BY <1>1, ClusterInvFacts DEF ClusterTypeOK
  <1>10. Booted
    BY <1>1, PurgingIsBooted
  <1> QED
    BY <1>1, <1>2, <1>7, <1>8, <1>9, <1>10, NodeDoneMoves, RecordsKeeps DEF agentVars

LEMMA NodeUnloadLostKeeps ==
  ASSUME ClusterInv, NEW n \in Node, NodeUnloadLost(n)
  PROVE  Good
  <1>1. /\ purge[n] = "calling" /\ NodeDone(n) /\ Spend("lost")
        /\ failures' = [failures EXCEPT ![n] = MoreFailures(n)]
        /\ UNCHANGED <<avail, loaded, pending, suspect, placement, desired, req, beat, posts, version, epoch, agentVars>>
    BY DEF NodeUnloadLost
  <1>2. OnlyMove({})
    BY <1>1, StillRequests, ClusterInvFacts
  <1>3. failures' \in [Node -> 0..(Threshold + 1)]
    BY <1>1, MoreFailuresTyped, ClusterInvFacts DEF ClusterTypeOK
  <1>4. ClusterTypeOK'
    BY <1>1, <1>3, SpendTyped, AgentTypesStay, NodeDoneMoves, ClusterInvFacts DEF ClusterTypeOK
  <1>5. Booted
    BY <1>1, PurgingIsBooted
  <1> QED
    BY <1>1, <1>2, <1>4, <1>5, NodeDoneMoves, RecordsKeeps DEF agentVars

LEMMA HeartbeatLostKeeps ==
  ASSUME ClusterInv, NEW n \in Node, HeartbeatLost(n)
  PROVE  Good
  <1>1. /\ Spend("lost") /\ failures' = [failures EXCEPT ![n] = MoreFailures(n)]
        /\ beat' = [beat EXCEPT ![n] = NoBeat]
        /\ UNCHANGED <<avail, loaded, pending, suspect, placement, desired, req, purge, posts, version, epoch, agentVars>>
    BY DEF HeartbeatLost
  <1>2. OnlyMove({})
    BY <1>1, StillRequests, ClusterInvFacts
  <1>3. failures' \in [Node -> 0..(Threshold + 1)]
    BY <1>1, MoreFailuresTyped, ClusterInvFacts DEF ClusterTypeOK
  <1>4. NoBeat \in Beat /\ NoBeat.at = "none"
    BY AgentAssumption DEF NoBeat, Beat
  <1>5. beat' \in [Node -> Beat] /\ \A k \in Node : beat'[k].at = "boot" => beat[k].at = "boot"
    BY <1>1, <1>4, ClusterInvFacts DEF ClusterTypeOK
  <1>6. ClusterTypeOK'
    BY <1>1, <1>3, <1>5, SpendTyped, AgentTypesStay, ClusterInvFacts DEF ClusterTypeOK
  <1> QED
    BY <1>1, <1>2, <1>5, <1>6, RecordsKeeps DEF agentVars

LEMMA HeartbeatSlowKeeps ==
  ASSUME ClusterInv, NEW n \in Node, HeartbeatSlow(n)
  PROVE  Good
  <1> DEFINE b == [at |-> "sent", listed |-> Managers(n), free |-> AgentFree(n)]
  <1>1. /\ Spend("slow") /\ beat' = [beat EXCEPT ![n] = b]
        /\ UNCHANGED <<book, placement, desired, req, purge, posts, version, epoch, agentVars>>
    BY DEF HeartbeatSlow
  <1>2. OnlyMove({})
    BY <1>1, StillRequests, ClusterInvFacts
  <1>3. UNCHANGED <<failures, avail, loaded, pending, suspect>>
    BY <1>1 DEF book
  <1>4. b \in Beat /\ b.at = "sent"
    BY AgentFreeTyped DEF Beat, Managers
  <1> HIDE DEF b
  <1>5. beat' \in [Node -> Beat] /\ \A k \in Node : beat'[k].at = "boot" => beat[k].at = "boot"
    BY <1>1, <1>4, ClusterInvFacts DEF ClusterTypeOK
  <1>6. ClusterTypeOK'
    BY <1>1, <1>3, <1>5, SpendTyped, AgentTypesStay, ClusterInvFacts DEF ClusterTypeOK
  <1> QED
    BY <1>1, <1>2, <1>3, <1>5, <1>6, RecordsKeeps DEF agentVars

\* Both answers to a heartbeat drop records of a node only while no operation runs on it.
LEMMA DropUnlistedKeeps ==
  ASSUME ClusterInv, NEW n \in Node, NEW listed, NEW free \in 0..Places, DropUnlisted(n, listed, free),
         beat' = [beat EXCEPT ![n] = NoBeat],
         UNCHANGED <<desired, purge, posts, version, epoch, left, agentVars>>
  PROVE  Good
  <1> DEFINE gone == IF NodeFree(n) THEN {m \in Model \ listed : loaded[n][m] # None} ELSE {}
  <1>1. /\ failures' = [failures EXCEPT ![n] = 0] /\ avail' = [avail EXCEPT ![n] = free]
        /\ loaded' = [loaded EXCEPT ![n] = [m \in Model |-> IF m \in gone THEN None ELSE loaded[n][m]]]
        /\ UNCHANGED <<pending, suspect>>
        /\ placement' = [m \in Model |-> IF m \in gone THEN Unroute(m, n) ELSE placement[m]]
        /\ req' = Detach(n, gone)
    BY Zenon DEF DropUnlisted
  <1>2. OnlyMove({})
    BY <1>1, DetachedMoves, ClusterInvFacts
  <1>3. gone # {} => \A r \in Req : req[r].pc = "evict" => req[r].node # n
    BY DEF NodeFree
  <1> HIDE DEF gone
  <1>4. /\ loaded' \in [Node -> [Model -> Info \cup {None}]]
        /\ \A k \in Node, m \in Model :
             loaded'[k][m] = loaded[k][m] \/ (k = n /\ loaded'[k][m] = None /\ m \in gone)
    BY <1>1, ClusterInvFacts DEF ClusterTypeOK
  <1>5. failures' \in [Node -> 0..(Threshold + 1)] /\ avail' \in [Node -> 0..Places]
    BY <1>1, ClusterAssumption, ClusterInvFacts DEF ClusterTypeOK
  <1>6. placement' \in [Model -> Node \cup {None}]
    BY <1>1, UnroutedTyped, ClusterInvFacts DEF ClusterTypeOK
  <1>7. NoBeat \in Beat /\ NoBeat.at = "none"
    BY AgentAssumption DEF NoBeat, Beat
  <1>8. beat' \in [Node -> Beat] /\ \A k \in Node : beat'[k].at = "boot" => beat[k].at = "boot"
    BY <1>7, ClusterInvFacts DEF ClusterTypeOK
  <1>9. ClusterTypeOK'
    BY <1>1, <1>2, <1>4, <1>5, <1>6, <1>8, AgentTypesStay, ClusterInvFacts DEF ClusterTypeOK, OnlyMove
  <1> QED
    BY <1>1, <1>2, <1>3, <1>4, <1>8, <1>9, RecordsKeeps DEF agentVars

LEMMA HeartbeatReadKeeps ==
  ASSUME ClusterInv, NEW n \in Node, HeartbeatRead(n)
  PROVE  Good
  <1>1. beat[n].free \in 0..Places
    BY ClusterInvFacts DEF ClusterTypeOK, Beat
  <1> QED
    BY <1>1, DropUnlistedKeeps DEF HeartbeatRead

\* What the status of an agent names: the identity of each READY server, and the
\* operation of each LOADING one.
LEMMA StatusTyped ==
  ASSUME ClusterInv, NEW n \in Node, NEW m \in Model
  PROVE  /\ server[n][m] = "ready" => builtFrom[n][m] \in Identity
         /\ server[n][m] = "loading" =>
              /\ agentLock[n][m] \in Op /\ ops[n][agentLock[n][m]] # None
              /\ ops[n][agentLock[n][m]].id \in Identity
  <1>1. LocksOf(n) /\ AgentTypeOK
    BY ClusterInvFacts DEF LockInv
  <1>2. server[n][m] = "loading" => agentLock[n][m] \in Op /\ ops[n][agentLock[n][m]] # None
    BY <1>1 DEF LocksOf, HoldersWork
  <1> QED
    BY <1>1, <1>2, ModelOfOp DEF LocksOf, HoldersWork, AgentTypeOK

LEMMA ApplyInventoryKeeps ==
  ASSUME ClusterInv, NEW n \in Node, ApplyInventory(n), beat' = [beat EXCEPT ![n] = NoBeat],
         NodeFree(n) \/ beat[n].at = "boot",
         UNCHANGED <<purge, posts, version, epoch, left, agentVars>>
  PROVE  Good
  <1> DEFINE ready   == {m \in Model : server[n][m] = "ready"}
             starting == {m \in Model : server[n][m] = "loading"}
             built(m) == IF m \in ready THEN builtFrom[n][m] ELSE ops[n][agentLock[n][m]].id
             current == {m \in ready \cup starting : built(m).digest = version[m]}
             gone    == {m \in Model \ (ready \cup starting) : loaded[n][m] # None}
             base(m) == IF loaded[n][m] = None THEN NoInfo ELSE loaded[n][m]
             fresh(m) == [base(m) EXCEPT !.digest = built(m).digest]
             record(m) == IF m \in gone THEN None ELSE IF m \notin ready THEN loaded[n][m] ELSE fresh(m)
             resumed(m) == [op |-> agentLock[n][m], id |-> built(m), ack |-> TRUE, told |-> TRUE]
             reserved(m) == IF m \in starting \cap current THEN resumed(m) ELSE pending[n][m]
             routed(m) == IF m \in gone \cup (ready \ current) THEN Unroute(m, n) ELSE placement[m]
  <1>1. /\ failures' = [failures EXCEPT ![n] = 0]
        /\ avail' = [avail EXCEPT ![n] = AgentFree(n)]
        /\ loaded' = [loaded EXCEPT ![n] = [m \in Model |-> record(m)]]
        /\ pending' = [pending EXCEPT ![n] = [m \in Model |-> reserved(m)]]
        /\ suspect' = [suspect EXCEPT ![n] = (suspect[n] \cup (ready \ current)) \cap ready]
        /\ desired' = [m \in Model |-> IF m \in ready \cap current THEN built(m) ELSE desired[m]]
        /\ placement' = [m \in Model |-> IF m \in ready \cap current /\ routed(m) = None THEN n ELSE routed(m)]
        /\ req' = Detach(n, gone)
    BY Zenon DEF ApplyInventory
  <1>2. OnlyMove({})
    BY <1>1, DetachedMoves, ClusterInvFacts
  <1>3. \A r \in Req : req[r].pc = "evict" => req[r].node # n
    BY ClusterInvFacts DEF NodeFree, EvictInv, BootIsQuiet
  <1>4. \A m \in ready \cup starting : built(m) \in Identity /\ built(m).digest \in Nat
    BY StatusTyped DEF Identity
  <1>5. \A m \in starting : /\ agentLock[n][m] \in Op /\ ops[n][agentLock[n][m]] # None
    BY StatusTyped
  <1>6. \A m \in Model : base(m) \in Info /\ (loaded[n][m] = None => ~base(m).evicting)
    BY ClusterInvFacts DEF ClusterTypeOK, NoInfo, Info
  <1>7. \A m \in Model : base(m) \in Info /\ (base(m).evicting => loaded[n][m] # None /\ loaded[n][m].evicting)
    BY <1>6
  <1>8. /\ ready \subseteq Model /\ starting \subseteq Model /\ gone \subseteq Model
        /\ gone \cap ready = {}
    OBVIOUS
  <1> HIDE DEF built, base
  <1>9. \A m \in ready : fresh(m) \in Info /\ fresh(m).evicting = base(m).evicting
    BY <1>4, <1>7, <1>8 DEF Info
  <1>10. \A m \in starting : resumed(m) \in Reservation /\ resumed(m).op = agentLock[n][m]
    BY <1>4, <1>5 DEF Reservation
  <1> HIDE DEF fresh, resumed, ready, starting
  <1>11. \A m \in Model :
           /\ record(m) \in Info \cup {None}
           /\ record(m) # None /\ record(m).evicting => loaded[n][m] # None /\ loaded[n][m].evicting
    BY <1>7, <1>9, ClusterInvFacts DEF ClusterTypeOK
  <1>12. \A m \in Model :
           /\ reserved(m) \in Reservation \cup {None}
           /\ \/ reserved(m) = pending[n][m]
              \/ /\ reserved(m) # None /\ reserved(m).op \in Op
                 /\ ops[n][reserved(m).op] # None
    BY <1>5, <1>10, ClusterInvFacts, ClusterAssumption DEF ClusterTypeOK
  <1>13. \A m \in Model : routed(m) \in Node \cup {None}
    BY UnroutedTyped, ClusterInvFacts DEF ClusterTypeOK
  <1> HIDE DEF record, reserved, routed, gone, current
  <1>14. /\ loaded' \in [Node -> [Model -> Info \cup {None}]]
         /\ \A k \in Node, m \in Model : k # n => loaded'[k][m] = loaded[k][m]
         /\ \A m \in Model : loaded'[n][m] = record(m)
    BY <1>1, <1>11, ClusterInvFacts DEF ClusterTypeOK
  <1>15. /\ pending' \in [Node -> [Model -> Reservation \cup {None}]]
         /\ \A k \in Node, m \in Model : k # n => pending'[k][m] = pending[k][m]
         /\ \A m \in Model : pending'[n][m] = reserved(m)
    BY <1>1, <1>12, ClusterInvFacts DEF ClusterTypeOK
  <1>16. failures' \in [Node -> 0..(Threshold + 1)] /\ avail' \in [Node -> 0..Places]
    BY <1>1, AgentFreeTyped, ClusterAssumption, ClusterInvFacts DEF ClusterTypeOK
  <1>17. suspect' \in [Node -> SUBSET Model]
    <2> DEFINE s == (suspect[n] \cup (ready \ current)) \cap ready
    <2>1. s \in SUBSET Model /\ suspect' = [suspect EXCEPT ![n] = s]
      BY <1>1, <1>8
    <2> HIDE DEF s
    <2> QED
      BY <2>1, ClusterInvFacts DEF ClusterTypeOK
  <1>18. placement' \in [Model -> Node \cup {None}]
    BY <1>1, <1>13
  <1>19. desired' \in [Model -> Identity \cup {None}]
    BY <1>1, <1>4, ClusterInvFacts DEF ClusterTypeOK
  <1>20. NoBeat \in Beat /\ NoBeat.at = "none"
    BY AgentAssumption DEF NoBeat, Beat
  <1>21. beat' \in [Node -> Beat] /\ \A k \in Node : beat'[k].at = "boot" => beat[k].at = "boot"
    BY <1>20, ClusterInvFacts DEF ClusterTypeOK
  <1>22. ClusterTypeOK'
    BY <1>2, <1>14, <1>15, <1>16, <1>17, <1>18, <1>19, <1>21, AgentTypesStay, ClusterInvFacts
       DEF ClusterTypeOK, OnlyMove
  <1>23. \A k \in Node, m \in Model :
           /\ loaded'[k][m] # None /\ loaded'[k][m].evicting => loaded[k][m] # None /\ loaded[k][m].evicting
           /\ loaded[k][m] # None /\ loaded'[k][m] = None => \A r \in Req : req[r].pc = "evict" => req[r].node # k
    <2> SUFFICES ASSUME NEW k \in Node, NEW m \in Model
        PROVE /\ loaded'[k][m] # None /\ loaded'[k][m].evicting => loaded[k][m] # None /\ loaded[k][m].evicting
              /\ loaded[k][m] # None /\ loaded'[k][m] = None => \A r \in Req : req[r].pc = "evict" => req[r].node # k
      OBVIOUS
    <2>1. CASE k = n
      <3>1. loaded'[n][m] = record(m)
        BY <1>14
      <3>2. record(m) # None /\ record(m).evicting => loaded[n][m] # None /\ loaded[n][m].evicting
        BY <1>11
      <3> QED
        BY <1>3, <2>1, <3>1, <3>2
    <2>2. CASE k # n
      BY <1>14, <2>2
    <2> QED
      BY <2>1, <2>2
  <1>24. \A k \in Node, m \in Model :
           \/ pending'[k][m] = pending[k][m]
           \/ /\ pending'[k][m] # None /\ pending'[k][m].op \in Op
              /\ \E j \in Node : ops[j][pending'[k][m].op] # None
    <2> SUFFICES ASSUME NEW k \in Node, NEW m \in Model
        PROVE \/ pending'[k][m] = pending[k][m]
              \/ /\ pending'[k][m] # None /\ pending'[k][m].op \in Op
                 /\ \E j \in Node : ops[j][pending'[k][m].op] # None
      OBVIOUS
    <2>1. CASE k = n
      <3>1. pending'[n][m] = reserved(m)
        BY <1>15
      <3> QED
        BY <1>12, <2>1, <3>1
    <2>2. CASE k # n
      BY <1>15, <2>2
    <2> QED
      BY <2>1, <2>2
  <1>25. UNCHANGED <<ops, server, builtFrom, agentLock, posts, purge>>
    BY DEF agentVars
  <1>26. \A k \in Node : purge'[k] = "calling" => purge[k] = "calling" \/ NodeFree(k)
    BY <1>25
  <1> QED
    BY <1>2, <1>21, <1>22, <1>23, <1>24, <1>25, <1>26, RecordsKeeps

LEMMA HeartbeatKeeps ==
  ASSUME ClusterInv, NEW n \in Node, Heartbeat(n)
  PROVE  Good
  <1>1. /\ beat' = [beat EXCEPT ![n] = NoBeat] /\ UNCHANGED <<purge, posts, version, epoch, left, agentVars>>
        /\ \/ (NeedsStatus(n) \/ beat[n].at = "boot") /\ ApplyInventory(n)
           \/ DropUnlisted(n, Managers(n), AgentFree(n)) /\ UNCHANGED desired
    BY Zenon DEF Heartbeat
  <1>2. CASE (NeedsStatus(n) \/ beat[n].at = "boot") /\ ApplyInventory(n)
    BY <1>1, <1>2, ApplyInventoryKeeps DEF NeedsStatus
  <1>3. CASE DropUnlisted(n, Managers(n), AgentFree(n)) /\ UNCHANGED desired
    BY <1>1, <1>3, AgentFreeTyped, DropUnlistedKeeps
  <1> QED
    BY <1>1, <1>2, <1>3

-----------------------------------------------------------------------------
(* Restarts of the gateway, and the agents                                 *)

\* The last POSTs of the old gateway name operations that no one knows.
LEMMA GatewayRestartsKeeps ==
  ASSUME ClusterInv, GatewayRestarts
  PROVE  Good
  <1> DEFINE late(r) == [node |-> req[r].node, op |-> req[r].op, model |-> req[r].model, id |-> req[r].id]
             boot == [NoBeat EXCEPT !.at = "boot"]
  <1>1. PICK sent \in SUBSET {r \in Req : req[r].pc = "post"} : posts' = posts \cup {late(r) : r \in sent}
    BY Zenon DEF GatewayRestarts
  <1>2. /\ Spend("restart")
        /\ failures' = [n \in Node |-> IF Present(n) THEN 0 ELSE failures[n]]
        /\ avail' = [n \in Node |-> 0]
        /\ loaded' = [n \in Node |-> [m \in Model |-> None]]
        /\ pending' = [n \in Node |-> [m \in Model |-> None]]
        /\ suspect' = [n \in Node |-> {}]
        /\ placement' = [m \in Model |-> None] /\ desired' = [m \in Model |-> None]
        /\ req' = [r \in Req |-> Idle]
        /\ purge' = [n \in Node |-> "idle"]
        /\ beat' = [n \in Node |-> IF Present(n) THEN boot ELSE NoBeat]
        /\ epoch' = epoch + 1 /\ UNCHANGED <<version, agentVars>>
    BY Zenon DEF GatewayRestarts
  <1>3. \A r \in sent : /\ r \in Req /\ Alone(r) /\ late(r) \in Post /\ late(r).op = req[r].op
    BY <1>1, OperationTyped, ClusterInvFacts DEF OpInv, PostAlone, Post
  <1> HIDE DEF late
  <1>4. posts' \subseteq Post
    BY <1>1, <1>3, ClusterInvFacts DEF ClusterTypeOK
  <1>5. NoBeat \in Beat /\ boot \in Beat
    BY AgentAssumption DEF NoBeat, Beat
  <1> HIDE DEF boot
  <1>6. beat' \in [Node -> Beat]
    BY <1>2, <1>5
  <1>7. failures' \in [Node -> 0..(Threshold + 1)] /\ avail' \in [Node -> 0..Places]
    BY <1>2, AgentAssumption, ClusterAssumption, ClusterInvFacts DEF ClusterTypeOK
  <1>8. req' \in [Req -> Request] /\ \A r \in Req : req'[r] = Idle
    BY <1>2, IdleSound
  <1>9. epoch' \in Nat /\ epoch' # epoch
    BY <1>2, ClusterInvFacts DEF ClusterTypeOK
  <1>10. ClusterTypeOK'
    BY <1>2, <1>4, <1>6, <1>7, <1>8, <1>9, SpendTyped, AgentTypesStay, ClusterInvFacts DEF ClusterTypeOK
  <1>11. AgentInv' /\ (\A k \in Node : RegisterStep(k)) /\ UNCHANGED ops
    BY <1>2, QuietAgentsStay
  <1>12. RequestInv'
    BY <1>8, IdleSound DEF RequestInv
  <1>13. EvictInv'
    BY <1>2, <1>8, IdleSound DEF EvictInv, VictimKnown, MarkedIsUnused, OneOnNode, BootIsQuiet, OnNode
  <1>14. PostAlone' /\ AckedArrived'
    BY <1>2, <1>8, IdleSound DEF PostAlone, AckedArrived
  <1>15. LateUnknown'
    <2>1. ASSUME NEW post \in posts', NEW k \in Node PROVE ops'[k][post.op] = None
      BY <1>1, <1>3, <1>11, ClusterInvFacts DEF OpInv, LateUnknown, Alone
    <2>2. ASSUME NEW post \in posts', NEW p \in posts', p.op = post.op PROVE p = post
      <3>1. CASE post \in posts /\ p \in posts
        BY <2>2, <3>1, ClusterInvFacts DEF OpInv, LateUnknown
      <3>2. CASE \E r \in sent : post = late(r)
        BY <1>1, <1>3, <2>2, <3>2 DEF Alone
      <3>3. CASE \E r \in sent : p = late(r)
        BY <1>1, <1>3, <2>2, <3>3 DEF Alone
      <3> QED
        BY <1>1, <3>1, <3>2, <3>3
    <2> QED
      BY <2>1, <2>2 DEF LateUnknown
  <1>16. SafeFailover
    BY <1>9 DEF SafeFailover
  <1> QED
    BY <1>10, <1>11, <1>12, <1>13, <1>14, <1>15, <1>16 DEF Good, ClusterInv, AgentInv, OpInv

\* An agent records no operation by itself.
LEMMA AgentRecordsNothing ==
  ASSUME AgentTypeOK, NEW n \in Node, Agent(n)
  PROVE  \A k \in Node, o \in Op : ops'[k][o] # None => ops[k][o] # None
  <1>1. ASSUME NEW o \in Op, TaskStep(n, o)
        PROVE  \E from, to : Move(n, o, from, to)
    BY <1>1 DEF TaskStep, Validate, DeadlineBefore, BeginServer, ServerStarted, CancelLoad, LoadCancelled
  <1>2. ASSUME NEW o \in Op, NEW from, NEW to, Move(n, o, from, to)
        PROVE  \A k \in Node, p \in Op : ops'[k][p] # None => ops[k][p] # None
    BY <1>2 DEF Move, AgentTypeOK
  <1>3. ASSUME NEW o \in Op, ForgetOperation(n, o)
        PROVE  \A k \in Node, p \in Op : ops'[k][p] # None => ops[k][p] # None
    BY <1>3 DEF ForgetOperation, AgentTypeOK
  <1>4. ASSUME AgentRestarted(n)
        PROVE  \A k \in Node, p \in Op : ops'[k][p] # None => ops[k][p] # None
    BY <1>4 DEF AgentRestarted, AgentTypeOK
  <1>5. ASSUME NEW m \in Model, BeginUnload(n, m) \/ EndUnload(n, m) \/ ServerCrashed(n, m)
        PROVE  ops' = ops
    BY <1>5 DEF BeginUnload, EndUnload, ServerCrashed
  <1> QED
    BY <1>1, <1>2, <1>3, <1>4, <1>5 DEF Agent, AgentStep, AgentFault

LEMMA AgentIsGood ==
  ASSUME ClusterInv, NEW n \in Node, Agent(n)
  PROVE  Good
  <1>1. UNCHANGED <<book, placement, desired, req, purge, beat, posts, version, epoch>>
    BY DEF Agent, gateVars
  <1>2. UNCHANGED <<failures, avail, loaded, pending, suspect>>
    BY <1>1 DEF book
  <1>3. left' \in [Fault -> Nat \cup {None}]
    BY SpendTyped, ClusterInvFacts DEF Agent, AgentFault, ClusterTypeOK
  <1>4. AgentInv' /\ \A k \in Node : RegisterStep(k)
    BY AgentKeeps, ClusterInvFacts
  <1>5. OnlyMove({})
    BY <1>1, StillRequests, ClusterInvFacts
  <1>6. ClusterTypeOK'
    BY <1>1, <1>2, <1>3, <1>4, <1>5, OutcomeTyped, ClusterInvFacts DEF ClusterTypeOK
  <1>7. EvictInv'
    BY <1>1, <1>2, <1>5, EvictStays, ClusterInvFacts
  <1>8. OpMove({})
    BY <1>1, <1>2, AgentRecordsNothing, ClusterInvFacts DEF OpMove
  <1>9. SafeFailover
    BY <1>2, NoWithdrawal
  <1> QED
    BY <1>4, <1>5, <1>6, <1>7, <1>8, <1>9, Together

-----------------------------------------------------------------------------
(* The theorems                                                            *)

LEMMA InitClusterInv == Init => ClusterInv
  <1> SUFFICES ASSUME Init PROVE ClusterInv
    OBVIOUS
  <1>1. PICK s \in Scenario : /\ left = s.left
                              /\ failures = [n \in Node |-> IF n \in s.nodes THEN 0 ELSE Threshold + 1]
    BY DEF Init
  <1>2. AgentInv
    BY InitAgents DEF Init
  <1>3. ClusterTypeOK
    <2>1. req \in [Req -> Request] /\ \A r \in Req : req[r] = Idle
      BY IdleSound DEF Init
    <2>2. NoBeat \in Beat
      BY AgentAssumption DEF NoBeat, Beat
    <2>3. left \in [Fault -> Nat \cup {None}] /\ failures \in [Node -> 0..(Threshold + 1)]
      BY <1>1, ClusterAssumption
    <2>4. /\ avail \in [Node -> 0..Places] /\ beat \in [Node -> Beat]
          /\ loaded \in [Node -> [Model -> Info \cup {None}]]
          /\ pending \in [Node -> [Model -> Reservation \cup {None}]]
          /\ suspect \in [Node -> SUBSET Model] /\ placement \in [Model -> Node \cup {None}]
          /\ desired \in [Model -> Identity \cup {None}]
          /\ purge \in [Node -> {"idle", "waiting", "calling", "done"}]
          /\ posts \subseteq Post /\ version \in [Model -> Nat] /\ epoch \in Nat
      BY <2>2, AgentAssumption DEF Init
    <2> QED
      BY <1>2, <2>1, <2>3, <2>4 DEF ClusterTypeOK, AgentInv
  <1>4. RequestInv
    BY IdleSound DEF Init, RequestInv
  <1>5. EvictInv
    BY IdleSound DEF Init, EvictInv, VictimKnown, MarkedIsUnused, OneOnNode, BootIsQuiet, OnNode, NoBeat
  <1>6. OpInv
    BY IdleSound DEF Init, OpInv, PostAlone, LateUnknown, AckedArrived
  <1> QED
    BY <1>2, <1>3, <1>4, <1>5, <1>6 DEF ClusterInv, AgentInv

LEMMA RequestStepIsGood ==
  ASSUME ClusterInv, NEW r \in Req, RequestStep(r) \/ RequestFault(r)
  PROVE  Good
  <1>1. CASE RequestStep(r)
    BY <1>1, DecideKeeps, PlaceAtOnceKeeps, PlaceByEvictionKeeps, NoPlacementKeeps, UnloadPlacedKeeps,
       UnloadOnNodeKeeps, UnloadedKeeps, BeginRefreshKeeps, BeginResumeKeeps, PostedKeeps, PolledKeeps,
       AbandonedKeeps
       DEF RequestStep
  <1>2. CASE RequestFault(r)
    BY <1>2, UnloadLostKeeps, PostRefusedKeeps, PostLostKeeps, UncertainKeeps, StreamEndsKeeps,
       BackendFailedKeeps
       DEF RequestFault
  <1> QED
    BY <1>1, <1>2

LEMMA NextIsGood ==
  ASSUME ClusterInv, Next
  PROVE  Good
  <1>1. CASE Arrivals
    BY <1>1, AskKeeps, UnloadModelKeeps, UnloadAllKeeps, EditModelKeeps, GatewayRestartsKeeps DEF Arrivals
  <1>2. CASE \E r \in Req : RequestStep(r) \/ RequestFault(r)
    BY <1>2, RequestStepIsGood
  <1>3. CASE \E post \in posts : LatePost(post)
    BY <1>3, LatePostKeeps
  <1>4. ASSUME NEW n \in Node,
               NodeStep(n) \/ NodeUnloadLost(n) \/ Heartbeat(n) \/ HeartbeatLost(n) \/ HeartbeatSlow(n)
                 \/ HeartbeatRead(n) \/ Agent(n)
        PROVE  Good
    BY <1>4, UnloadNodeAllKeeps, NodeUnloadedKeeps, NodeUnloadLostKeeps, HeartbeatKeeps, HeartbeatLostKeeps,
       HeartbeatSlowKeeps, HeartbeatReadKeeps, AgentIsGood
       DEF NodeStep
  <1> QED
    BY <1>1, <1>2, <1>3, <1>4 DEF Next

LEMMA StutterIsGood ==
  ASSUME ClusterInv, UNCHANGED vars
  PROVE  Good
  <1>1. /\ UNCHANGED <<book, placement, desired, req, purge, beat, posts, version, epoch>>
        /\ UNCHANGED <<left, agentVars>>
    BY DEF vars, gateVars
  <1>2. UNCHANGED <<failures, avail, loaded, pending, suspect>>
    BY <1>1 DEF book
  <1>3. OnlyMove({})
    BY <1>1, StillRequests, ClusterInvFacts
  <1>4. ClusterTypeOK'
    BY <1>1, <1>2, <1>3, QuietAgentsStay, OutcomeTyped, ClusterInvFacts DEF ClusterTypeOK
  <1> QED
    BY <1>1, <1>2, <1>3, <1>4, RecordsKeeps DEF agentVars

LEMMA StepIsGood == ClusterInv /\ [Next]_vars => Good
  BY NextIsGood, StutterIsGood

\* The inductive invariant of the cluster.
LEMMA ClusterInvAlways == Spec => []ClusterInv
  <1>1. ClusterInv /\ [Next]_vars => ClusterInv'
    BY StepIsGood DEF Good
  <1> QED
    BY InitClusterInv, <1>1, PTL DEF Spec

\* ClusterManager.evict, ensure_model_loaded and the heartbeat: a record marked for
\* eviction serves no stream, on any number of nodes, however often calls are lost,
\* streams fail, definitions change, agents restart and the gateway itself restarts.
THEOREM EvictionAlwaysUnpinned == Spec => []EvictingNotPinned
  <1>1. ClusterInv => EvictingNotPinned
    BY DEF ClusterInv, EvictInv, MarkedIsUnused, EvictingNotPinned
  <1> QED
    BY <1>1, ClusterInvAlways, PTL

\* _clear_pending_load and the failover after it: a reservation is withdrawn from a
\* node that answers only once its operation cannot bring up a server any more.
THEOREM FailoverAlwaysAlone == Spec => NoConcurrentFailover
  <1>1. ClusterInv /\ [Next]_vars =>
          [\A n \in Node, m \in Model :
             LET op == pending[n][m].op
             IN  pending[n][m] # None /\ pending'[n][m] = None /\ Online(n) /\ epoch' = epoch
                   => /\ ops'[n][op] # None => ops'[n][op].at \in Terminal
                      /\ \A post \in posts' : post.op # op]_vars
    BY StepIsGood DEF Good, SafeFailover
  <1> QED
    BY <1>1, ClusterInvAlways, PTL DEF Spec, NoConcurrentFailover

\* The agent of each node, driven by this gateway through calls that are lost,
\* repeated and late, implements the register of operations: an operation is accepted
\* once with one identity, one operation of a model is pending at a time, an outcome
\* is final, "ready" is announced only of a model that is served from the definition
\* asked for, and no server is ever taken for one of another definition.
THEOREM AgentsImplementRegister ==
  ASSUME NEW n \in Node
  PROVE  Spec => Register(n)!Spec
  <1>1. Init => Register(n)!Init
    <2> SUFFICES ASSUME Init PROVE Register(n)!Init
      OBVIOUS
    <2>1. \A m \in Model : server[n][m] = "none"
      BY DEF Init, AgentInit
    <2>2. {m \in Model : server[n][m] = "ready"} = {}
      BY <2>1
    <2>3. RegisterOf(n) = [o \in Op |-> None]
      BY DEF Init, AgentInit, RegisterOf
    <2>4. ServedBy(n) = [m \in {} |-> 0]
      BY <2>2 DEF ServedBy
    <2> QED
      BY <2>3, <2>4 DEF Register!Init
  <1>2. ClusterInv /\ [Next]_vars => [Register(n)!Next]_<<RegisterOf(n), ServedBy(n)>>
    BY StepIsGood DEF Good, RegisterStep
  <1> QED
    BY <1>1, <1>2, ClusterInvAlways, PTL DEF Spec, Register!Spec
===============================================================================
