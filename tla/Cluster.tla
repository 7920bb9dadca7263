-------------------------------- MODULE Cluster --------------------------------
(***************************************************************************)
(* The gateway of a cluster (cluster_manager.py) with the node agents it   *)
(* drives through HTTP calls that may be lost, answered late or handled    *)
(* after the caller gave up.                                               *)
(*                                                                         *)
(* ClusterManager._lock never covers an await, so a section under it is    *)
(* one step here.  The lock of a model and the lock of a node are not      *)
(* variables: who holds them follows from where the requests are.          *)
(*                                                                         *)
(* Time is not modelled.  Two consequences of the negotiated deadline and  *)
(* of the grace period are assumed: a 404 counts as final only when the    *)
(* POST can no longer arrive, and a reservation expires only when its      *)
(* operation is no longer running.  Every model takes one place of a node. *)
(***************************************************************************)
EXTENDS NodeAgent

CONSTANTS
  Req,        \* the requests and the admin calls being handled
  Threshold,  \* health_failures_to_offline
  Fault,      \* what happens a bounded number of times
  Scenario    \* the starting points: a node set and a bound for each fault

VARIABLES
  failures,   \* _nodes: the failures of each node in a row,
  avail,      \*   its free places according to its agent,
  loaded,     \*   the record of each model it serves (_LoadedInfo),
  pending,    \*   the reservation of each model it loads (_PendingLoad),
  suspect,    \*   and the models it may serve wrongly
  placement,  \* _placement
  desired,    \* _desired_identities
  req,        \* the requests in progress
  purge,      \* unload_all_models on each node: "idle", "waiting", "calling" or "done"
  beat,       \* an answer to GET /agent/health that has not been read yet
  posts,      \* POST /agent/models/load calls that no one waits for any more
  version,    \* the digest of each model's definition in the registry
  epoch,      \* the life of the gateway, which makes generations distinct
  left        \* how often each fault may still happen

book     == <<failures, avail, loaded, pending, suspect>>
gateVars == <<book, placement, desired, req, purge, beat, posts, version, epoch>>
vars     == <<gateVars, left, agentVars>>

NoBeat == [at |-> "none", listed |-> {}, free |-> 0]
NoInfo == [digest |-> 0, key |-> FALSE, evicting |-> FALSE, uncertain |-> FALSE]
Idle   == [pc |-> "idle", model |-> None, node |-> None, mode |-> None, victim |-> None,
           id |-> None, op |-> None, told |-> FALSE, failed |-> {}, avoid |-> {}, attached |-> FALSE]

Pcs == {"idle", "lock", "resume", "refresh", "place", "evict", "post", "poll", "serve", "unlock", "drop"}

Modes == {None, "load", "refresh", "resume", "admin"}

Info        == [digest : Nat, key : BOOLEAN, evicting : BOOLEAN, uncertain : BOOLEAN]
Reservation == [op : Op, id : Identity, ack : BOOLEAN, told : BOOLEAN]
Beat        == [at : {"none", "boot", "sent"}, listed : SUBSET Model, free : 0..Places]
Post        == [node : Node, op : Op, model : Model, id : Identity]
Request     == [pc : Pcs, model : Model \cup {None}, node : Node \cup {None}, mode : Modes,
                victim : Model \cup {None}, id : Identity \cup {None}, op : Op \cup {None},
                told : BOOLEAN, failed : SUBSET Node, avoid : SUBSET Node, attached : BOOLEAN]

ASSUME ClusterAssumption ==
  /\ Threshold \in Nat
  /\ None \notin Info \cup Reservation \cup {"load", "refresh", "resume", "admin"}
  /\ \A s \in Scenario : s.left \in [Fault -> Nat \cup {None}]

ClusterTypeOK ==
  /\ AgentTypeOK
  /\ failures \in [Node -> 0..(Threshold + 1)]
  /\ avail \in [Node -> 0..Places]
  /\ loaded \in [Node -> [Model -> Info \cup {None}]]
  /\ pending \in [Node -> [Model -> Reservation \cup {None}]]
  /\ suspect \in [Node -> SUBSET Model]
  /\ placement \in [Model -> Node \cup {None}]
  /\ desired \in [Model -> Identity \cup {None}]
  /\ req \in [Req -> Request]
  /\ purge \in [Node -> {"idle", "waiting", "calling", "done"}]
  /\ beat \in [Node -> Beat]
  /\ posts \subseteq Post
  /\ version \in [Model -> Nat] /\ epoch \in Nat
  /\ left \in [Fault -> Nat \cup {None}]

\* The gateway has just started; the nodes of the scenario answer, others never do.
Init ==
  /\ AgentInit
  /\ \E s \in Scenario :
       /\ left = s.left
       /\ failures = [n \in Node |-> IF n \in s.nodes THEN 0 ELSE Threshold + 1]
  /\ avail = [n \in Node |-> Places]
  /\ loaded = [n \in Node |-> [m \in Model |-> None]]
  /\ pending = [n \in Node |-> [m \in Model |-> None]]
  /\ suspect = [n \in Node |-> {}]
  /\ placement = [m \in Model |-> None]
  /\ desired = [m \in Model |-> None]
  /\ req = [r \in Req |-> Idle]
  /\ purge = [n \in Node |-> "idle"]
  /\ beat = [n \in Node |-> NoBeat]
  /\ posts = {}
  /\ version = [m \in Model |-> 0]
  /\ epoch = 0

-----------------------------------------------------------------------------
(* What the gateway reads of its state                                     *)

\* A fault is spent, unless the scenario does not count it (None).
Spend(f) ==
  IF left[f] = None THEN UNCHANGED left
  ELSE left[f] > 0 /\ left' = [left EXCEPT ![f] = @ - 1]

Online(n)  == failures[n] < Threshold
\* nodes.yaml names the node (the others are no part of this scenario).
Present(n) == failures[n] <= Threshold
Purging   == \E n \in Node : purge[n] # "idle"

\* _model_locks[m] and operation_lock.
ModelFree(m) ==
  \A r \in Req : req[r].model = m => req[r].pc \in {"idle", "lock", "serve", "unlock"}
NodeFree(n) ==
  /\ \A r \in Req : req[r].node = n => req[r].pc \notin {"evict", "post", "poll"}
  /\ purge[n] # "calling"

Streams(n, m) == {r \in Req : req[r].pc = "serve" /\ req[r].node = n /\ req[r].model = m}
Pins(n, m)    == {r \in Streams(n, m) : req[r].attached}

\* The streams keep the handle of a record that the inventory has replaced.
Detach(n, ms) ==
  [r \in Req |-> IF \E m \in ms : r \in Streams(n, m) THEN [req[r] EXCEPT !.attached = FALSE] ELSE req[r]]

Reservations(n) == {m \in Model : pending[n][m] # None}
AtLeast0(i)     == IF i < 0 THEN 0 ELSE i

Capped(i)       == IF i > Places THEN Places ELSE i

\* _NodeState.snapshot: free places less the reservations; what may be evicted.
FreeOn(n)    == AtLeast0(avail[n] - Cardinality(Reservations(n)))
Evictable(n) == {m \in Model : loaded[n][m] # None /\ Pins(n, m) = {}}

\* What the health of an agent says: LOADING and UNLOADING servers are listed,
\* and each listed server has a port.
AgentFree(n) == AtLeast0(Places - Cardinality(Managers(n)))

\* pick_node: best fit among the nodes with room, or else an eviction.
WithRoom(excluded)  == {n \in Node \ excluded : Online(n) /\ FreeOn(n) > 0}
BestFit(excluded)   == {n \in WithRoom(excluded) : \A k \in WithRoom(excluded) : FreeOn(n) <= FreeOn(k)}
ByEviction(excluded) ==
  {n \in Node \ excluded : WithRoom(excluded) = {} /\ Online(n) /\ Evictable(n) # {}}

\* _place_and_load: nodes with a suspect copy are avoided while another is online.
Avoided(m) ==
  LET suspects == {n \in Node : m \in suspect'[n]}
  IN  IF \E n \in Node \ suspects : failures'[n] < Threshold THEN suspects ELSE {}

Unroute(m, n) == IF placement[m] = n THEN None ELSE placement[m]

\* An operation identifier never used before (the set is recycled).
FreshOp ==
  Op \ ({o \in Op : \E n \in Node : ops[n][o] # None}
        \cup {post.op : post \in posts} \cup {req[r].op : r \in Req}
        \cup UNION {{pending[n][m].op : m \in Reservations(n)} : n \in Node})

\* _record_failure_locked.
MoreFailures(n) == IF failures[n] < Threshold THEN failures[n] + 1 ELSE Threshold

\* The next state of the requests when r becomes q.
Become(r, q) == [req EXCEPT ![r] = q]
Goto(r, pc)  == Become(r, [req[r] EXCEPT !.pc = pc])
Answer(r)    == Become(r, Idle)

-----------------------------------------------------------------------------
(* ensure_model_loaded, under the model's lock                             *)

UnchangedWorld == UNCHANGED <<purge, beat, posts, version, epoch, agentVars>>

\* The lifespan serves requests once the first heartbeats are done.
Booted == \A n \in Node : beat[n].at # "boot"

Ask(r, m) ==
  /\ req[r].pc = "idle" /\ Booted
  /\ Spend("ask")
  /\ req' = Become(r, [Idle EXCEPT !.pc = "lock", !.model = m])
  /\ UNCHANGED <<book, placement, desired>>
  /\ UnchangedWorld

\* _identity_for_model_locked: a new generation when the definition changed.
IdentityOf(m) ==
  IF desired[m] # None /\ desired[m].digest = version[m] THEN desired[m]
  ELSE [digest |-> version[m], generation |-> epoch]

Reserved(m) == {n \in Node : pending[n][m] # None}
Routed(m)   == IF placement[m] = None THEN None ELSE loaded[placement[m]][m]

\* Mutation of FastPath: the handle of a record chosen for eviction is given out.
FastPathAnyway(m) ==
  /\ Routed(m) # None
  /\ ~Routed(m).uncertain
  /\ Routed(m).digest = version[m]
  /\ Online(placement[m]) /\ m \notin suspect[placement[m]]
  /\ Routed(m).key

\* Mutation of Routable: the definition a server was built from is not compared.
RoutableStale(m) ==
  /\ Routed(m) # None
  /\ ~Routed(m).uncertain
  /\ Online(placement[m]) /\ m \notin suspect[placement[m]]
  /\ ~Routed(m).evicting

\* The route of m may be given to a request at once, or after a refresh.
Routable(m) ==
  /\ Routed(m) # None
  /\ ~Routed(m).uncertain
  /\ Routed(m).digest = version[m]
  /\ Online(placement[m]) /\ m \notin suspect[placement[m]]
  /\ ~Routed(m).evicting

FastPath(m) == Routable(m) /\ Routed(m).key

\* A request gets the lock of its model, fixes the identity it asks for and
\* is admitted to a branch; the identity is kept in every branch.
Enter(r, m, change) ==
  /\ req[r].pc = "lock" /\ req[r].model = m
  /\ ModelFree(m)
  /\ desired' = [desired EXCEPT ![m] = IdentityOf(m)]
  /\ req' = Become(r, change)
  /\ UNCHANGED left
  /\ UnchangedWorld

\* Refused: unload_all runs, another definition is being loaded, or an unload
\* of this model was never confirmed.
Refuse(r, m) ==
  /\ \/ Purging
     \/ \E n \in Reserved(m) : pending[n][m].id.digest # version[m]
     \/ Reserved(m) = {} /\ Routed(m) # None /\ Routed(m).uncertain
  /\ Enter(r, m, Idle)
  /\ UNCHANGED <<book, placement>>

\* A load of this definition was left unresolved: wait for its outcome.
Resume(r, m) ==
  /\ ~Purging
  /\ \E n \in Reserved(m) :
       /\ pending[n][m].id.digest = version[m]
       /\ Enter(r, m, [req[r] EXCEPT !.pc = "resume", !.mode = "resume", !.node = n,
                         !.id = pending[n][m].id, !.op = pending[n][m].op, !.told = pending[n][m].told])
  /\ UNCHANGED <<book, placement>>

Serve(r, m) ==
  /\ ~Purging /\ Reserved(m) = {} /\ FastPath(m)
  /\ Enter(r, m, [Idle EXCEPT !.pc = "serve", !.model = m, !.node = placement[m],
                               !.id = IdentityOf(m), !.attached = TRUE])
  /\ UNCHANGED <<book, placement>>

\* A record rebuilt from the agent's status has no key yet.
Refresh(r, m) ==
  /\ ~Purging /\ Reserved(m) = {} /\ Routable(m) /\ ~Routed(m).key
  /\ Enter(r, m, [req[r] EXCEPT !.pc = "refresh", !.mode = "refresh", !.node = placement[m],
                                  !.id = IdentityOf(m)])
  /\ UNCHANGED <<book, placement>>

\* No usable route: it is withdrawn, a copy of another definition is suspected.
Unusable(r, m) ==
  /\ ~Purging /\ Reserved(m) = {} /\ ~Routable(m)
  /\ Routed(m) # None => ~Routed(m).uncertain
  /\ suspect' = IF Routed(m) # None /\ Routed(m).digest # version[m]
                 THEN [suspect EXCEPT ![placement[m]] = @ \cup {m}] ELSE suspect
  /\ placement' = IF Routed(m) # None THEN [placement EXCEPT ![m] = None] ELSE placement
  /\ UNCHANGED <<failures, avail, loaded, pending>>
  /\ Enter(r, m, [req[r] EXCEPT !.pc = "place", !.mode = "load", !.id = IdentityOf(m),
                                  !.avoid = Avoided(m)])

Decide(r, m) == Refuse(r, m) \/ Resume(r, m) \/ Serve(r, m) \/ Refresh(r, m) \/ Unusable(r, m)

-----------------------------------------------------------------------------
(* _place_and_load                                                         *)

\* A new operation is reserved on the node, then POSTed to its agent.
Reserve(r, n, op) ==
  /\ pending' = [pending EXCEPT ![n][req[r].model] =
                    [op |-> op, id |-> req[r].id, ack |-> FALSE, told |-> FALSE]]
  /\ req' = Become(r, [req[r] EXCEPT !.pc = "post", !.node = n, !.op = op, !.told = FALSE])
  /\ UNCHANGED <<failures, avail, loaded, suspect>>

\* There is room on the best node: its lock is taken and the load begins.
PlaceAtOnce(r, n) ==
  /\ req[r].pc = "place" /\ ~Purging /\ NodeFree(n) /\ FreshOp # {}
  /\ n \in BestFit(req[r].failed \cup req[r].avoid)
  /\ Reserve(r, n, CHOOSE o \in FreshOp : TRUE)
  /\ UNCHANGED <<placement, desired, left>>
  /\ UnchangedWorld

MarkEvicting(n, v) ==
  /\ loaded' = [loaded EXCEPT ![n][v] = [loaded[n][v] EXCEPT !.evicting = TRUE]]
  /\ UNCHANGED <<failures, avail, pending, suspect>>

\* No node has room: an idle model is marked, and its agent told to unload it.
\* (The least recently used one; which that is depends on the past.)
PlaceByEviction(r, n, v) ==
  /\ req[r].pc = "place" /\ ~Purging /\ NodeFree(n)
  /\ n \in ByEviction(req[r].failed \cup req[r].avoid)
  /\ v \in Evictable(n)
  /\ MarkEvicting(n, v)
  /\ unloads' = [unloads EXCEPT ![n] = @ \cup {v}]
  /\ req' = Become(r, [req[r] EXCEPT !.pc = "evict", !.node = n, !.victim = v])
  /\ UNCHANGED <<placement, desired, left, purge, beat, posts, version, epoch>>
  /\ UNCHANGED <<ops, server, builtFrom, agentLock>>

\* NoPlacementError: the suspects are given a chance, or the request fails.
\* A request that finds unload_all running fails too.
NoPlacement(r) ==
  /\ req[r].pc = "place"
  /\ LET excluded == req[r].failed \cup req[r].avoid
     IN  Purging \/ (WithRoom(excluded) = {} /\ ByEviction(excluded) = {})
  /\ req' = IF ~Purging /\ req[r].avoid # {} THEN Become(r, [req[r] EXCEPT !.avoid = {}]) ELSE Answer(r)
  /\ UNCHANGED <<book, placement, desired, left>>
  /\ UnchangedWorld

-----------------------------------------------------------------------------
(* _do_unload, for an eviction or for unload_model                         *)

UnloadModel(r, m) ==
  /\ req[r].pc = "idle" /\ Booted
  /\ Spend("unload")
  /\ req' = Become(r, [Idle EXCEPT !.pc = "unlock", !.model = m, !.mode = "admin"])
  /\ UNCHANGED <<book, placement, desired>>
  /\ UnchangedWorld

\* unload_model with the model's lock: nothing to do without a placement.
UnloadPlaced(r) ==
  LET m == req[r].model
  IN  /\ req[r].pc = "unlock" /\ ModelFree(m)
      /\ req' = IF placement[m] = None THEN Answer(r)
                ELSE Become(r, [req[r] EXCEPT !.pc = "drop", !.node = placement[m]])
      /\ UNCHANGED <<book, placement, desired, left>>
      /\ UnchangedWorld

\* Then with the node's lock: gone already, refused because of its streams, or told.
UnloadOnNode(r) ==
  LET m == req[r].model  n == req[r].node
  IN  /\ req[r].pc = "drop" /\ NodeFree(n)
      /\ IF loaded[n][m] = None \/ Pins(n, m) # {}
         THEN /\ req' = Answer(r)
              /\ placement' = IF loaded[n][m] = None THEN [placement EXCEPT ![m] = Unroute(m, n)] ELSE placement
              /\ UNCHANGED <<book, unloads>>
         ELSE /\ req' = Become(r, [req[r] EXCEPT !.pc = "evict", !.victim = m])
              /\ MarkEvicting(n, m)
              /\ unloads' = [unloads EXCEPT ![n] = @ \cup {m}]
              /\ UNCHANGED placement
      /\ UNCHANGED <<desired, left, purge, beat, posts, version, epoch>>
      /\ UNCHANGED <<ops, server, builtFrom, agentLock>>

\* The disappearance of the victim is certain: its record goes, and the
\* eviction makes way for the load.
Gone(r, free) ==
  LET n == req[r].node  v == req[r].victim  others == Detach(n, {v})
  IN  /\ placement' = [placement EXCEPT ![v] = Unroute(v, n)]
      /\ loaded' = [loaded EXCEPT ![n][v] = None]
      /\ avail' = [avail EXCEPT ![n] = free]
      /\ UNCHANGED <<failures, suspect>>
      /\ \/ /\ req[r].mode = "admin"
            /\ req' = [others EXCEPT ![r] = Idle]
            /\ UNCHANGED pending
         \/ /\ req[r].mode # "admin" /\ FreshOp # {}
            /\ LET op == CHOOSE o \in FreshOp : TRUE
               IN  /\ pending' = [pending EXCEPT ![n][req[r].model] =
                                    [op |-> op, id |-> req[r].id, ack |-> FALSE, told |-> FALSE]]
                   /\ req' = [others EXCEPT ![r] = [req[r] EXCEPT !.pc = "post", !.op = op, !.victim = None,
                                                                 !.told = FALSE]]

\* The agent answered; or it had nothing to unload, and its health says so.
Unloaded(r) ==
  LET n == req[r].node
  IN  /\ req[r].pc = "evict"
      /\ req[r].victim \notin unloads[n]
      /\ Gone(r, Capped(avail[n] + 1)) \/ Gone(r, AgentFree(n))
      /\ UNCHANGED <<desired, left>>
      /\ UnchangedWorld

\* The eviction failed: the record stays, in doubt, and the load goes elsewhere.
Doubt(r) ==
  LET n == req[r].node  v == req[r].victim
  IN  /\ loaded' = [loaded EXCEPT ![n][v] = [loaded[n][v] EXCEPT !.evicting = FALSE, !.uncertain = TRUE]]
      /\ req' = IF req[r].mode = "admin" THEN Answer(r)
                ELSE Become(r, [req[r] EXCEPT !.pc = "place", !.failed = @ \cup {n}, !.victim = None])
      /\ UNCHANGED <<placement, pending, suspect>>

\* No answer, and perhaps no unload: _resync_after_failed_unload asks for health.
UnloadLost(r) ==
  LET n == req[r].node  v == req[r].victim
  IN  /\ req[r].pc = "evict"
      /\ Spend("lost")
      /\ \/ UNCHANGED unloads
         \/ agentLock[n][v] # "unload" /\ unloads' = [unloads EXCEPT ![n] = @ \ {v}]
      /\ \/ v \notin Managers(n) /\ Gone(r, AgentFree(n))
         \/ /\ v \in Managers(n) /\ Doubt(r)
            /\ avail' = [avail EXCEPT ![n] = AgentFree(n)] /\ UNCHANGED failures
         \/ /\ Doubt(r)
            /\ failures' = [failures EXCEPT ![n] = MoreFailures(n)] /\ UNCHANGED avail
      /\ UNCHANGED <<desired, purge, beat, posts, version, epoch>>
      /\ UNCHANGED <<ops, server, builtFrom, agentLock>>

-----------------------------------------------------------------------------
(* The operation and its outcome                                           *)

UnchangedRest == UNCHANGED <<desired, purge, beat, version, epoch>>

\* _refresh_reconciled and a resumed operation need the lock of their node.
BeginRefresh(r) ==
  /\ req[r].pc = "refresh" /\ NodeFree(req[r].node) /\ FreshOp # {}
  /\ Reserve(r, req[r].node, CHOOSE o \in FreshOp : TRUE)
  /\ UNCHANGED <<placement, desired, left>>
  /\ UnchangedWorld

BeginResume(r) ==
  /\ req[r].pc = "resume" /\ NodeFree(req[r].node)
  /\ req' = Goto(r, "poll")
  /\ UNCHANGED <<book, placement, desired, left>>
  /\ UnchangedWorld

\* The reservation is the object this request made or found, not a later one.
IsMine(r) ==
  LET found == pending[req[r].node][req[r].model]
  IN  found # None /\ found.op = req[r].op /\ found.told = req[r].told

\* _clear_pending_load.
Cleared(r) == IF IsMine(r) THEN [pending EXCEPT ![req[r].node][req[r].model] = None] ELSE pending

\* Ready.  _finish_pending_load puts a new record in the inventory: earlier
\* streams keep the old one.  A refresh completes the record that is there.
\* While unload_all runs both fail; the load leaves its reservation behind.
Finish(r, takes) ==
  LET n == req[r].node  m == req[r].model
      refresh == req[r].mode = "refresh"
      kept  == refresh /\ loaded[n][m] # None
      entry == [(IF kept THEN loaded[n][m] ELSE NoInfo) EXCEPT !.digest = req[r].id.digest, !.key = TRUE]
      serve == [Idle EXCEPT !.pc = "serve", !.model = m, !.node = n, !.id = req[r].id, !.attached = TRUE]
  IN  IF Purging
      THEN /\ pending' = IF refresh THEN Cleared(r) ELSE pending
           /\ req' = Answer(r)
           /\ UNCHANGED <<failures, avail, loaded, suspect, placement>>
      ELSE /\ pending' = Cleared(r)
           /\ loaded' = [loaded EXCEPT ![n][m] = entry]
           /\ suspect' = [suspect EXCEPT ![n] = @ \ {m}]
           /\ avail' = [avail EXCEPT ![n] = AtLeast0(@ - IF refresh THEN 0 ELSE takes)]
           /\ UNCHANGED failures
           /\ placement' = [placement EXCEPT ![m] = n]
           /\ req' = [(IF kept THEN req ELSE Detach(n, {m})) EXCEPT ![r] = serve]

\* No server will come of the operation: the reservation goes, and the model
\* is placed again - elsewhere, when the load itself failed.
Fail(r, counts, suspected) ==
  LET n == req[r].node  m == req[r].model  mode == req[r].mode
  IN  /\ pending' = Cleared(r)
      /\ failures' = IF counts /\ mode # "resume" THEN [failures EXCEPT ![n] = MoreFailures(n)] ELSE failures
      /\ suspect' = IF suspected THEN [suspect EXCEPT ![n] = @ \cup {m}] ELSE suspect
      /\ UNCHANGED <<avail, loaded>>
      /\ placement' = IF mode = "refresh" THEN [placement EXCEPT ![m] = Unroute(m, n)] ELSE placement
      /\ req' = Become(r, [req[r] EXCEPT !.pc = "place", !.mode = "load", !.op = None,
                            !.failed = IF mode = "load" THEN @ \cup {n} ELSE @,
                            !.avoid = IF mode = "load" THEN @ ELSE Avoided(m)])

\* 409: the request fails at once; the refresh of a record falls back to placing.
Conflict(r) ==
  \/ req[r].mode = "refresh" /\ Fail(r, FALSE, FALSE)
  \/ /\ req[r].mode # "refresh"
     /\ pending' = Cleared(r) /\ req' = Answer(r)
     /\ UNCHANGED <<failures, avail, loaded, suspect, placement>>

\* The agent has proved that it knows the operation.
Acknowledge(r) ==
  LET n == req[r].node  m == req[r].model
  IN  /\ pending' = IF IsMine(r) THEN [pending EXCEPT ![n][m] = [pending[n][m] EXCEPT !.ack = TRUE]]
                    ELSE pending
      /\ UNCHANGED <<failures, avail, loaded, suspect>>

\* _start_load_operation: the agent's answer to the POST arrives.  An operation
\* that is not the one asked for is a protocol error.
Posted(r) ==
  LET n == req[r].node  m == req[r].model
      answer == LoadAnswer(n, req[r].op, m, req[r].id)
  IN  /\ req[r].pc = "post"
      /\ HandleLoad(n, req[r].op, m, req[r].id)
      /\ \/ answer = "ready" /\ Finish(r, 0)
         \/ answer = "loading" /\ Acknowledge(r) /\ req' = Goto(r, "poll") /\ UNCHANGED placement
         \/ answer = "conflict" /\ Conflict(r)
         \/ answer \in {"foreign", "failed", "late"} /\ Fail(r, TRUE, FALSE)
      /\ UNCHANGED <<posts, left>>
      /\ UnchangedRest

\* 4xx: the agent refused the definition and recorded nothing.
PostRefused(r) ==
  /\ req[r].pc = "post"
  /\ Spend("refused")
  /\ Fail(r, FALSE, FALSE)
  /\ UNCHANGED <<posts, agentVars>>
  /\ UnchangedRest

\* No answer, a 5xx: the agent may handle the call later, or never.
PostLost(r) ==
  /\ req[r].pc = "post"
  /\ Spend("lost")
  /\ req' = Goto(r, "poll")
  /\ \/ UNCHANGED posts
     \/ posts' = posts \cup {[node |-> req[r].node, op |-> req[r].op, model |-> req[r].model, id |-> req[r].id]}
  /\ UNCHANGED <<book, placement, agentVars>>
  /\ UnchangedRest

LatePost(post) ==
  /\ post \in posts
  /\ HandleLoad(post.node, post.op, post.model, post.id)
  /\ posts' = posts \ {post}
  /\ UNCHANGED <<book, placement, req, left>>
  /\ UnchangedRest

InFlight(o) == \E post \in posts : post.op = o

\* _poll_load_operation: the agent knows the outcome.
Polled(r) ==
  LET n == req[r].node  operation == ops[n][req[r].op]
  IN  /\ req[r].pc = "poll" /\ Online(n) /\ operation # None
      /\ \/ operation.at = "ready" /\ Finish(r, 1)
         \/ operation.at \in {"failed", "late"} /\ Fail(r, TRUE, FALSE)
         \/ operation.at \in Active /\ IsMine(r) /\ ~pending[n][req[r].model].ack
              /\ Acknowledge(r) /\ UNCHANGED <<placement, req>>
      /\ UNCHANGED <<posts, left, agentVars>>
      /\ UnchangedRest

\* Mutation of Abandoned: a first 404 is final, though the POST is on its way.
AbandonedEarly(r) ==
  /\ req[r].pc = "poll"
  /\ ~Online(req[r].node) \/ ops[req[r].node][req[r].op] = None
  /\ Fail(r, TRUE, req[r].mode = "resume")
  /\ UNCHANGED <<posts, left, agentVars>>
  /\ UnchangedRest

\* Mutation of Abandoned: only an acknowledged operation can be given up.
AbandonedAcknowledged(r) ==
  LET n == req[r].node
  IN  /\ req[r].pc = "poll"
      /\ ~Online(n) \/ (ops[n][req[r].op] = None /\ IsMine(r) /\ pending[n][req[r].model].ack)
      /\ Fail(r, TRUE, req[r].mode = "resume")
      /\ UNCHANGED <<posts, left, agentVars>>
      /\ UnchangedRest

\* The agent cannot produce the result: it is offline, or does not know the
\* operation and had acknowledged it or can no longer receive it.
Abandoned(r) ==
  LET n == req[r].node
  IN  /\ req[r].pc = "poll"
      /\ \/ ~Online(n)
         \/ /\ ops[n][req[r].op] = None
            /\ \/ IsMine(r) /\ pending[n][req[r].model].ack
               \/ ~InFlight(req[r].op)
      /\ Fail(r, TRUE, req[r].mode = "resume")
      /\ UNCHANGED <<posts, left, agentVars>>
      /\ UnchangedRest

\* The wait is over without an answer (the deadline, an unexpected status, the
\* caller is gone): the reservation stays, and no failover is tried.  Past the
\* grace period it is abandoned instead.
Uncertain(r) ==
  LET n == req[r].node  operation == ops[n][req[r].op]
  IN  /\ req[r].pc = "poll"
      /\ Spend("doubt")
      /\ \/ req' = Answer(r) /\ UNCHANGED <<book, placement>>
         \/ /\ operation # None => operation.at \in Terminal
            /\ ~InFlight(req[r].op)
            /\ Fail(r, TRUE, req[r].mode = "resume")
      /\ UNCHANGED <<posts, agentVars>>
      /\ UnchangedRest

-----------------------------------------------------------------------------
(* Streams                                                                 *)

StreamEnds(r) ==
  /\ req[r].pc = "serve"
  /\ req' = Answer(r)
  /\ UNCHANGED <<book, placement, desired, left>>
  /\ UnchangedWorld

\* report_backend_failure: connecting to the llama-server failed.
BackendFailed(r) ==
  LET n == req[r].node  m == req[r].model
  IN  /\ req[r].pc = "serve"
      /\ \/ server[n][m] # "ready" /\ UNCHANGED left
         \/ server[n][m] = "ready" /\ Spend("unroutable")
      /\ req' = Answer(r)
      /\ IF req[r].attached /\ placement[m] = n
         THEN /\ placement' = [placement EXCEPT ![m] = None]
              /\ suspect' = [suspect EXCEPT ![n] = @ \cup {m}]
         ELSE UNCHANGED <<placement, suspect>>
      /\ UNCHANGED <<failures, avail, loaded, pending>>
      /\ UNCHANGED desired
      /\ UnchangedWorld

-----------------------------------------------------------------------------
(* unload_all_models                                                       *)

UnloadAll ==
  /\ ~Purging /\ Booted
  /\ \A n \in Node, m \in Model : Pins(n, m) = {}
  /\ Spend("unload all")
  /\ purge' = [n \in Node |-> "waiting"]
  /\ UNCHANGED <<book, placement, desired, req, beat, posts, version, epoch, agentVars>>

\* The flag _unloading_all falls when every node is done.
NodeDone(n) ==
  purge' = IF \A k \in Node \ {n} : purge[k] = "done" THEN [k \in Node |-> "idle"]
           ELSE [purge EXCEPT ![n] = "done"]

UnloadNodeAll(n) ==
  /\ purge[n] = "waiting" /\ NodeFree(n)
  /\ purge' = [purge EXCEPT ![n] = "calling"]
  /\ unloads' = [unloads EXCEPT ![n] = @ \cup Managers(n)]
  /\ UNCHANGED <<book, placement, desired, req, beat, posts, version, epoch, left>>
  /\ UNCHANGED <<ops, server, builtFrom, agentLock>>

\* The agent has unloaded everything: all records go, the reservations do not.
NodeUnloaded(n) ==
  /\ purge[n] = "calling" /\ unloads[n] = {}
  /\ NodeDone(n)
  /\ loaded' = [loaded EXCEPT ![n] = [m \in Model |-> None]]
  /\ suspect' = [suspect EXCEPT ![n] = {}]
  /\ avail' = [avail EXCEPT ![n] = AgentFree(n)]
  /\ placement' = [m \in Model |-> IF loaded[n][m] = None THEN placement[m] ELSE Unroute(m, n)]
  /\ req' = Detach(n, Model)
  /\ UNCHANGED <<failures, pending, desired, beat, posts, version, epoch, left, agentVars>>

NodeUnloadLost(n) ==
  /\ purge[n] = "calling"
  /\ Spend("lost")
  /\ NodeDone(n)
  /\ failures' = [failures EXCEPT ![n] = MoreFailures(n)]
  /\ UNCHANGED <<avail, loaded, pending, suspect, placement, desired, req, beat, posts, version, epoch, agentVars>>

-----------------------------------------------------------------------------
(* The heartbeat                                                           *)

\* The records of the models that a health answer does not list are dropped,
\* unless an operation runs on the node.
DropUnlisted(n, listed, free) ==
  LET gone == IF NodeFree(n) THEN {m \in Model \ listed : loaded[n][m] # None} ELSE {}
  IN  /\ failures' = [failures EXCEPT ![n] = 0]
      /\ avail' = [avail EXCEPT ![n] = free]
      /\ loaded' = [loaded EXCEPT ![n] = [m \in Model |-> IF m \in gone THEN None ELSE loaded[n][m]]]
      /\ UNCHANGED <<pending, suspect>>
      /\ placement' = [m \in Model |-> IF m \in gone THEN Unroute(m, n) ELSE placement[m]]
      /\ req' = Detach(n, gone)

\* _apply_node_inventory: the agent's status replaces the gateway's beliefs.  Of
\* a READY copy it takes the identity, of a LOADING one the operation; copies
\* of another definition are suspect.
ApplyInventory(n) ==
  LET ready   == {m \in Model : server[n][m] = "ready"}
      starting == {m \in Model : server[n][m] = "loading"}
      built(m) == IF m \in ready THEN builtFrom[n][m] ELSE ops[n][agentLock[n][m]].id
      current == {m \in ready \cup starting : built(m).digest = version[m]}
      gone    == {m \in Model \ (ready \cup starting) : loaded[n][m] # None}
      record(m) ==
        IF m \in gone THEN None
        ELSE IF m \notin ready THEN loaded[n][m]
        ELSE [(IF loaded[n][m] = None THEN NoInfo ELSE loaded[n][m]) EXCEPT !.digest = built(m).digest]
      reserved(m) ==
        IF m \in starting \cap current
        THEN [op |-> agentLock[n][m], id |-> built(m), ack |-> TRUE, told |-> TRUE]
        ELSE pending[n][m]
      routed(m) == IF m \in gone \cup (ready \ current) THEN Unroute(m, n) ELSE placement[m]
  IN  /\ failures' = [failures EXCEPT ![n] = 0]
      /\ avail' = [avail EXCEPT ![n] = AgentFree(n)]
      /\ loaded' = [loaded EXCEPT ![n] = [m \in Model |-> record(m)]]
      /\ pending' = [pending EXCEPT ![n] = [m \in Model |-> reserved(m)]]
      /\ suspect' = [suspect EXCEPT ![n] = (@ \cup (ready \ current)) \cap ready]
      /\ desired' = [m \in Model |-> IF m \in ready \cap current THEN built(m) ELSE desired[m]]
      /\ placement' = [m \in Model |-> IF m \in ready \cap current /\ routed(m) = None THEN n ELSE routed(m)]
      /\ req' = Detach(n, gone)

\* Mutation of NeedsStatus: a server nobody asked for is never looked at.
NeedsStatusOffline(n) == NodeFree(n) /\ ~Online(n)

\* The agent runs a server that is unknown here or suspected, or it was offline.
NeedsStatus(n) ==
  /\ NodeFree(n)
  /\ \/ ~Online(n)
     \/ \E m \in Managers(n) : loaded[n][m] = None \/ m \in suspect[n]

\* _check_node: health is answered, and status too where it is asked for.
\* At boot (start_health_monitor) the status of every node is asked for.
Heartbeat(n) ==
  /\ beat[n].at # "sent" /\ Present(n)
  /\ IF NeedsStatus(n) \/ beat[n].at = "boot" THEN ApplyInventory(n)
     ELSE DropUnlisted(n, Managers(n), AgentFree(n)) /\ UNCHANGED desired
  /\ beat' = [beat EXCEPT ![n] = NoBeat]
  /\ UNCHANGED <<purge, posts, version, epoch, left, agentVars>>

HeartbeatLost(n) ==
  /\ beat[n].at # "sent" /\ Present(n)
  /\ Spend("lost")
  /\ failures' = [failures EXCEPT ![n] = MoreFailures(n)]
  /\ beat' = [beat EXCEPT ![n] = NoBeat]
  /\ UNCHANGED <<avail, loaded, pending, suspect, placement, desired, req, purge, posts, version, epoch, agentVars>>

\* Health is answered now and read later.
HeartbeatSlow(n) ==
  /\ beat[n].at = "none" /\ Present(n)
  /\ Spend("slow")
  /\ beat' = [beat EXCEPT ![n] = [at |-> "sent", listed |-> Managers(n), free |-> AgentFree(n)]]
  /\ UNCHANGED <<book, placement, desired, req, purge, posts, version, epoch, agentVars>>

HeartbeatRead(n) ==
  /\ beat[n].at = "sent"
  /\ DropUnlisted(n, beat[n].listed, beat[n].free)
  /\ beat' = [beat EXCEPT ![n] = NoBeat]
  /\ UNCHANGED <<desired, purge, posts, version, epoch, left, agentVars>>

-----------------------------------------------------------------------------
(* Faults and the registry                                                 *)

\* PATCH /admin/models/{id}: any field changes the digest, few unload the model.
EditModel(m) ==
  /\ Spend("edit")
  /\ version' = [version EXCEPT ![m] = @ + 1]
  /\ UNCHANGED <<book, placement, desired, req, purge, beat, posts, epoch, agentVars>>

\* The gateway restarts: the servers keep running, and so may its last POSTs.
GatewayRestarts ==
  /\ Spend("restart")
  /\ \E sent \in SUBSET {r \in Req : req[r].pc = "post"} :
       posts' = posts \cup {[node |-> req[r].node, op |-> req[r].op, model |-> req[r].model, id |-> req[r].id] : r \in sent}
  /\ failures' = [n \in Node |-> IF Present(n) THEN 0 ELSE failures[n]]
  /\ avail' = [n \in Node |-> 0]
  /\ loaded' = [n \in Node |-> [m \in Model |-> None]]
  /\ pending' = [n \in Node |-> [m \in Model |-> None]]
  /\ suspect' = [n \in Node |-> {}]
  /\ placement' = [m \in Model |-> None]
  /\ desired' = [m \in Model |-> None]
  /\ req' = [r \in Req |-> Idle]
  /\ purge' = [n \in Node |-> "idle"]
  /\ beat' = [n \in Node |-> IF Present(n) THEN [NoBeat EXCEPT !.at = "boot"] ELSE NoBeat]
  /\ epoch' = epoch + 1
  /\ UNCHANGED <<version, agentVars>>

AgentFault(n) ==
  \/ AgentRestarted(n) /\ Spend("reboot")
  \/ \E m \in Model : ServerCrashed(n, m) /\ Spend("crash")
  \/ \E o \in Op : ForgetOperation(n, o) /\ Spend("forget")

Agent(n) ==
  /\ (AgentStep(n) /\ UNCHANGED left) \/ AgentFault(n)
  /\ UNCHANGED gateVars

-----------------------------------------------------------------------------

RequestStep(r) ==
  \/ \E m \in Model : Decide(r, m)
  \/ \E n \in Node : PlaceAtOnce(r, n)
  \/ \E n \in Node, v \in Model : PlaceByEviction(r, n, v)
  \/ NoPlacement(r) \/ UnloadPlaced(r) \/ UnloadOnNode(r) \/ Unloaded(r)
  \/ BeginRefresh(r) \/ BeginResume(r) \/ Posted(r) \/ Polled(r) \/ Abandoned(r)

RequestFault(r) ==
  \/ UnloadLost(r) \/ PostRefused(r) \/ PostLost(r) \/ Uncertain(r)
  \/ StreamEnds(r) \/ BackendFailed(r)

Arrivals ==
  \/ \E r \in Req, m \in Model : Ask(r, m) \/ UnloadModel(r, m)
  \/ UnloadAll
  \/ \E m \in Model : EditModel(m)
  \/ GatewayRestarts

NodeStep(n) == UnloadNodeAll(n) \/ NodeUnloaded(n)

Next ==
  \/ Arrivals
  \/ \E r \in Req : RequestStep(r) \/ RequestFault(r)
  \/ \E post \in posts : LatePost(post)
  \/ \E n \in Node :
       NodeStep(n) \/ NodeUnloadLost(n) \/ Heartbeat(n) \/ HeartbeatLost(n) \/ HeartbeatSlow(n)
         \/ HeartbeatRead(n) \/ Agent(n)

Spec == Init /\ [][Next]_vars

\* asyncio runs what is ready and its locks are fair; calls end by their timeout,
\* and reach the agent or not;
\* the heartbeat is periodic; the agents' tasks go on.
Fairness ==
  /\ \A r \in Req : WF_vars(RequestStep(r))
  /\ WF_vars(\E post \in posts : LatePost(post))
  /\ \A n \in Node :
       WF_vars(NodeStep(n)) /\ WF_vars(Heartbeat(n)) /\ WF_vars(HeartbeatRead(n))
         /\ WF_vars(AgentStep(n) /\ UNCHANGED <<gateVars, left>>)

LiveSpec == Spec /\ Fairness

-----------------------------------------------------------------------------
(* Properties                                                              *)

\* A model whose eviction has begun serves no stream: the requests that come
\* during the unload RPC are not given its handle.
EvictingNotPinned ==
  /\ ClusterTypeOK
  /\ \A n \in Node, m \in Model :
       loaded[n][m] # None /\ loaded[n][m].evicting => Pins(n, m) = {}

\* A stream whose record is current is served by the definition it asked for,
\* whatever was edited, retried, lost or reconciled in between.
ServedAsAsked ==
  \A r \in Req : LET n == req[r].node  m == req[r].model
                  IN  req[r].pc = "serve" /\ req[r].attached /\ server[n][m] = "ready"
                        => builtFrom[n][m].digest = req[r].id.digest

\* A failover never races the load it replaces: a reservation is withdrawn from a
\* node that answers only when its operation cannot bring up a server any more.
NoConcurrentFailover ==
  [][\A n \in Node, m \in Model :
       LET op == pending[n][m].op
       IN  pending[n][m] # None /\ pending'[n][m] = None /\ Online(n) /\ epoch' = epoch
             => /\ ops'[n][op] # None => ops'[n][op].at \in Terminal
                /\ \A post \in posts' : post.op # op]_vars

\* No request waits for ever, whatever is lost, restarted or in the way.
EveryRequestAnswered ==
  \A r \in Req : req[r].pc # "idle" ~> req[r].pc \in {"idle", "serve"}

\* A server that an agent keeps running is counted by the gateway in the end.
EveryServerCounted ==
  \A n \in Node, m \in Model :
    server[n][m] = "ready" ~> (loaded[n][m] # None \/ server[n][m] # "ready")
=============================================================================
