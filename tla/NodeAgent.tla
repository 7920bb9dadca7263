------------------------------- MODULE NodeAgent -------------------------------
(***************************************************************************)
(* node_agent/main.py: the agents that run llama-servers for the gateway,  *)
(* one per node.  A load is an operation named by the gateway; its task    *)
(* goes on whatever becomes of the HTTP call that started it, and so does  *)
(* the handler of an unload.                                               *)
(*                                                                         *)
(* Variables are functions over Node.  The sections under _lock contain no *)
(* await: that lock needs no variable.  A model takes one of Places, what  *)
(* is scarcer of ports and VRAM.  A server's death and its discovery by    *)
(* the watchdog are one step; ServerManager says what happens inside.      *)
(***************************************************************************)
EXTENDS Naturals, FiniteSets

CONSTANTS Node, Model, Op, Places, None

VARIABLES
  ops,        \* _operations
  server,     \* state of _managers[m], "none" without an entry
  builtFrom,  \* _manager_identity
  agentLock,  \* _model_locks: the operation or the unload holding each
  unloads     \* the models that a running unload handler has still to unload

agentVars == <<ops, server, builtFrom, agentLock, unloads>>

Active   == {"validating", "waiting", "loading", "cancelling"}
Terminal == {"ready", "failed", "late"}

\* A definition of a model (its digest), as asked for in one life of the gateway.
Identity  == [digest : Nat, generation : Nat]
Operation == [model : Model, id : Identity, at : Active \cup Terminal]

ASSUME AgentAssumption ==
  /\ IsFiniteSet(Model) /\ Places \in Nat
  /\ None \notin Node \cup Model \cup Op \cup Identity \cup Operation
  /\ None \notin [model : Model, id : Identity, state : {"pending", "ready", "failed"}]
  /\ "unload" \notin Op \cup {None}

AgentTypeOK ==
  /\ ops \in [Node -> [Op -> Operation \cup {None}]]
  /\ server \in [Node -> [Model -> {"none", "loading", "ready", "unloading"}]]
  /\ builtFrom \in [Node -> [Model -> Identity \cup {None}]]
  /\ agentLock \in [Node -> [Model -> Op \cup {"unload", None}]]
  /\ unloads \in [Node -> SUBSET Model]

AgentInit ==
  /\ ops = [n \in Node |-> [o \in Op |-> None]]
  /\ server = [n \in Node |-> [m \in Model |-> "none"]]
  /\ builtFrom = [n \in Node |-> [m \in Model |-> None]]
  /\ agentLock = [n \in Node |-> [m \in Model |-> None]]
  /\ unloads = [n \in Node |-> {}]

ActiveOps(n, m) == {o \in Op : ops[n][o] # None /\ ops[n][o].model = m /\ ops[n][o].at \in Active}

Managers(n) == {m \in Model : server[n][m] # "none"}

\* What GET /agent/operations says of an operation, and a repeated POST too.
StateOf(operation) == IF operation.at \in Terminal THEN operation.at ELSE "loading"

-----------------------------------------------------------------------------
(* POST /agent/models/load                                                 *)

\* Mutation of LoadAnswer: a server is announced ready whatever it was started from.
LoadAnswerAnyDefinition(n, o, m, id) ==
  IF ops[n][o] # None
  THEN IF ops[n][o].model = m /\ ops[n][o].id = id THEN StateOf(ops[n][o]) ELSE "conflict"
  ELSE IF ActiveOps(n, m) # {} THEN "foreign"
  ELSE IF server[n][m] = "ready" THEN "ready" ELSE "loading"

\* start_load: what it answers, once the model's lock is free.
LoadAnswer(n, o, m, id) ==
  IF ops[n][o] # None
  THEN IF ops[n][o].model = m /\ ops[n][o].id = id THEN StateOf(ops[n][o]) ELSE "conflict"
  ELSE IF ActiveOps(n, m) # {}
  THEN IF \E p \in ActiveOps(n, m) : ops[n][p].id # id THEN "conflict" ELSE "foreign"
  ELSE IF server[n][m] = "ready"
  THEN IF builtFrom[n][m].digest = id.digest THEN "ready" ELSE "conflict"
  ELSE "loading"

\* start_load: a known operation is only observed; a new one waits for the
\* model's lock, then is recorded as done, accepted, or not at all.
HandleLoad(n, o, m, id) ==
  /\ ops[n][o] # None \/ agentLock[n][m] = None
  /\ LET answer == LoadAnswer(n, o, m, id)
         at     == IF answer = "ready" THEN "ready" ELSE "validating"
     IN  ops' = IF ops[n][o] = None /\ answer \in {"ready", "loading"}
                THEN [ops EXCEPT ![n][o] = [model |-> m, id |-> id, at |-> at]]
                ELSE ops
  /\ UNCHANGED <<server, builtFrom, agentLock, unloads>>

-----------------------------------------------------------------------------
(* The task of an operation: _run_load                                     *)

Move(n, o, from, to) ==
  /\ ops[n][o] # None
  /\ ops[n][o].at = from
  /\ ops' = [ops EXCEPT ![n][o].at = to]

\* _validate_model_runtime: the files are there, and what was declared of them.
Validate(n, o) ==
  /\ Move(n, o, "validating", "waiting") \/ Move(n, o, "validating", "failed")
  /\ UNCHANGED <<server, builtFrom, agentLock, unloads>>

\* The negotiated deadline ends before the load began.
DeadlineBefore(n, o) ==
  /\ Move(n, o, "validating", "late") \/ Move(n, o, "waiting", "late")
  /\ UNCHANGED <<server, builtFrom, agentLock, unloads>>

\* _load_serialized with the model's lock: already served, refused, or started.
BeginServer(n, o) ==
  LET m == ops[n][o].model
  IN  /\ ops[n][o] # None /\ ops[n][o].at = "waiting"
      /\ agentLock[n][m] = None
      /\ \/ /\ server[n][m] = "ready"
            /\ Move(n, o, "waiting", "ready")
            /\ builtFrom' = [builtFrom EXCEPT ![n][m] = ops[n][o].id]
            /\ UNCHANGED <<server, agentLock>>
         \/ /\ server[n][m] = "none" /\ Cardinality(Managers(n)) >= Places
            /\ Move(n, o, "waiting", "failed")
            /\ UNCHANGED <<server, builtFrom, agentLock>>
         \/ /\ server[n][m] = "none" /\ Cardinality(Managers(n)) < Places
            /\ Move(n, o, "waiting", "loading")
            /\ server' = [server EXCEPT ![n][m] = "loading"]
            /\ agentLock' = [agentLock EXCEPT ![n][m] = o]
            /\ UNCHANGED builtFrom
      /\ UNCHANGED unloads

\* _release_manager, then the end of the critical section.
Released(n, m) ==
  /\ server' = [server EXCEPT ![n][m] = "none"]
  /\ builtFrom' = [builtFrom EXCEPT ![n][m] = None]
  /\ agentLock' = [agentLock EXCEPT ![n][m] = None]

\* ensure_loaded returned, or raised.
ServerStarted(n, o) ==
  LET m == ops[n][o].model
  IN  /\ \/ /\ Move(n, o, "loading", "ready")
            /\ server' = [server EXCEPT ![n][m] = "ready"]
            /\ builtFrom' = [builtFrom EXCEPT ![n][m] = ops[n][o].id]
            /\ agentLock' = [agentLock EXCEPT ![n][m] = None]
         \/ /\ Move(n, o, "loading", "failed")
            /\ Released(n, m)
      /\ UNCHANGED unloads

\* The deadline ends during the load: _cancel_model_load stops the server.
CancelLoad(n, o) ==
  /\ Move(n, o, "loading", "cancelling")
  /\ server' = [server EXCEPT ![n][ops[n][o].model] = "unloading"]
  /\ UNCHANGED <<builtFrom, agentLock, unloads>>

LoadCancelled(n, o) ==
  /\ Move(n, o, "cancelling", "late")
  /\ Released(n, ops[n][o].model)
  /\ UNCHANGED unloads

\* _prune_operations_locked: retention over, or too many records.
ForgetOperation(n, o) ==
  /\ ops[n][o] # None /\ ops[n][o].at \in Terminal
  /\ ops' = [ops EXCEPT ![n][o] = None]
  /\ UNCHANGED <<server, builtFrom, agentLock, unloads>>

-----------------------------------------------------------------------------
(* POST /agent/models/{id}/unload and /agent/unload-all                    *)

\* unload: behind the load or the unload that holds the model's lock.
BeginUnload(n, m) ==
  /\ m \in unloads[n]
  /\ agentLock[n][m] = None
  /\ server[n][m] = "ready"
  /\ server' = [server EXCEPT ![n][m] = "unloading"]
  /\ agentLock' = [agentLock EXCEPT ![n][m] = "unload"]
  /\ UNCHANGED <<ops, builtFrom, unloads>>

\* The process is dead, or there was no manager ("unloaded": false).
EndUnload(n, m) ==
  /\ m \in unloads[n]
  /\ \/ agentLock[n][m] = "unload" /\ Released(n, m)
     \/ agentLock[n][m] = None /\ server[n][m] = "none" /\ UNCHANGED <<server, builtFrom, agentLock>>
  /\ unloads' = [unloads EXCEPT ![n] = @ \ {m}]
  /\ UNCHANGED ops

-----------------------------------------------------------------------------
(* Faults                                                                  *)

\* A llama-server dies and the watchdog's on_unload releases its manager.
ServerCrashed(n, m) ==
  /\ server[n][m] = "ready"
  /\ server' = [server EXCEPT ![n][m] = "none"]
  /\ builtFrom' = [builtFrom EXCEPT ![n][m] = None]
  /\ UNCHANGED <<ops, agentLock, unloads>>

\* The agent restarts: systemd ends its servers with it, its memory is lost.
AgentRestarted(n) ==
  /\ ops' = [ops EXCEPT ![n] = [o \in Op |-> None]]
  /\ server' = [server EXCEPT ![n] = [m \in Model |-> "none"]]
  /\ builtFrom' = [builtFrom EXCEPT ![n] = [m \in Model |-> None]]
  /\ agentLock' = [agentLock EXCEPT ![n] = [m \in Model |-> None]]
  /\ unloads' = [unloads EXCEPT ![n] = {}]

TaskStep(n, o) ==
  \/ Validate(n, o) \/ DeadlineBefore(n, o) \/ BeginServer(n, o)
  \/ ServerStarted(n, o) \/ CancelLoad(n, o) \/ LoadCancelled(n, o)

AgentStep(n) ==
  \/ \E o \in Op : TaskStep(n, o)
  \/ \E m \in Model : BeginUnload(n, m) \/ EndUnload(n, m)

-----------------------------------------------------------------------------
(* The agent implements the register of operations the gateway relies on   *)

EntryOf(operation) ==
  [model |-> operation.model, id |-> operation.id,
   state |-> IF operation.at \in Active THEN "pending"
             ELSE IF operation.at = "ready" THEN "ready" ELSE "failed"]

RegisterOf(n) == [o \in Op |-> IF ops[n][o] = None THEN None ELSE EntryOf(ops[n][o])]

\* The models served, each with the definition its server was started from.
ServedBy(n) == [m \in {l \in Model : server[n][l] = "ready"} |-> builtFrom[n][m].digest]
=============================================================================
