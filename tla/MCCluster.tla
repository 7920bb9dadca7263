------------------------------- MODULE MCCluster -------------------------------
(***************************************************************************)
(* Small clusters.  Each scenario names the nodes that exist and how often *)
(* each fault may happen, so that one run covers several kinds of trouble  *)
(* without multiplying them all.                                           *)
(***************************************************************************)
EXTENDS Cluster, TLC

CONSTANTS n1, n2, m1, m2, r1, r2, o1, o2, o3

MCOp == {o1, o2, o3}

\* The identities that one edit and one restart make, for the register.
MCIdentity == [digest : 0..1, generation : 0..1]

MCFault == {"ask", "unload", "unload all", "edit", "restart", "reboot", "crash", "forget",
            "lost", "slow", "refused", "doubt", "unroutable"}

\* The counts given, and none of the other faults.
Only(counts) == [f \in MCFault |-> IF f \in DOMAIN counts THEN counts[f] ELSE 0]

Register1 == INSTANCE OperationRegister
               WITH register <- RegisterOf(n1), served <- ServedBy(n1), Identity <- MCIdentity
Register2 == INSTANCE OperationRegister
               WITH register <- RegisterOf(n2), served <- ServedBy(n2), Identity <- MCIdentity

\* Every agent behaves as an OperationRegister: whatever calls are repeated, late
\* or crossed by unloads, an operation is accepted once, models have one pending
\* operation, outcomes are final, "ready" is announced only of a model that is served
\* from the definition asked for, and no server passes for one of another definition.
ImplementsRegister == Register1!Spec /\ Register2!Spec

Safety == {
  \* Two models compete for a node, without and with lost RPCs.
  [nodes |-> {n1}, left |-> Only([ask |-> 3])],
  [nodes |-> {n1}, left |-> Only([ask |-> 2, lost |-> 1, unload |-> 1])],
  \* The definition changes around a load left in doubt.
  [nodes |-> {n1}, left |-> Only([ask |-> 2, edit |-> 1, doubt |-> 1])],
  \* The gateway restarts with calls in flight.
  [nodes |-> {n1}, left |-> Only([ask |-> 2, restart |-> 1, lost |-> 1])],
  \* The agent restarts, forgets, or loses a server.
  [nodes |-> {n1}, left |-> Only([ask |-> 2, slow |-> 1, reboot |-> 1, forget |-> 1])],
  [nodes |-> {n1}, left |-> Only([ask |-> 2, crash |-> 1, unroutable |-> 1, doubt |-> 1])],
  \* unload_all crosses loads.
  [nodes |-> {n1}, left |-> [Only([ask |-> 2, doubt |-> 1]) EXCEPT !["unload all"] = 1]],
  [nodes |-> {n1}, left |-> [Only([ask |-> 1, lost |-> 1]) EXCEPT !["unload all"] = 1]],
  \* Failover to a second node.
  [nodes |-> {n1, n2}, left |-> Only([ask |-> 1, lost |-> 2])],
  [nodes |-> {n1, n2}, left |-> Only([ask |-> 1, refused |-> 1, unroutable |-> 1])] }

Live == {
  [nodes |-> {n1}, left |-> Only([ask |-> 2, lost |-> 1])],
  [nodes |-> {n1}, left |-> Only([ask |-> 1, lost |-> 1, restart |-> 1, crash |-> 1])],
  [nodes |-> {n1}, left |-> [Only([ask |-> 1, unload |-> 1, doubt |-> 1]) EXCEPT !["unload all"] = 1]],
  [nodes |-> {n1, n2}, left |-> Only([ask |-> 1, refused |-> 1, unroutable |-> 1])] }
=============================================================================
