------------------------------ MODULE MCLocalPool ------------------------------
(***************************************************************************)
(* LocalPool on small instances.  The weights make the models compete:     *)
(* under Budget 2, "big" fits only alone.  A behaviour belongs to one      *)
(* case, which says who takes part: how many requests at a time, on which  *)
(* models, with a pre-load, an admin task, unload_all_models or a          *)
(* bootstrap transition or not.                                            *)
(***************************************************************************)
EXTENDS LocalPool, TLC

CONSTANTS big, small, tiny, Cases

VARIABLE case

mcVars == <<vars, case>>

MCVramGb == [m \in Model |-> IF m = big THEN 2 ELSE 1]

Plain      == {[force |-> FALSE, disable |-> FALSE]}
AnyAdminOp == [force : BOOLEAN, disable : BOOLEAN]

Case(requests, servers, models, others) ==
  [requests |-> requests, servers |-> servers, models |-> models, others |-> others]

SafetyCases ==
  {Case(3, 3, {big, small}, {}),
   Case(1, 3, {big, small}, {"admin"}), Case(2, 3, {small}, {"admin"})}

UnloadCases ==
  {Case(1, 3, {big, small, tiny}, {}), Case(1, 3, {big, small}, {"preload"}),
   Case(1, 2, {big, small}, {"unloader"}), Case(1, 2, {small}, {"preload", "unloader"})}

LiveCases == {Case(2, 2, {big, small}, {}), Case(2, 2, {small}, {"gate"})}

UnloadLiveCases == {Case(1, 2, {small}, {"admin", "unloader"})}

GateCases == {Case(2, 3, {big, small}, {"gate"})}

Takes(part) == part \in case.others

InCase ==
  /\ Cardinality({r \in Request \ Preload : pc[r] # "idle"}) <= case.requests
  /\ Cardinality({i \in Instance : ~Fresh(i)}) <= case.servers
  /\ \A r \in Request : target[r] \in case.models \cup {None}
  /\ Takes("preload") \/ \A r \in Preload : pc[r] = "idle"
  /\ Takes("admin") \/ \A a \in Admin : adminPc[a] = "idle"
  /\ \A a \in Admin : adminModel[a] \in case.models \cup {None}
  /\ Takes("unloader") \/ \A u \in Unloader : unloaderPc[u] = "idle"
  /\ Takes("gate") \/ bootstrapBlocked = {}

MCInit == Init /\ case \in Cases

MCNext == Next /\ UNCHANGED case /\ InCase'

MCSpec == MCInit /\ [][MCNext]_mcVars

MCFairSpec == MCSpec /\ Fairness

Symmetry ==
  Permutations(Instance) \cup Permutations(Request \ Preload)

\* What is left in a ServerManager that nobody refers to any more is rewritten
\* before it is read again: states that differ only there are one state.
InstanceView(i) ==
  IF Fresh(i)
  THEN None
  ELSE <<state[i], process[i], loadTask[i], loadError[i], readyEvent[i], modelOf[i], portOf[i]>>

View ==
  <<[i \in Instance |-> InstanceView(i)], managers, portPool, older, modelLock, condVars,
    gateVars, reqVars, adminVars, allVars, case>>
=============================================================================
