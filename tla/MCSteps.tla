------------------------------- MODULE MCSteps -------------------------------
(***************************************************************************)
(* The jobs on small instances: two processes of two versions, three       *)
(* installations, two runtimes, the hosts and policies of PlannerCases,    *)
(* the plans of a planner and others, and faults of each kind.             *)
(***************************************************************************)
EXTENDS Jobs, PlannerCases

MCKnown == [p \in Processes |-> IF p = "old" THEN 1 ELSE 2]

MCFetchTrouble ==
  [runs |-> 3, disk |-> 1, norange |-> 1, badrange |-> 1, error |-> 1, corrupt |-> 1,
   cut |-> 1, extra |-> 1, kill |-> 1, revision |-> 1]

MCInstallTrouble ==
  [runs |-> 3, transport |-> 1, supply |-> 1, extract |-> 1, write |-> 1,
   kill |-> 1, alter |-> 1, rollback |-> 1]

MCArtifacts == <<"gguf", "mmproj">>

MCHashTrouble == [modify |-> 2, unreadable |-> 1, cancel |-> 1, again |-> 1]

\* A runtime holds its number in units for a target context, and one unit per
\* parameter set; the second runtime needs more than the first.
MCNeed == [r \in {1, 2} |-> [p \in {1, 2} |-> [reduced |-> p, target |-> p + r]]]

MCMeasureTrouble ==
  [runs |-> 2, reading |-> 1, load |-> 1, prompt |-> 0, unload |-> 1, write |-> 1, cancel |-> 1,
   crash |-> 1, upgrade |-> 1]

MCRecipeTrouble ==
  [load |-> 1, probe |-> 1, stream |-> 1, lost |-> 2, cancel |-> 2, evict |-> 1, patch |-> 1]

\* The plan of a bare host without a GPU; the same once the runtime is there;
\* and documents that are not what a planner writes.
Numbered(steps) ==
  [k \in DOMAIN steps |-> [order |-> k, action |-> steps[k].action, target |-> steps[k].target]]

PlanDocument(steps, blocked, applicable) ==
  [steps |-> steps, failing |-> blocked, applicable |-> applicable]

FullSteps ==
  LET Step(action, target) == [action |-> action, target |-> target]
  IN  <<Step("install_runtime", "llama-server"), Step("accept_license", "license"),
        Step("download_model", "small"), Step("verify_artifact", "small"),
        Step("write_registry", "small"), Step("calibrate_model", "small"),
        Step("enable_model", "small"), Step("smoke_test", "small"), Step("warmup_model", "small")>>

\* They are the planner's own.
ASSUME PlannedSteps ==
  FullSteps =
    Planning!PlanFor(Host("absent", {}, FALSE, {}), Planning!NoBinary, Planning!NoManifest,
                     [id \in Planning!Ids |-> "none"], {}, Policy(6, 6, FALSE, MCVariants),
                     "answers", {"small"}).steps

WithoutRuntime == SubSeq(FullSteps, 2, Len(FullSteps))

WithoutDownload == SelectSeq(FullSteps, LAMBDA s : s.action # "download_model")

MCPlans ==
  {PlanDocument(Numbered(FullSteps), FALSE, TRUE),
   PlanDocument(Numbered(WithoutRuntime), FALSE, TRUE),
   PlanDocument(Numbered(WithoutDownload), FALSE, TRUE),
   PlanDocument(Numbered(FullSteps), TRUE, TRUE),
   PlanDocument(<<>>, TRUE, FALSE),
   PlanDocument(Tail(Numbered(FullSteps)), FALSE, TRUE)}

PlannedActions == {FullSteps[k].action : k \in DOMAIN FullSteps}

\* Every action has an executor, or the tool cannot preheat a model.
MCRegistries == {PlannedActions, PlannedActions \ {"warmup_model"}}
=============================================================================
