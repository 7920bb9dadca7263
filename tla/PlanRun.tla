------------------------------ MODULE PlanRun --------------------------------
(***************************************************************************)
(* Applying a bootstrap plan: src/gateway/bootstrap/execution.py (the plan *)
(* is read again and refused or executed step by step) and                 *)
(* install_report.py (the report of the installation, derived from the     *)
(* plan and the journal, and recomputed by whoever reads it back).         *)
(*                                                                         *)
(* An executor is code of another module: it may be missing, raise, or     *)
(* return any status, for its step or for another; host says which steps   *)
(* really took effect, "done" being said when one just did.  Messages,     *)
(* durations, evidence and the fields copied from the plan are left out,   *)
(* as is the check that each JSON field has its type; a fingerprint is the *)
(* value it is the digest of.                                              *)
(***************************************************************************)
EXTENDS Naturals, Sequences, FiniteSets

CONSTANTS
  Plans,       \* plan documents: [steps, failing, applicable]
  Registries,  \* sets of actions that have an executor
  Deviations   \* how many steps may not go as planned

VARIABLES
  registry,    \* the actions that have one here
  plan,        \* the plan document on disk
  loaded,      \* LoadedPlan, once accepted
  mode,        \* ExecutionMode
  pc,
  results,     \* the StepResults so far
  host,        \* the orders of the steps whose effect is on the host
  document,    \* the report, as archived
  left         \* deviations and other events still possible

planVars == <<registry, plan, loaded, mode, pc, results, host, document, left>>

StepStatuses == {"done", "already_satisfied", "would_apply", "skipped", "failed", "not_attempted"}

Actions == {"install_runtime", "download_model", "verify_artifact", "accept_license",
            "calibrate_model", "write_registry", "enable_model", "warmup_model", "smoke_test"}

None == [steps |-> <<>>, failing |-> FALSE, applicable |-> FALSE]

Init ==
  /\ registry \in Registries
  /\ plan \in Plans /\ loaded = None
  /\ mode \in {"dry-run", "apply"}
  /\ pc = "load" /\ results = <<>> /\ host = {}
  /\ document = None
  /\ left = Deviations

Deviate == left > 0 /\ left' = left - 1

-----------------------------------------------------------------------------
(* Reading the plan.                                                        *)

\* The numbers the steps carry must be 1, 2, 3...
StepsInOrder(steps) ==
  \A k \in DOMAIN steps : steps[k].order = k /\ steps[k].action \in Actions

\* Whatever the document says of itself, its sections are looked at again: the
\* verdict must be theirs, and a blocked plan has no step.
Consistent(p) == p.applicable = ~p.failing /\ (p.failing => p.steps = <<>>)

Accepted(p) == StepsInOrder(p.steps) /\ Consistent(p) /\ p.applicable

LoadPlan ==
  /\ pc = "load"
  /\ IF Accepted(plan) THEN pc' = "run" /\ loaded' = plan
                       ELSE pc' = "refused" /\ UNCHANGED loaded
  /\ UNCHANGED <<plan, mode, results, host, document, left>>

-----------------------------------------------------------------------------
(* execute_plan.                                                            *)

ForStep(step, status) ==
  [order |-> step.order, action |-> step.action, target |-> step.target, status |-> status]

NotAResult == [order |-> 0, action |-> "none", target |-> "none", status |-> "none"]

Failed(rs) == \E k \in DOMAIN rs : rs[k].status = "failed"

\* _guard_result: what the report keeps of what an executor returned.
GuardResultKeepingMode(result, step) ==
  IF result # ForStep(step, result.status) THEN ForStep(step, "failed") ELSE result

GuardResult(result, step) ==
  IF \/ result # ForStep(step, result.status)
     \/ mode = "dry-run" /\ result.status = "done"
     \/ mode = "apply" /\ result.status = "would_apply"
  THEN ForStep(step, "failed")
  ELSE result

\* What an executor that respects the mode returns for its step.
Expected(step) == ForStep(step, IF mode = "apply" THEN "done" ELSE "would_apply")

\* The effect the executor may have had, by what it returns: it does not claim
\* an effect it did not have, and one that raised or failed may have had it.
HostsAfter(result, step) ==
  IF result \in {ForStep(step, "done"), ForStep(step, "already_satisfied")}
    THEN {host \cup {step.order}}
  ELSE IF result \in {ForStep(step, s) : s \in {"would_apply", "skipped", "not_attempted"}}
    THEN {host}
  ELSE {host, host \cup {step.order}}

\* One executor, which may raise, or return anything, whatever the mode.
Execute ==
  LET step == loaded.steps[Len(results) + 1]
      others == {loaded.steps[k] : k \in DOMAIN loaded.steps} \ {step}
  IN /\ pc = "run" /\ Len(results) < Len(loaded.steps)
     /\ ~Failed(results)
     /\ step.action \in registry
     /\ \E result \in {NotAResult} \cup {ForStep(s, "done") : s \in others}
                      \cup {ForStep(step, status) : status \in StepStatuses} :
          /\ IF result = Expected(step) THEN UNCHANGED left ELSE Deviate
          /\ results' = Append(results, GuardResult(result, step))
          /\ host' \in HostsAfter(result, step)
     /\ UNCHANGED <<plan, loaded, mode, pc, document>>

\* The action has no executor in this version.
Unsupported ==
  LET step == loaded.steps[Len(results) + 1]
  IN /\ pc = "run" /\ Len(results) < Len(loaded.steps)
     /\ ~Failed(results)
     /\ step.action \notin registry
     /\ results' = Append(results, ForStep(step, "failed"))
     /\ UNCHANGED <<plan, loaded, mode, pc, host, document, left>>

\* A step failed: none of the following ones is tried.
NotAttempted ==
  /\ pc = "run" /\ Len(results) < Len(loaded.steps)
  /\ Failed(results)
  /\ results' = Append(results, ForStep(loaded.steps[Len(results) + 1], "not_attempted"))
  /\ UNCHANGED <<plan, loaded, mode, pc, host, document, left>>

\* ^C or a cancellation goes through execute_plan: there is no report at all.
Interrupt ==
  /\ pc = "run" /\ Len(results) < Len(loaded.steps)
  /\ Deviate
  /\ pc' = "interrupted"
  /\ UNCHANGED <<plan, loaded, mode, results, host, document>>

\* ExecutionReport.verdict
Verdict(rs) ==
  LET statuses == {rs[k].status : k \in DOMAIN rs}
  IN IF "failed" \in statuses THEN "failed"
     ELSE IF "not_attempted" \in statuses THEN "incomplete"
     ELSE IF statuses \cap {"would_apply", "skipped"} # {} THEN "partial"
     ELSE "ok"

Finish ==
  /\ pc = "run" /\ Len(results) = Len(loaded.steps)
  /\ pc' = "report"
  /\ UNCHANGED <<plan, loaded, mode, results, host, document, left>>

-----------------------------------------------------------------------------
(* The conditions of an installation and their evaluation.                  *)

Condition(actions, shared, anchors) == [actions |-> actions, shared |-> shared, anchors |-> anchors]

Conditions ==
  [runtime_installed |-> Condition({"install_runtime"}, {"verify_artifact"}, {"install_runtime"}),
   model_downloaded  |-> Condition({"download_model"}, {"verify_artifact"},
                           {"calibrate_model", "enable_model", "warmup_model", "smoke_test"}),
   license_accepted  |-> Condition({"accept_license"}, {}, {}),
   calibrated        |-> Condition({"calibrate_model"}, {}, {}),
   warmed_up         |-> Condition({"warmup_model"}, {}, {}),
   e2e_call          |-> Condition({"smoke_test"}, {}, {})]

Domain(c, rs) == {rs[k].target : k \in {j \in DOMAIN rs : rs[j].action \in c.anchors}}

\* The steps that may prove a condition: its own, and the shared ones that are
\* about the same target.
ProvingSteps(c, rs) ==
  {k \in DOMAIN rs : \/ rs[k].action \in c.actions
                     \/ rs[k].action \in c.shared /\ rs[k].target \in Domain(c, rs)}

EvaluateCondition(c, rs, applied) ==
  LET proving == ProvingSteps(c, rs)
  IN IF proving = {} \/ ~applied THEN "unproven"
     ELSE IF \E k \in proving : rs[k].status \notin {"done", "already_satisfied"}
       THEN "unsatisfied"
     ELSE "satisfied"

EvaluateConditions(rs, applied) ==
  [code \in DOMAIN Conditions |-> EvaluateCondition(Conditions[code], rs, applied)]

\* InstallReport.verdict
InstallVerdict(rs, applied) ==
  IF Verdict(rs) = "failed" THEN "failed"
  ELSE IF \/ \E code \in DOMAIN Conditions : EvaluateConditions(rs, applied)[code] # "satisfied"
          \/ ~applied
          \/ Verdict(rs) # "ok"
    THEN "partial"
  ELSE "complete"

\* The journal of a run, and the report on it.
Journal == [plan |-> loaded, mode |-> mode, results |-> results]

Report(p, journal) ==
  LET applied == journal.mode = "apply"
  IN [plan |-> p, execution |-> journal, planFingerprint |-> p, executionFingerprint |-> journal,
      conditions |-> EvaluateConditions(journal.results, applied),
      verdict |-> InstallVerdict(journal.results, applied)]

\* validate_execution_document
ValidJournal(journal) ==
  /\ \A k \in DOMAIN journal.results : journal.results[k].order = k
  /\ ~ \E k \in DOMAIN journal.results :
         journal.results[k].status = IF journal.mode = "apply" THEN "would_apply" ELSE "done"

\* build_install_report: the plan on disk must be the one the journal is about.
BuildReport ==
  /\ pc = "report"
  /\ IF Accepted(plan) /\ ValidJournal(Journal) /\ loaded = plan
       THEN document' = Report(plan, Journal) /\ pc' = "archived"
       ELSE pc' = "refused" /\ UNCHANGED document
  /\ UNCHANGED <<plan, loaded, mode, results, host, left>>

\* The plan file is regenerated in between.
Regenerate ==
  /\ pc \in {"run", "report"}
  /\ Deviate
  /\ plan' \in Plans \ {plan}
  /\ UNCHANGED <<loaded, mode, pc, results, host, document>>

\* Someone touches the archived document.
Alter ==
  LET d == document
  IN /\ pc = "archived"
     /\ Deviate
     /\ \/ document' = [d EXCEPT !.verdict = "complete"]
        \/ document' = [d EXCEPT !.conditions = [code \in DOMAIN @ |-> "satisfied"]]
        \/ document' = [d EXCEPT !.execution.mode = "apply"]
        \/ \E p \in Plans : document' = [d EXCEPT !.plan = p, !.planFingerprint = p]
        \/ \E k \in DOMAIN results : document' = [d EXCEPT !.execution.results[k].status = "done"]
     /\ UNCHANGED <<plan, loaded, mode, pc, results, host>>

\* validate_install_document: everything the report says is derived again from
\* the two documents it embeds.
ValidTrustingVerdict(d) ==
  /\ ValidJournal(d.execution) /\ Accepted(d.plan) /\ d.execution.plan = d.plan
  /\ d.planFingerprint = d.plan /\ d.executionFingerprint = d.execution
  /\ d.conditions = EvaluateConditions(d.execution.results, d.execution.mode = "apply")

Valid(d) ==
  /\ ValidJournal(d.execution)
  /\ Accepted(d.plan) /\ d.execution.plan = d.plan
  /\ d = Report(d.plan, d.execution)

ReadBack ==
  /\ pc = "archived"
  /\ pc' = IF Valid(document) THEN "believed" ELSE "refused"
  /\ UNCHANGED <<plan, loaded, mode, results, host, document, left>>

Next ==
  /\ UNCHANGED registry
  /\ \/ LoadPlan \/ Execute \/ Unsupported \/ NotAttempted \/ Interrupt \/ Finish
     \/ BuildReport \/ Regenerate \/ Alter \/ ReadBack

Spec == Init /\ [][Next]_planVars

-----------------------------------------------------------------------------
PlanRunTypeOK ==
  /\ pc \in {"load", "run", "report", "archived", "believed", "refused", "interrupted"}
  /\ \A k \in DOMAIN results : results[k].order = k /\ results[k].status \in StepStatuses
  /\ host \subseteq DOMAIN results

\* A report that is believed and says "complete" was earned: the plan was
\* applied, not simulated, every step of it has its effect on the host, and
\* each condition has a step of its own to show for it.
CompleteIsProven ==
  (pc = "believed" /\ document.verdict = "complete") =>
    /\ mode = "apply" /\ document.plan = loaded /\ ~loaded.failing
    /\ host = DOMAIN loaded.steps
    /\ \A action \in {"install_runtime", "accept_license", "calibrate_model", "warmup_model",
                      "smoke_test"} :
         \E k \in host : loaded.steps[k].action = action
    /\ \E k \in host : \/ loaded.steps[k].action = "download_model"
                       \/ /\ loaded.steps[k].action = "verify_artifact"
                          /\ \E j \in host : /\ loaded.steps[j].action # "install_runtime"
                                             /\ loaded.steps[j].target = loaded.steps[k].target

\* Nothing happens on the host unseen: an effect during a simulation, or a
\* result returned for another step, stops the run and makes it fail; and no
\* step has an effect after one that failed.
NothingUnseen ==
  /\ \A k \in DOMAIN results : results[k].status = "done" => k \in host
  /\ \A k \in host : \A j \in DOMAIN results : results[j].status = "failed" => k <= j
  /\ (pc = "report" /\ mode = "dry-run") =>
       \A k \in host : results[k].status \in {"already_satisfied", "failed"}

=============================================================================
