------------------------------ MODULE Planner --------------------------------
(***************************************************************************)
(* Deciding what to install: src/gateway/bootstrap/planner.py, with the    *)
(* hardware inventory (inventory.py), the choice of a llama-server         *)
(* (runtime_resolver.py), the advice of LLMfit (llmfit.py) and the         *)
(* approved models (catalog.py) it combines.                               *)
(*                                                                         *)
(* The operator plans, applies, and plans again; in between the host, the  *)
(* files and the policy may change.  Applying is what the executors do     *)
(* when all goes well (RuntimeInstall and Download have the rest), or a    *)
(* stop.  A file is its state against the catalogue, a binary's bytes are  *)
(* a number, sizes are in units; messages and warnings are left out, a     *)
(* finding being kept when it blocks the plan.                             *)
(***************************************************************************)
EXTENDS Integers, Sequences, FiniteSets, SequencesExt, FiniteSetsExt

CONSTANTS
  Hosts,      \* [probe, gpus, declared, shown, disk, ram]
  Catalog,    \* set of [id, pinned, gated, vram, ram, disk, consent]
  Advised,    \* what LLMfit answers when it does: a sequence of labels
  Policies,   \* [floor, pinned, cpu, localBuild, container, variants]
  MaxModels,
  Scenario    \* how many times each kind of event may happen

VARIABLES
  machine,    \* the host of the gateway
  binary,     \* the llama-server in place
  provenance, \* the manifest beside it
  weights,    \* model -> what is at its target path
  vouched,    \* the models whose provenance manifest is coherent
  policy,
  proposal,   \* the plan last built
  at,         \* how many of its steps are done
  pc,
  quiet,      \* nothing has changed since a plan was applied in full
  left

plannerVars == <<machine, binary, provenance, weights, vouched, policy, proposal, at, pc, quiet, left>>

NoBinary == [build |-> 0, commit |-> 0, backend |-> "none", bytes |-> 0]

NoManifest == [build |-> 0, commit |-> 0, backend |-> "none", sum |-> 0]

Ids == {entry.id : entry \in Catalog}

Machine ==
  [probe : {"ok", "absent", "failed"}, gpus : SUBSET [id : Nat, driver : Nat, vram : Nat],
   declared : BOOLEAN, shown : SUBSET Nat, disk : Int, ram : Nat]

CatalogEntry ==
  [id : STRING, pinned : BOOLEAN, gated : BOOLEAN, vram : Nat, ram : Nat, disk : Nat,
   consent : BOOLEAN]

-----------------------------------------------------------------------------
(* The inventory.                                                           *)

Cuda12MinDriver == 525
Cuda13MinDriver == 580

\* CUDA_VISIBLE_DEVICES: all of them when it is not set; one unknown token and
\* the selection does not resolve.
VisibleGpus(h) ==
  IF ~h.declared THEN h.gpus ELSE {g \in h.gpus : g.id \in h.shown}

VisibilityFails(h) ==
  /\ h.gpus # {} /\ h.declared
  /\ \/ VisibleGpus(h) = {}
     \/ \E id \in h.shown : id \notin {g.id : g \in h.gpus}

\* The oldest readable driver decides which CUDA builds would start.
CudaBackends(visible) ==
  LET majors == {g.driver : g \in visible} \ {0}
  IN IF majors = {} \/ Min(majors) < Cuda12MinDriver THEN <<>>
     ELSE IF Min(majors) >= Cuda13MinDriver THEN <<"cuda13", "cuda12">>
     ELSE <<"cuda12">>

\* A probe that could not conclude proposes nothing, not even the CPU.
BackendCandidates(h) ==
  IF h.probe = "failed" THEN <<>>
  ELSE LET visible == IF h.probe = "ok" THEN VisibleGpus(h) ELSE {}
       IN CudaBackends(visible) \o (IF visible = {} THEN <<>> ELSE <<"vulkan">>) \o <<"cpu">>

ProbedGpus(h) == IF h.probe = "ok" THEN h.gpus ELSE {}

VisibleVram(h) == MapThenSumSet(LAMBDA g : g.vram, ProbedGpus(h) \cap VisibleGpus(h))

CollectHardware(h) ==
  [candidates |-> BackendCandidates(h),
   gpus |-> Cardinality(ProbedGpus(h)),
   vram |-> VisibleVram(h),
   ram |-> h.ram, disk |-> h.disk,
   failing |-> h.probe = "failed" \/ (h.probe = "ok" /\ VisibilityFails(h))]

-----------------------------------------------------------------------------
(* The runtime.                                                             *)

GpuBackends == {"cuda12", "cuda13", "vulkan", "rocm", "metal"}

SourceOrder == <<"official-release", "official-container", "evaruntime-build", "local-build">>

NoVariant == [source |-> "none", backend |-> "none", pinned |-> FALSE]

\* The GPU backends among the candidates, none on a host without a GPU.
GpuTargets(profile) ==
  IF profile.gpus = 0 THEN {} ELSE Range(profile.candidates) \cap GpuBackends

ArtifactVariant == [source : Range(SourceOrder), backend : GpuBackends \cup {"cpu"}, pinned : BOOLEAN]

ResolverPolicy ==
  [floor : Nat, pinned : Nat, cpu : BOOLEAN, localBuild : BOOLEAN, container : BOOLEAN,
   variants : SUBSET ArtifactVariant]

Eligible(variant, p) ==
  /\ variant.source = "official-container" => p.container
  /\ variant.source = "local-build" => p.localBuild
  /\ variant.source # "local-build" => variant.pinned

Position(x, s) == CHOOSE k \in DOMAIN s : s[k] = x

\* Every source of the order for all the backends, in the order of the
\* candidates, then the next source.
FirstMatch(backends, candidates, p) ==
  LET matches == {v \in p.variants : v.backend \in backends /\ Eligible(v, p)}
      Before(v, w) ==
        LET s == Position(v.source, SourceOrder)
            t == Position(w.source, SourceOrder)
        IN s < t \/ (s = t /\ Position(v.backend, candidates) <= Position(w.backend, candidates))
  IN IF matches = {} THEN NoVariant
     ELSE CHOOSE v \in matches : \A w \in matches : Before(v, w)

\* A GPU variant when a GPU is there; the CPU only when none is, or with the
\* operator's consent, and then the plan is degraded.
SelectVariantTacitly(profile, p) ==
  LET onGpu == FirstMatch(GpuTargets(profile), profile.candidates, p)
      onCpu == FirstMatch({"cpu"} \cap Range(profile.candidates), profile.candidates, p)
  IN IF onGpu # NoVariant THEN [variant |-> onGpu, degraded |-> FALSE]
     ELSE [variant |-> onCpu, degraded |-> FALSE]

SelectVariant(profile, p) ==
  LET onGpu == FirstMatch(GpuTargets(profile), profile.candidates, p)
      onCpu == FirstMatch({"cpu"} \cap Range(profile.candidates), profile.candidates, p)
  IN IF onGpu # NoVariant THEN [variant |-> onGpu, degraded |-> FALSE]
     ELSE IF GpuTargets(profile) = {} THEN [variant |-> onCpu, degraded |-> FALSE]
     ELSE IF p.cpu THEN [variant |-> onCpu, degraded |-> onCpu # NoVariant]
     ELSE [variant |-> NoVariant, degraded |-> FALSE]

ShallowCloneMaxBuild == 1

\* The manifest against what --version says, the host, and the bytes in place.
\* Without one the binary is kept only where there is no GPU to lose; a binary
\* that does not say its commit (0) is not compared on it.
JudgeManifestAlone(b, m, profile) ==
  IF m = NoManifest THEN GpuTargets(profile) = {}
  ELSE m.build = b.build /\ b.commit \in {0, m.commit} /\ m.backend \in Range(profile.candidates)

JudgeManifest(b, m, profile) ==
  IF m = NoManifest THEN GpuTargets(profile) = {}
  ELSE /\ m.build = b.build /\ b.commit \in {0, m.commit}
       /\ m.backend \in Range(profile.candidates)
       /\ m.sum = b.bytes

\* A version that cannot be read, or is that of a shallow clone, proves no floor.
JudgeExistingBinary(b, m, floor, profile) ==
  IF b.build = 0 /\ floor > 0 THEN "fatal"
  ELSE IF b.build <= ShallowCloneMaxBuild /\ floor > ShallowCloneMaxBuild THEN "fatal"
  ELSE IF /\ b.build > ShallowCloneMaxBuild /\ b.build >= floor
          /\ JudgeManifest(b, m, profile)
    THEN "reuse"
  ELSE "replace"

Resolution(resolved, reuse, degraded, variant) ==
  [resolved |-> resolved, reuse |-> reuse, degraded |-> degraded, variant |-> variant]

ResolveRuntime(b, m, p, profile) ==
  LET verdict == IF b = NoBinary THEN "replace" ELSE JudgeExistingBinary(b, m, p.floor, profile)
      selection == SelectVariant(profile, p)
  IN IF verdict = "fatal" THEN Resolution(FALSE, FALSE, FALSE, NoVariant)
     ELSE IF verdict = "reuse" THEN Resolution(TRUE, TRUE, FALSE, NoVariant)
     ELSE Resolution(selection.variant # NoVariant, FALSE, selection.degraded, selection.variant)

-----------------------------------------------------------------------------
(* The models.                                                              *)

\* LLMfit runs only when its bytes are the pinned ones; only its absence, or
\* a failure once it is trusted, goes without saying.
RunLLMfit(tool) ==
  [failing |-> tool \in {"unreadable", "tampered"},
   candidates |-> IF tool = "answers" THEN Advised ELSE <<>>]

Plannable(entry) == entry.pinned /\ ~entry.gated

\* Five quarters of the volume must be free, and the memory must hold it.
Fits(entry, profile) ==
  /\ 4 * profile.disk >= 5 * entry.disk
  /\ IF profile.vram > 0 THEN entry.vram <= profile.vram
                         ELSE 5 * entry.ram <= 3 * profile.ram

\* The advice orders what already fits, and adds nothing.  Entries of one rank and
\* one size keep the order they were given in; any fixed one does here.
OrderByAdvice(fitting, advice) ==
  LET Rank(entry) == IF entry.id \in Range(advice) THEN Position(entry.id, advice) ELSE Len(advice) + 1
      Before(e, f) == Rank(e) < Rank(f) \/ (Rank(e) = Rank(f) /\ e.vram < f.vram)
  IN CHOOSE s \in SetToSeqs(fitting) : \A j, k \in DOMAIN s : j < k => ~Before(s[k], s[j])

Prefix(s, n) == SubSeq(s, 1, IF Len(s) < n THEN Len(s) ELSE n)

SelectModels(selected, profile, advice) ==
  Prefix(OrderByAdvice({e \in Catalog : e.id \in selected /\ Plannable(e) /\ Fits(e, profile)},
                       advice), MaxModels)

\* A target path holds "none", a "partial" set, a file of another size
\* ("divergent"), or the "complete" set; only the manifest makes it attested.
Attested(id, w, v) == w[id] = "complete" /\ id \in v

-----------------------------------------------------------------------------
(* The plan.                                                                *)

InstallSteps(resolution) ==
  IF resolution.resolved /\ ~resolution.reuse
  THEN <<[action |-> "install_runtime", target |-> "llama-server"]>> ELSE <<>>

Anchored(actions, id) == [k \in DOMAIN actions |-> [action |-> actions[k], target |-> id]]

ModelSteps(entry, w, v) ==
  (IF entry.consent THEN <<[action |-> "accept_license", target |-> "license"]>> ELSE <<>>)
  \o (IF Attested(entry.id, w, v) THEN <<>>
      ELSE <<[action |-> "download_model", target |-> entry.id]>>)
  \o Anchored(<<"verify_artifact", "write_registry", "calibrate_model", "enable_model",
                "smoke_test", "warmup_model">>, entry.id)

AssembleSteps(resolution, retained, w, v) ==
  InstallSteps(resolution)
  \o FlattenSeq([k \in DOMAIN retained |-> ModelSteps(retained[k], w, v)])

Nothing == [resolution |-> Resolution(FALSE, FALSE, FALSE, NoVariant), retained |-> <<>>,
            steps |-> <<>>, failing |-> TRUE]

\* build_plan: every section is computed, and one blocking finding in any of
\* them leaves the plan without a step.
PlanFor(h, b, m, w, v, p, tool, selected) ==
  LET profile == CollectHardware(h)
      resolution == ResolveRuntime(b, m, p, profile)
      advice == RunLLMfit(tool)
      retained == SelectModels(selected, profile, advice.candidates)
      failing == \/ profile.failing
                 \/ ~resolution.resolved
                 \/ advice.failing
                 \/ \E e \in Catalog : e.id \in selected /\ ~Plannable(e)
                 \/ retained = <<>>
                 \/ \E k \in DOMAIN retained : w[retained[k].id] = "divergent"
  IN [resolution |-> resolution, retained |-> retained, failing |-> failing,
      steps |-> IF failing THEN <<>> ELSE AssembleSteps(resolution, retained, w, v)]

Init ==
  /\ machine \in Hosts /\ policy \in Policies
  /\ binary = NoBinary /\ provenance = NoManifest
  /\ weights = [id \in Ids |-> "none"] /\ vouched = {}
  /\ proposal = Nothing /\ at = 0 /\ pc = "idle" /\ quiet = FALSE
  /\ left = Scenario

BuildPlan ==
  /\ pc = "idle"
  /\ \E tool \in {"absent", "tampered", "answers"} :
     \E selected \in {{e.id : e \in {f \in Catalog : Plannable(f)}}, Ids} :
       proposal' = PlanFor(machine, binary, provenance, weights, vouched, policy, tool, selected)
  /\ at' = 0 /\ pc' = "planned"
  /\ UNCHANGED <<machine, binary, provenance, weights, vouched, policy, quiet, left>>

-----------------------------------------------------------------------------
(* Applying it.                                                             *)

Spend(what) == left[what] > 0 /\ left' = [left EXCEPT ![what] = @ - 1]

Entry(id) == CHOOSE e \in Catalog : e.id = id

\* The bytes of the archive a policy pins: the same ones every time.
BytesOf(variant, p) == 100 * p.pinned + Position(variant.backend, <<"cuda13", "cuda12", "vulkan", "cpu">>)

\* Only an archive can be installed: the executor refuses the other sources.
Installable(variant) == variant.source \in {"official-release", "evaruntime-build"}

Ahead == pc = "planned" /\ ~proposal.failing /\ at < Len(proposal.steps)

\* The manifest written beside the binary: the hash of its own bytes, or, as it
\* once was, of the archive alone.
ManifestOfArchive(variant, p) ==
  [build |-> p.pinned, commit |-> p.pinned, backend |-> variant.backend, sum |-> 0]

ManifestOf(variant, p) ==
  [build |-> p.pinned, commit |-> p.pinned, backend |-> variant.backend, sum |-> BytesOf(variant, p)]

InstallRuntime ==
  LET variant == proposal.resolution.variant
  IN /\ Ahead /\ proposal.steps[at + 1].action = "install_runtime"
     /\ Installable(variant)
     /\ binary' = [build |-> policy.pinned, commit |-> policy.pinned, backend |-> variant.backend,
                   bytes |-> BytesOf(variant, policy)]
     /\ provenance' = ManifestOf(variant, policy)
     /\ at' = at + 1
     /\ UNCHANGED <<machine, weights, vouched, policy, proposal, pc, quiet, left>>

\* The files that are there are hashed again, the others fetched.
DownloadModel ==
  LET id == proposal.steps[at + 1].target
  IN /\ Ahead /\ proposal.steps[at + 1].action = "download_model"
     /\ weights' = [weights EXCEPT ![id] = "complete"]
     /\ vouched' = vouched \cup {id}
     /\ machine' = IF weights[id] = "complete" THEN machine
                   ELSE [machine EXCEPT !.disk = @ - Entry(id).disk]
     /\ at' = at + 1
     /\ UNCHANGED <<binary, provenance, policy, proposal, pc, quiet, left>>

\* The steps that leave the runtime and the files as they are.
OtherStep ==
  /\ Ahead /\ proposal.steps[at + 1].action \notin {"install_runtime", "download_model"}
  /\ at' = at + 1
  /\ UNCHANGED <<machine, binary, provenance, weights, vouched, policy, proposal, pc, quiet, left>>

Done ==
  /\ pc = "planned" /\ ~proposal.failing /\ at = Len(proposal.steps)
  /\ pc' = "applied" /\ quiet' = TRUE /\ proposal' = Nothing /\ at' = 0
  /\ UNCHANGED <<machine, binary, provenance, weights, vouched, policy, left>>

\* The plan is refused, is only looked at, or stops at a step; and another is
\* asked for.
Again ==
  /\ \/ pc = "applied" /\ quiet' = quiet
     \/ pc = "planned" /\ at = 0 /\ quiet' = quiet
     \/ pc = "planned" /\ at > 0 /\ at < Len(proposal.steps) /\ quiet' = FALSE
  /\ Spend("again")
  /\ pc' = "idle" /\ proposal' = Nothing /\ at' = 0
  /\ UNCHANGED <<machine, binary, provenance, weights, vouched, policy>>

\* The world changes between two plans.
Change == pc = "idle" /\ Spend("change") /\ quiet' = FALSE /\ UNCHANGED <<proposal, at, pc>>

\* A card or a driver comes or goes.
OtherHardware ==
  /\ Change
  /\ \E h \in Hosts : machine' = [h EXCEPT !.disk = machine.disk]
  /\ UNCHANGED <<binary, provenance, weights, vouched, policy>>

\* Someone puts another llama-server at the same path, whose --version may say
\* the same, or nothing.
OtherBinary ==
  /\ Change
  /\ \E build \in {binary.build, 0, 1, 7} : \E commit \in {build, 0} :
       binary' = [build |-> build, commit |-> commit, backend |-> "cpu", bytes |-> 1]
  /\ UNCHANGED <<machine, provenance, weights, vouched, policy>>

\* The manifest is lost, or is one of before the hash of the binary was kept.
OtherManifest ==
  /\ Change
  /\ provenance # NoManifest
  /\ provenance' \in {NoManifest, [provenance EXCEPT !.sum = 0]}
  /\ UNCHANGED <<machine, binary, weights, vouched, policy>>

\* A file of a model is lost, cut or replaced: its manifest does not know.
OtherFiles ==
  /\ Change
  /\ \E id \in Ids : \E state \in {"partial", "divergent"} :
       weights' = [weights EXCEPT ![id] = state]
  /\ UNCHANGED <<machine, binary, provenance, vouched, policy>>

\* A new release policy: another pinned build, a higher floor.
OtherPolicy ==
  /\ Change
  /\ policy' \in Policies
  /\ UNCHANGED <<machine, binary, provenance, weights, vouched>>

Next ==
  \/ BuildPlan \/ InstallRuntime \/ DownloadModel \/ OtherStep \/ Done \/ Again
  \/ OtherHardware \/ OtherBinary \/ OtherManifest \/ OtherFiles \/ OtherPolicy

Spec == Init /\ [][Next]_plannerVars

-----------------------------------------------------------------------------
PlannerTypeOK ==
  /\ pc \in {"idle", "planned", "applied"}
  /\ at \in 0..Len(proposal.steps)
  /\ vouched \subseteq Ids

OnGpuHost == GpuTargets(CollectHardware(machine)) # {}

\* What the gateway will run is above the security floor and is one this host
\* can start, whatever was put there since it was installed: a manifest that is
\* trusted speaks of the binary in place, and without one there is no GPU to
\* lose.  Installing a CPU build on a host with a GPU takes the operator's
\* consent, and the plan says so.
RuntimeIsSafe ==
  /\ (pc = "applied" \/ (pc = "planned" /\ proposal.resolution.reuse)) =>
       /\ binary.build >= policy.floor /\ binary.build > ShallowCloneMaxBuild
       /\ IF provenance = NoManifest THEN ~OnGpuHost
          ELSE /\ binary.backend = provenance.backend
               /\ binary.backend \in Range(BackendCandidates(machine))
  /\ (pc = "planned" /\ proposal.resolution.variant.backend = "cpu" /\ OnGpuHost) =>
       policy.cpu /\ proposal.resolution.degraded

\* Planning again after a plan was applied in full, with nothing changed, does
\* not install the runtime again.
RuntimeConverges ==
  (quiet /\ pc = "planned") => ~ \E k \in DOMAIN proposal.steps :
                                    proposal.steps[k].action = "install_runtime"
=============================================================================
