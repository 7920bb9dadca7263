-------------------------------- MODULE Jobs ---------------------------------
(***************************************************************************)
(* The jobs that run alone.  Those whose state is in files that outlive    *)
(* them: the schema migrations, the downloads, the runtime, the hashes of  *)
(* model files; and those around a bootstrap plan, which decide it,        *)
(* execute and report it, measure a model and send a first token.  A       *)
(* behaviour is about one of them, chosen in the initial state; the        *)
(* variables the chosen one does not have stay at their first value.       *)
(***************************************************************************)
EXTENDS Naturals, Sequences, FiniteSets

CONSTANTS
  Processes, Known, Keep, Kills,                             \* Migrations
  Appliers, FileCount, Size, FetchTrouble,                   \* Download
  Builds, MinBuild, MaxReleases, InstallTrouble,             \* RuntimeInstall
  Callers, Artifacts, CacheMax, Versions, HashTrouble,       \* Attestation
  Runtimes, Params, Need, MaxSamples, Margin, MeasureTrouble,\* Calibration
  RecipeTrouble,                                             \* FirstToken
  Plans, Registries, Deviations,                             \* PlanRun
  Hosts, Catalog, Advised, Policies, MaxModels, PlanTrouble  \* Planner

VARIABLES
  job,
  pc, left, outcome, current, mode, loaded,
  db, found, applied, backups, lock, pending, kills,
  catalog, accepted, final, part, data, sidecar, manifest, proc,
  pinned, releases, previous, incoming, here,
  contents, present, attested, flight, caller,
  identity, phase, sampler, stopping, rounds, peak, operation, failing, held, probed, server,
  installed, reports, result, mislabelled,
  user, key, requests, answers, reason, state, usageRow,
  registry, plan, results, host, document,
  machine, binary, provenance, weights, vouched, policy, proposal, at, quiet

migrationOnly == <<db, found, applied, backups, lock, pending, kills>>
downloadOnly == <<catalog, accepted, final, part, data, sidecar, manifest, proc>>
installOnly == <<pinned, releases, previous, incoming, here>>
attestationOnly == <<contents, present, attested, flight, caller>>
filesOnly == <<migrationOnly, downloadOnly, installOnly, attestationOnly>>

calibrationOnly == <<identity, phase, sampler, stopping, rounds, peak, operation, failing, held, probed,
  server, installed, reports, result, mislabelled>>
recipeOnly == <<user, key, requests, answers, reason, state, usageRow>>
planOnly == <<registry, plan, results, host, document>>
plannerOnly == <<machine, binary, provenance, weights, vouched, policy, proposal, at, quiet>>
bootstrapOnly == <<mode, loaded, calibrationOnly, recipeOnly, planOnly, plannerOnly>>

vars == <<job, pc, left, outcome, current, filesOnly, bootstrapOnly>>

Migration == INSTANCE Migrations WITH Target <- Known
Fetching == INSTANCE Download WITH
  Processes <- Appliers, Files <- FileCount, Scenario <- FetchTrouble
Installing == INSTANCE RuntimeInstall WITH Scenario <- InstallTrouble
Attesting == INSTANCE Attestation WITH Scenario <- HashTrouble
Measuring == INSTANCE Calibration WITH Scenario <- MeasureTrouble
Recipe == INSTANCE FirstToken WITH Trouble <- RecipeTrouble
Applying == INSTANCE PlanRun
Planning == INSTANCE Planner WITH Scenario <- PlanTrouble

ASSUME MigrationAssumption ==
  /\ Migration!Nobody \notin Processes
  /\ Known \in [Processes -> 0..Migration!Last]
  /\ Keep \in Nat /\ Kills \in Nat

ASSUME DownloadAssumption == FileCount \in Nat /\ Size \in Nat

ASSUME InstallAssumption == Builds \subseteq Nat /\ MinBuild \in Nat /\ MaxReleases \in Nat

ASSUME AttestationAssumption ==
  /\ Artifacts \in Seq(Attesting!Files) /\ Artifacts # <<>>
  /\ CacheMax \in Nat /\ Versions \in Nat /\ Len(Artifacts) <= Versions

ASSUME MeasureAssumption ==
  /\ Runtimes \subseteq Nat /\ Params \subseteq Nat
  /\ Need \in [Runtimes -> [Params -> [reduced : Nat, target : Nat]]]
  /\ MaxSamples \in Nat \ {0} /\ Margin \in Nat
  /\ MeasureTrouble \in [{"runs", "reading", "load", "prompt", "unload", "write", "cancel", "crash",
                          "upgrade"} -> Nat]

ASSUME RecipeAssumption ==
  RecipeTrouble \in [{"load", "probe", "stream", "lost", "cancel", "evict", "patch"} -> Nat]

\* The steps of a plan are a list.
ASSUME PlanAssumption ==
  \A p \in Plans : p.steps \in Seq({p.steps[k] : k \in DOMAIN p.steps})

\* A policy never pins a build below its own floor; the variants are of known sources.
ASSUME PlannerAssumption ==
  /\ Hosts \subseteq Planning!Machine
  /\ Catalog \subseteq Planning!CatalogEntry /\ IsFiniteSet(Catalog)
  /\ Policies \subseteq Planning!ResolverPolicy
  /\ \A p \in Policies : p.floor <= p.pinned
  /\ Advised \in Seq({Advised[k] : k \in DOMAIN Advised})
  /\ MaxModels \in Nat

\* The variables of the other jobs.
NoMigration ==
  /\ db = 0 /\ found = 0 /\ applied = 0 /\ backups = 0 /\ lock = 0 /\ pending = 0 /\ kills = 0

NoDownload ==
  /\ catalog = 0 /\ accepted = 0 /\ final = 0 /\ part = 0 /\ data = 0 /\ sidecar = 0
  /\ manifest = 0 /\ proc = 0

NoInstall ==
  /\ pinned = 0 /\ releases = 0 /\ previous = 0 /\ incoming = 0 /\ here = 0

NoAttestation ==
  /\ contents = 0 /\ present = 0 /\ attested = 0 /\ flight = 0 /\ caller = 0

NoCalibration ==
  /\ identity = 0 /\ phase = 0 /\ sampler = 0 /\ stopping = 0 /\ rounds = 0 /\ peak = 0
  /\ operation = 0 /\ failing = 0 /\ held = 0 /\ probed = 0 /\ server = 0 /\ installed = 0
  /\ reports = 0 /\ result = 0 /\ mislabelled = 0

NoRecipe ==
  /\ user = 0 /\ key = 0 /\ requests = 0 /\ answers = 0 /\ reason = 0 /\ state = 0
  /\ usageRow = 0

NoPlan ==
  /\ registry = 0 /\ plan = 0 /\ results = 0 /\ host = 0 /\ document = 0

NoPlanner ==
  /\ machine = 0 /\ binary = 0 /\ provenance = 0 /\ weights = 0 /\ vouched = 0 /\ policy = 0
  /\ proposal = 0 /\ at = 0 /\ quiet = 0

NoFiles == NoMigration /\ NoDownload /\ NoInstall /\ NoAttestation

NoBootstrap ==
  /\ mode = 0 /\ loaded = 0 /\ NoCalibration /\ NoRecipe /\ NoPlan /\ NoPlanner

Init ==
  \/ /\ job = "migration" /\ Migration!Init /\ left = 0 /\ outcome = 0
     /\ NoDownload /\ NoInstall /\ NoAttestation /\ NoBootstrap
  \/ /\ job = "download" /\ Fetching!Init /\ pc = 0 /\ outcome = 0 /\ current = 0
     /\ NoMigration /\ NoInstall /\ NoAttestation /\ NoBootstrap
  \/ /\ job = "install" /\ Installing!Init
     /\ NoMigration /\ NoDownload /\ NoAttestation /\ NoBootstrap
  \/ /\ job = "attestation" /\ Attesting!Init /\ pc = 0 /\ outcome = 0 /\ current = 0
     /\ NoMigration /\ NoDownload /\ NoInstall /\ NoBootstrap
  \/ /\ job = "calibration" /\ Measuring!Init /\ outcome = 0 /\ current = 0 /\ mode = 0 /\ loaded = 0
     /\ NoFiles /\ NoRecipe /\ NoPlan /\ NoPlanner
  \/ /\ job = "recipe" /\ Recipe!Init /\ current = 0
     /\ NoFiles /\ NoCalibration /\ NoPlan /\ NoPlanner
  \/ /\ job = "plan" /\ Applying!Init /\ outcome = 0 /\ current = 0
     /\ NoFiles /\ NoCalibration /\ NoRecipe /\ NoPlanner
  \/ /\ job = "planner" /\ Planning!Init /\ outcome = 0 /\ current = 0 /\ mode = 0 /\ loaded = 0
     /\ NoFiles /\ NoCalibration /\ NoRecipe /\ NoPlan

Next ==
  /\ UNCHANGED job
  /\ \/ /\ job = "migration" /\ Migration!Next
        /\ UNCHANGED <<left, outcome, downloadOnly, installOnly, attestationOnly, bootstrapOnly>>
     \/ /\ job = "download" /\ Fetching!Next
        /\ UNCHANGED <<pc, outcome, current, migrationOnly, installOnly, attestationOnly, bootstrapOnly>>
     \/ /\ job = "install" /\ Installing!Next
        /\ UNCHANGED <<migrationOnly, downloadOnly, attestationOnly, bootstrapOnly>>
     \/ /\ job = "attestation" /\ Attesting!Next
        /\ UNCHANGED <<pc, outcome, current, migrationOnly, downloadOnly, installOnly, bootstrapOnly>>
     \/ /\ job = "calibration" /\ Measuring!Next
        /\ UNCHANGED <<outcome, current, mode, loaded, filesOnly, recipeOnly, planOnly, plannerOnly>>
     \/ /\ job = "recipe" /\ Recipe!Next
        /\ UNCHANGED <<current, filesOnly, calibrationOnly, planOnly, plannerOnly>>
     \/ /\ job = "plan" /\ Applying!Next
        /\ UNCHANGED <<outcome, current, filesOnly, calibrationOnly, recipeOnly, plannerOnly>>
     \/ /\ job = "planner" /\ Planning!Next
        /\ UNCHANGED <<outcome, current, mode, loaded, filesOnly, calibrationOnly, recipeOnly, planOnly>>

Spec == Init /\ [][Next]_vars

-----------------------------------------------------------------------------
(* What each job must keep, with the types of its variables.               *)

\* Migrations: none changes the schema twice, whoever starts at the same time, and
\* a copy of the database as it was found survives the change.
MigrationsSafe ==
  job = "migration" =>
    Migration!MigrationsTypeOK /\ Migration!AppliedOnce /\ Migration!RollbackPossible

\* Download: a definitive name only ever holds what the catalogue pins, and a step
\* that succeeds leaves the whole set and its manifest.
DownloadSafe ==
  job = "download" =>
    Fetching!DownloadTypeOK /\ Fetching!FinalIsVerified /\ Fetching!DoneMeansComplete

\* Runtime: what the gateway would start is attested and above the floor; a failure
\* changes nothing and a success can be rolled back.
RuntimeIsSound ==
  job = "install" =>
    Installing!InstallTypeOK /\ Installing!PublishedIsAttested /\ Installing!RollbackStaysPossible

\* Attestation: what vouches for a file is a hash of the declared bytes.
VouchedIsDeclared ==
  job = "attestation" => Attesting!AttestationTypeOK /\ Attesting!VouchedIsDeclared

\* Calibration: the memory a run proposes covers what the server will hold, and
\* the server that a run loaded does not outlive the run.
CalibrationSafe ==
  job = "calibration" =>
    Measuring!CalibrationTypeOK /\ Measuring!ProposalCoversService /\ Measuring!MeasuredServerStopped

\* First token: an identity reported as removed can no longer connect, ever; and
\* there is no traffic while the identity of the recipe is still there.
CleanedMeansGone ==
  job = "recipe" =>
    Recipe!FirstTokenTypeOK /\ Recipe!CleanedMeansGone /\ Recipe!NoTrafficWithResidue

\* Plan: a report that is believed and says "complete" was earned, and nothing
\* happens on the host without the results saying so.
PlanIsHonest ==
  job = "plan" => Applying!PlanRunTypeOK /\ Applying!CompleteIsProven /\ Applying!NothingUnseen

\* Planner: a runtime that is kept or installed is above the floor and for this
\* host, and the one that was just installed is kept by the next plan.
RuntimeIsChosenWell ==
  job = "planner" =>
    Planning!PlannerTypeOK /\ Planning!RuntimeIsSafe /\ Planning!RuntimeConverges
=============================================================================
