CONSTANTS
  Processes = {"service", "old"}
  Known <- MCKnown
  Keep = 2
  Kills = 1
  Appliers = {"apply"}
  FileCount = 2
  Size = 2
  FetchTrouble <- MCFetchTrouble
  Builds = {5, 6}
  MinBuild = 6
  MaxReleases = 3
  InstallTrouble <- MCInstallTrouble
  Callers = {"first", "second"}
  Artifacts <- MCArtifacts
  CacheMax = 1
  Versions = 4
  HashTrouble <- MCHashTrouble
  Runtimes = {1, 2}
  Params = {1, 2}
  MaxSamples = 2
  Margin = 1
  Need <- MCNeed
  MeasureTrouble <- MCMeasureTrouble
  RecipeTrouble <- MCRecipeTrouble
  Plans <- MCPlans
  Registries <- MCRegistries
  Deviations = 2
  Hosts <- MCHosts
  Catalog <- MCCatalog
  Advised <- MCAdvised
  Policies <- MCPolicies
  MaxModels = 1
  PlanTrouble <- MCScenario
SPECIFICATION Spec
INVARIANTS
  CalibrationSafe
  CleanedMeansGone
  MigrationsSafe
  DownloadSafe
  RuntimeIsSound
  VouchedIsDeclared
  PlanIsHonest
  RuntimeIsChosenWell
CHECK_DEADLOCK FALSE
