---------------------------- MODULE PlannerCases -----------------------------
(***************************************************************************)
(* Small values for Planner: hosts without a GPU, with recent and old      *)
(* cards, with a driver that cannot be read, a probe that fails, hidden    *)
(* cards; a small model that fits everywhere, a large one and one that is  *)
(* not pinned; policies with and without a floor, with variants for the    *)
(* GPU or for the CPU alone, with and without consent to the CPU.          *)
(***************************************************************************)
EXTENDS Naturals

Card(id, driver) == [id |-> id, driver |-> driver, vram |-> 8]

Host(probe, gpus, declared, shown) ==
  [probe |-> probe, gpus |-> gpus, declared |-> declared, shown |-> shown, disk |-> 20, ram |-> 16]

MCHosts ==
  {Host("absent", {}, FALSE, {}), Host("failed", {}, FALSE, {}),
   Host("ok", {Card(0, 590)}, FALSE, {}),
   Host("ok", {Card(0, 590), Card(1, 530)}, FALSE, {}),
   Host("ok", {Card(0, 590), Card(1, 0)}, TRUE, {1}),
   Host("ok", {Card(0, 590)}, TRUE, {}), Host("ok", {Card(0, 590)}, TRUE, {0, 4})}

Model(id, pinned, vram, disk, consent) ==
  [id |-> id, pinned |-> pinned, gated |-> FALSE, vram |-> vram, ram |-> vram, disk |-> disk,
   consent |-> consent]

MCCatalog ==
  {Model("small", TRUE, 4, 4, TRUE), Model("large", TRUE, 10, 8, FALSE),
   Model("unpinned", FALSE, 2, 2, FALSE)}

MCAdvised == <<"unknown", "large">>

Variant(source, backend, pinned) == [source |-> source, backend |-> backend, pinned |-> pinned]

MCVariants ==
  {Variant("official-release", "vulkan", TRUE), Variant("official-release", "cpu", TRUE),
   Variant("official-container", "cuda12", TRUE), Variant("evaruntime-build", "cuda13", TRUE),
   Variant("official-release", "cuda12", FALSE), Variant("local-build", "cuda12", FALSE)}

Policy(floor, pinned, cpu, variants) ==
  [floor |-> floor, pinned |-> pinned, cpu |-> cpu, localBuild |-> TRUE, container |-> FALSE,
   variants |-> variants]

MCPolicies ==
  {Policy(0, 5, FALSE, MCVariants), Policy(6, 6, FALSE, MCVariants),
   Policy(6, 7, TRUE, {v \in MCVariants : v.backend = "cpu"}),
   Policy(6, 7, FALSE, {v \in MCVariants : v.backend = "cpu"})}

MCScenario == [again |-> 2, change |-> 2]

==============================================================================
