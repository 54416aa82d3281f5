\* Circuits, the search, the adapters, the migrations, the thresholds and the
\* training evidence, each on its own.
SPECIFICATION MCSpec
CONSTANTS
  Instances <- MCInstances
  PartOf <- MCPartOf
  Ports <- MCPorts
  ModeOf <- MCModeOf
  Strangers <- MCStrangers
  Tables <- MCTables
  MaxNamed = 6
  Points = {1, 2, 3}
  Centre = 2
  Causes = {"c1", "c2"}
  Budget = 5
  Reserve = 1
  Adapters = {"a1", "a2", "a3", "a4"}
  BuiltIn <- MCBuiltIn
  EntryPoints <- MCEntryPoints
  Batches <- MCBatches
  Allowances <- MCAllowances
  MaxCalls = 2
  Versions = {"v1", "v2", "v3"}
  Current = "v3"
  Ids = {"i1", "i2", "i3"}
  StepBatches <- MCStepBatches
  MaxMigrations = 2
  Scale = 1512
  Imbalances <- MCImbalances
  Stages = {1, 2}
  Wavelengths = {1, 2}
  Logs <- MCLogs
  ModalLogs <- MCModalLogs
\* Circuits are composed, a history or a registry is complete.
CHECK_DEADLOCK FALSE
INVARIANT ComposedIsLightPath
INVARIANT ValidatorsAgree
INVARIANT SearchIsFrugal
INVARIANT BatchIsWhole
INVARIANT MigrationsAreStable
INVARIANT BracketsClose
INVARIANT RescoredMinimumIsNative
