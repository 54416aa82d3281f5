\* Two shells and the server on one project: commands, tools, deaths.
CONSTANTS
  Shells = {s1, s2}
  Server = server
  s1 = s1
  s2 = s2
  Contracts <- MCContracts
  ContractKinds <- MCContractKinds
  Commands <- MCCommands
  Tools <- MCTools
  Paths <- MCPaths
  Kinds <- MCKinds
  Foreign = {"newer"}
  Projects <- MCProjects
  Config = "photonic.toml"
  MaxRequests = 2
  MaxDeaths = 1
SPECIFICATION Spec
INVARIANTS
  WholeOrAbsent
  RefusalLeavesNothing
  ReportsAreTrue
  LoneScaffoldIsWhole
  ProjectsAreSpared
  AnswersInOrder
PROPERTY EveryRequestIsAnswered
CONSTRAINT OneOrder
CHECK_DEADLOCK FALSE
