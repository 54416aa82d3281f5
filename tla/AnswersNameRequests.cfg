\* The server alone, to look for an answer that does not name its request.
CONSTANTS
  Shells = {}
  Server = server
  s1 = s1
  s2 = s2
  Contracts <- MCContracts
  ContractKinds <- MCContractKinds
  Commands <- MCCommands
  Tools <- MCTools
  Paths <- MCPaths
  Kinds <- MCKinds
  Foreign = {"newer"}
  Projects <- MCProjects
  Config = "photonic.toml"
  MaxRequests = 2
  MaxDeaths = 0
SPECIFICATION Spec
INVARIANT AnswersNameRequests
CHECK_DEADLOCK FALSE
