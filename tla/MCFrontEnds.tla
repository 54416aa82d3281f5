----------------------------- MODULE MCFrontEnds -----------------------------
(***************************************************************************)
(* The front ends on one project.  Programs that do the same to the files  *)
(* that occur here, and whose refusals are answered alike, are one: kinds  *)
(* of contracts that no file has are left out of what a step accepts, and  *)
(* the reasons that are told under the id of the request are one reason.   *)
(***************************************************************************)
EXTENDS FrontEnds, McpTools

MCContracts == {"card.json"}
MCContractKinds == {"ModelCard", "TapeoutManifest", "newer"}

MCKinds ==
  MCContractKinds \cup {"ProjectConfig", "notes", "mzi-4port", "waveguide-cascade",
    "table", "matrix", "summary", "artifact", "GateLedger", "BackendAdoptionGate", "sweep"}

Told(reasons) == {IF r = "invalid" THEN r ELSE "security" : r \in reasons}
Reduced(c) ==
  [i \in DOMAIN c |->
    [c[i] EXCEPT !.kinds = @ \cap MCKinds,
                 !.may = Told(@)]]

MCCommands == {Reduced(c) : c \in AllCommands}
MCTools    == {Reduced(c) : c \in AllTools}
MCPaths    == UNION {{c[i].path : i \in DOMAIN c} : c \in MCCommands \cup MCTools} \ {NoFile}

\* An empty directory, or a project that init has made with a contract of some
\* kind.
By(kind) == [kind |-> kind, by |-> Nobody, whole |-> TRUE]
Bare == [f \in MCPaths |-> Absent]
Made(family) ==
  LET steps == Scaffold(family)
  IN [f \in MCPaths |->
       IF \E i \in DOMAIN steps : steps[i].path = f
         THEN By(CHOOSE k \in MCKinds : \E i \in DOMAIN steps :
                   steps[i].path = f /\ steps[i].kinds = {k})
         ELSE Absent]
MCProjects ==
  {Bare} \cup {[Made("waveguide-cascade") EXCEPT !["card.json"] = By(k)] :
                k \in MCContractKinds}

\* The shells are alike: the second one starts after the first one, and to write.
CONSTANTS s1, s2
OneOrder == job[s2] # NoJob => job[s1] # NoJob /\ job[s2].due # {}
=============================================================================
