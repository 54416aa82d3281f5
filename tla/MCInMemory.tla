------------------------------ MODULE MCInMemory ------------------------------
(***************************************************************************)
(* Six parts of the program that keep what they know in memory and have    *)
(* nothing to do with each other, in one instance: `subject` says which of *)
(* them a behaviour is about, the others stay as they were.                *)
(***************************************************************************)
EXTENDS Circuits, Search, AdapterRegistry, Migrations, Thresholds, Training

VARIABLE subject

MCVars == <<subject, circuitVars, searchVars, registryVars, migrationVars,
            thresholdVars, trainingVars>>

-----------------------------------------------------------------------------
\* A component with three ports and one with two, whose ports differ in mode.
MCInstances == <<"r", "w">>
MCPartOf == [i \in {"r", "w"} |-> IF i = "r" THEN "ring" ELSE "guide"]
MCPorts == [c \in {"ring", "guide"} |->
             IF c = "ring" THEN <<"p1", "p2", "p3">> ELSE <<"a", "b">>]
MCModeOf == [c \in {"ring", "guide"} |->
              [p \in ToSet(MCPorts[c]) |-> IF p = "b" THEN "tm" ELSE "te"]]
MCStrangers == {<<"r", "a">>, <<"x", "a">>}

\* The rows of a table at one wavelength; `way` says where the light goes.
MCRows(c, w, way) ==
  LET n == Len(MCPorts[c])
  IN [k \in 1 .. n * n |->
       LET out == MCPorts[c][((k - 1) \div n) + 1]
           in  == MCPorts[c][((k - 1) % n) + 1]
       IN <<w, out, in, IF <<in, out>> \in way THEN 1 ELSE 0>>]

Clockwise == {<<"p1", "p2">>, <<"p2", "p3">>, <<"p3", "p1">>}
Absorbing == {<<"p1", "p3">>, <<"p3", "p2">>}
Merging   == {<<"p1", "p3">>, <<"p2", "p3">>}
Straight  == {<<"a", "b">>, <<"b", "a">>}

\* Good tables with one or two wavelengths, and tables with a row that is missing
\* or there twice, with two entries in a row of the matrix, with an unknown port,
\* without rows.
MCTables == [c \in {"ring", "guide"} |->
  IF c = "ring"
    THEN LET good == MCRows(c, 1, Clockwise)
         IN {good \o MCRows(c, 2, Absorbing), MCRows(c, 1, Absorbing),
             Tail(good), good \o <<good[1]>>, MCRows(c, 1, Merging), <<>>}
    ELSE LET good == MCRows(c, 1, Straight)
         IN {good, good \o MCRows(c, 2, {<<"a", "b">>}), Append(good, <<1, "p1", "a", 0>>)}]

-----------------------------------------------------------------------------
\* Two built-in adapters, one with a factory; providers that supply one or two
\* adapters, one that is taken, one with a factory, nothing, or no tuple; and two
\* entry points of one name.
Of(a, factory, fits) == [adapter |-> a, factory |-> factory, fits |-> fits]
MCBuiltIn == <<Of("a1", TRUE, TRUE), Of("a2", FALSE, TRUE)>>
Provider(name, supplied) == [name |-> name, works |-> name # 5, supplied |-> supplied]
MCEntryPoints ==
  {Provider(1, <<Of("a3", FALSE, TRUE), Of("a4", FALSE, TRUE)>>),
   Provider(2, <<Of("a4", FALSE, TRUE)>>),
   Provider(3, <<Of("a3", FALSE, TRUE), Of("a1", FALSE, TRUE)>>),
   Provider(4, <<Of("a3", TRUE, TRUE)>>),
   Provider(5, <<Of("a3", FALSE, TRUE)>>),
   Provider(6, <<>>),
   Provider(7, <<Of("a4", FALSE, TRUE)>>), Provider(7, <<Of("a3", FALSE, TRUE)>>)}
MCBatches == UNION {[1 .. n -> Registration] : n \in 1 .. 2}
MCAllowances == {a \in SUBSET (1 .. 8) : \E n, m \in 1 .. 8 : a \subseteq {n, m}}

\* Batches of one or two steps.
MCStepBatches == UNION {[1 .. n -> MigrationStep] : n \in 1 .. 2}

-----------------------------------------------------------------------------
\* Imbalances that are alike, on both sides, and one that is not like the others:
\* next to it a bracket gets too narrow for a middle.
MCImbalances == {-40} \cup (-2 .. 2)

\* Two stages at two wavelengths: a log that is right, or in which one line was
\* dropped, added or replaced, by one of a third stage or wavelength perhaps.
MCLines == [kind : {"point", "minimum"}, stage : 1 .. 3, wavelength : 1 .. 3, value : 0 .. 1]
MCAmplitudes == {[stage |-> s, wavelength |-> w, coherent |-> v + 1, state_floor |-> v] :
                   s \in 1 .. 3, w \in 1 .. 3, v \in 0 .. 1}
MCScores == [1 .. 2 -> [1 .. 2 -> 0 .. 1]]
MCPoint(v, s, w) == [kind |-> "point", stage |-> s, wavelength |-> w, value |-> v[s][w]]
MCMinimum(v, s) ==
  [MCPoint(v, s, IF v[s][1] <= v[s][2] THEN 1 ELSE 2) EXCEPT !.kind = "minimum"]
MCWhole(v) ==
  <<MCPoint(v, 1, 1), MCPoint(v, 1, 2), MCMinimum(v, 1),
    MCPoint(v, 2, 1), MCPoint(v, 2, 2), MCMinimum(v, 2)>>
MCModal(v) ==
  [i \in 1 .. 4 |-> LET s == ((i - 1) \div 2) + 1
                        w == ((i - 1) % 2) + 1
                    IN [stage |-> s, wavelength |-> w, coherent |-> v[s][w] + 1,
                        state_floor |-> v[s][w]]]
MCPerturbed(log, all) ==
  {log} \cup {RemoveAt(log, i) : i \in DOMAIN log}
  \cup {Append(log, l) : l \in all}
  \cup {[log EXCEPT ![i] = l] : i \in DOMAIN log, l \in all}
MCLogs == UNION {MCPerturbed(MCWhole(v), MCLines) : v \in MCScores}
MCModalLogs == UNION {MCPerturbed(MCModal(v), MCAmplitudes) : v \in MCScores}

MCInit ==
  /\ subject \in {"circuits", "search", "adapters", "migrations", "thresholds", "training"}
  /\ CircuitInit /\ SearchInit /\ RegistryInit /\ MigrationInit
  /\ ThresholdInit /\ TrainingInit
  /\ subject # "training" => profile = "coherent"

MCNext ==
  \/ /\ subject = "circuits" /\ CircuitNext
     /\ UNCHANGED <<subject, searchVars, registryVars, migrationVars,
                    thresholdVars, trainingVars>>
  \/ /\ subject = "search" /\ SearchNext
     /\ UNCHANGED <<subject, circuitVars, registryVars, migrationVars,
                    thresholdVars, trainingVars>>
  \/ /\ subject = "adapters" /\ RegistryNext
     /\ UNCHANGED <<subject, circuitVars, searchVars, migrationVars,
                    thresholdVars, trainingVars>>
  \/ /\ subject = "migrations" /\ MigrationNext
     /\ UNCHANGED <<subject, circuitVars, searchVars, registryVars,
                    thresholdVars, trainingVars>>
  \/ /\ subject = "thresholds" /\ ThresholdNext
     /\ UNCHANGED <<subject, circuitVars, searchVars, registryVars,
                    migrationVars, trainingVars>>
  \/ /\ subject = "training" /\ TrainingNext
     /\ UNCHANGED <<subject, circuitVars, searchVars, registryVars,
                    migrationVars, thresholdVars>>

MCSpec == MCInit /\ [][MCNext]_MCVars
=============================================================================
