------------------------------- MODULE Training -------------------------------
(***************************************************************************)
(* What the campaign accepts as the record of an optimization              *)
(* (campaign.py, optimization_prechecks and training_components): the      *)
(* lines that the native program has logged, which the receipt repeats.    *)
(*                                                                         *)
(* A line tells the objective of a stage at a wavelength, or the minimum   *)
(* of a stage; a modal line tells amplitudes, from which the driver        *)
(* computes the objective again: they are modelled by the two objectives   *)
(* that come out, without and with the penalty of the state floor.  Lines  *)
(* that cannot be parsed are refused like those of an unknown stage.       *)
(***************************************************************************)
EXTENDS Naturals, Sequences, FiniteSets

CONSTANTS
  Stages,      \* 1 .. config["stages"]
  Wavelengths, \* the wavelengths of the training band
  Logs,        \* what may have been logged of objectives
  ModalLogs    \* what may have been logged of amplitudes

Observation == [kind : {"point", "minimum"}, stage : Nat, wavelength : Nat, value : Nat]
Amplitudes  == [stage : Nat, wavelength : Nat, coherent : Nat, state_floor : Nat]

ASSUME TrainingAssumption ==
  IsFiniteSet(Wavelengths) /\ Logs \subseteq Seq(Observation) /\ ModalLogs \subseteq Seq(Amplitudes)

VARIABLES
  phase,    \* how far the check has come
  readback, \* the lines that tell the objective and the controls that were set
  profile,  \* config["objective_profile"]
  logged,   \* the objectives
  modal     \* the amplitudes

trainingVars == <<phase, readback, profile, logged, modal>>

TrainingInit ==
  /\ phase = "readback" /\ readback = <<>> /\ profile \in {"coherent", "state_floor"}
  /\ logged = <<>> /\ modal = <<>>

-----------------------------------------------------------------------------
\* Exactly one line each, as configured; "wrong" is another value.
ReadbackVerified(lines) ==
  /\ Len(SelectSeq(lines, LAMBDA l : l[1] = "objective")) = 1
  /\ Len(SelectSeq(lines, LAMBDA l : l[1] = "controls")) = 1
  /\ \A i \in DOMAIN lines : lines[i][2] = "right"

Told(lines, kind, stage) == {i \in DOMAIN lines : lines[i].kind = kind /\ lines[i].stage = stage}
PointsAt(lines, stage) == Told(lines, "point", stage)

Smallest(values) == CHOOSE v \in values : \A w \in values : v <= w
MinimumOf(lines, stage) == lines[CHOOSE i \in Told(lines, "minimum", stage) : TRUE]

\* Each stage: every wavelength once, one minimum, the value and the wavelength of
\* which are those of a point.
StageVerified(lines, stage) ==
  LET points == PointsAt(lines, stage)
      values == {lines[i].value : i \in points}
  IN /\ {lines[i].wavelength : i \in points} = Wavelengths
     /\ Cardinality(points) = Cardinality(Wavelengths)
     /\ Cardinality(Told(lines, "minimum", stage)) = 1
     /\ LET minimum == MinimumOf(lines, stage)
        IN /\ minimum.value = Smallest(values)
           /\ \E i \in points : /\ lines[i].wavelength = minimum.wavelength
                                /\ lines[i].value = minimum.value

ObservationsVerified(lines) ==
  /\ lines # <<>>
  /\ \A i \in DOMAIN lines : lines[i].stage \in Stages
  /\ \A stage \in Stages : StageVerified(lines, stage)

-----------------------------------------------------------------------------
\* The objective of the profile, computed from the amplitudes.
Rescored(line) == IF profile = "state_floor" THEN line.state_floor ELSE line.coherent

\* Mutant: amplitudes that were told twice are derived twice.
DerivableAgain(lines, i) ==
  /\ lines[i].stage \in Stages
  /\ \E k \in PointsAt(logged, lines[i].stage) :
       logged[k].wavelength = lines[i].wavelength /\ logged[k].value = Rescored(lines[i])

\* Line by line: one point at that wavelength, no derived one yet, and the value
\* that was logged.
Derivable(lines, i) ==
  /\ lines[i].stage \in Stages
  /\ \E k \in PointsAt(logged, lines[i].stage) :
       logged[k].wavelength = lines[i].wavelength /\ logged[k].value = Rescored(lines[i])
  /\ \A j \in 1 .. (i - 1) :
       ~(lines[j].stage = lines[i].stage /\ lines[j].wavelength = lines[i].wavelength)

DerivedOf(lines, stage) == {i \in DOMAIN lines : lines[i].stage = stage}

ComponentsVerified(lines) ==
  /\ \A i \in DOMAIN lines : Derivable(lines, i)
  /\ \A stage \in Stages :
       Cardinality(DerivedOf(lines, stage)) = Cardinality(PointsAt(logged, stage))

-----------------------------------------------------------------------------
CheckReadback ==
  /\ phase = "readback"
  /\ readback' \in UNION {[1 .. n -> {"objective", "controls"} \X {"right", "wrong"}] :
                            n \in 1 .. 3}
  /\ phase' = IF ReadbackVerified(readback') THEN "observations" ELSE "refused"
  /\ UNCHANGED <<profile, logged, modal>>

CheckObservations ==
  /\ phase = "observations"
  /\ logged' \in Logs
  /\ phase' = IF ObservationsVerified(logged') THEN "components" ELSE "refused"
  /\ UNCHANGED <<readback, profile, modal>>

\* A legacy log has no amplitudes.
CheckComponents ==
  /\ phase = "components"
  /\ modal' \in ModalLogs \cup {<<>>}
  /\ phase' = IF modal' = <<>> THEN "legacy"
              ELSE IF ComponentsVerified(modal') THEN "verified" ELSE "refused"
  /\ UNCHANGED <<readback, profile, logged>>

TrainingNext == CheckReadback \/ CheckObservations \/ CheckComponents
TrainingSpec == TrainingInit /\ [][TrainingNext]_trainingVars

-----------------------------------------------------------------------------
\* Where amplitudes are accepted, the minimum that the driver reports of each stage
\* for the objective of the profile is the minimum that the native program has
\* logged, over the wavelengths of the training band and nothing else.
RescoredMinimumIsNative ==
  phase = "verified" => \A stage \in Stages :
    LET derived == DerivedOf(modal, stage)
    IN /\ {modal[i].wavelength : i \in derived} = Wavelengths
       /\ Smallest({Rescored(modal[i]) : i \in derived}) = MinimumOf(logged, stage).value
=============================================================================
