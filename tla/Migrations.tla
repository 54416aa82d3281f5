------------------------------ MODULE Migrations ------------------------------
(***************************************************************************)
(* The migration of contracts between schema versions                      *)
(* (models/versioning.py).  Steps are registered in batches until the      *)
(* registry is frozen; a contract is migrated at any time, before or after *)
(* and, as a transform is anybody's code and may register steps itself, in *)
(* between.  What a transform makes of a payload is as open: a payload is  *)
(* modelled by its version, and may be refused in any round, whatever      *)
(* became of another one of that version.  One contract type: the steps of *)
(* two types never meet.                                                   *)
(***************************************************************************)
EXTENDS Naturals, Sequences, FiniteSets

CONSTANTS
  Versions,      \* schema versions
  Current,       \* the one that is read
  Ids,           \* ids of migrations
  StepBatches,   \* what is registered in one go
  MaxMigrations  \* bound: migrations that succeed

\* A migration to the version it comes from cannot be constructed.
MigrationStep == {s \in [id : Ids, from : Versions, to : Versions] : s.from # s.to}

NoStep == [id |-> "none", from |-> Current, to |-> Current]

\* A batch is a family of steps, a sequence for one.
ASSUME MigrationsAssumption ==
  /\ Current \in Versions /\ IsFiniteSet(Versions)
  /\ \A batch \in StepBatches : \A k \in DOMAIN batch : batch[k] \in MigrationStep

VARIABLES
  steps,    \* steps[v]: the step from version v
  taken,    \* the ids of the registered steps
  frozen,
  reading,  \* the loop of migrate: from `source` it has come `at` a version, over the
            \* versions `visited`, in that order, by the steps `applied`
  migrated  \* history: what was migrated, with the versions visited and the markers

migrationVars == <<steps, taken, frozen, reading, migrated>>

NotReading == [runs |-> FALSE, source |-> Current, at |-> Current,
               visited |-> <<>>, applied |-> <<>>]

MigrationInit ==
  /\ steps = [v \in Versions |-> NoStep] /\ taken = {} /\ frozen = FALSE
  /\ reading = NotReading /\ migrated = <<>>

-----------------------------------------------------------------------------
\* Mutant: a step from the same version replaces the one that is registered.
AcceptsReplacement(batch, k) ==
  batch[k].id \notin taken /\ \A j \in DOMAIN batch \ {k} : batch[j].id # batch[k].id

\* No step from that version yet, none of that id, neither registered nor in the batch.
Accepts(batch, k) ==
  /\ steps[batch[k].from] = NoStep /\ batch[k].id \notin taken
  /\ \A j \in DOMAIN batch \ {k} :
       batch[j].from # batch[k].from /\ batch[j].id # batch[k].id

\* register_many works on copies, which it keeps if no step is refused.
RegisterSteps(batch) ==
  /\ ~frozen
  /\ \A k \in DOMAIN batch : Accepts(batch, k)
  /\ LET from(v) == {k \in DOMAIN batch : batch[k].from = v}
     IN steps' = [v \in Versions |->
                   IF from(v) # {} THEN batch[CHOOSE k \in from(v) : TRUE] ELSE steps[v]]
  /\ taken' = taken \cup {batch[k].id : k \in DOMAIN batch}
  /\ UNCHANGED <<frozen, reading, migrated>>

Freeze == frozen' = TRUE /\ UNCHANGED <<steps, taken, reading, migrated>>

-----------------------------------------------------------------------------
\* migrate: one call at a time.  A payload without a version is refused before.
BeginMigrate(source) ==
  /\ ~reading.runs /\ Len(migrated) < MaxMigrations
  /\ reading' = [NotReading EXCEPT !.runs = TRUE, !.source = source, !.at = source]
  /\ UNCHANGED <<steps, taken, frozen, migrated>>

\* The registry has no way on: it has led to this version before, or has no step.
Obstructed ==
  \/ \E i \in DOMAIN reading.visited : reading.visited[i] = reading.at
  \/ steps[reading.at] = NoStep

RefuseVersion ==
  /\ reading.runs /\ reading.at # Current /\ Obstructed
  /\ reading' = NotReading
  /\ UNCHANGED <<steps, taken, frozen, migrated>>

\* The transform of a step raises, makes no object of this payload, or changes its
\* contract_type or the stable_id it had; or, when steps were applied, what they
\* have made of its provenance is no list.
RefusePayload ==
  /\ reading.runs
  /\ \/ reading.at # Current /\ ~Obstructed
     \/ reading.at = Current /\ reading.applied # <<>>
  /\ reading' = NotReading
  /\ UNCHANGED <<steps, taken, frozen, migrated>>

ApplyStep ==
  /\ reading.runs /\ reading.at # Current /\ ~Obstructed
  /\ reading' = [reading EXCEPT !.at = steps[reading.at].to,
                                !.visited = Append(@, reading.at),
                                !.applied = Append(@, steps[reading.at].id)]
  /\ UNCHANGED <<steps, taken, frozen, migrated>>

\* At the target: the payload gets a marker for every step that was applied.
EndMigrate ==
  /\ reading.runs /\ reading.at = Current
  /\ migrated' = Append(migrated, [source |-> reading.source, through |-> reading.visited,
                                   markers |-> reading.applied])
  /\ reading' = NotReading
  /\ UNCHANGED <<steps, taken, frozen>>

MigrationNext ==
  \/ \E batch \in StepBatches : RegisterSteps(batch)
  \/ Freeze
  \/ \E source \in Versions : BeginMigrate(source)
  \/ RefuseVersion \/ RefusePayload \/ ApplyStep \/ EndMigrate

MigrationSpec == MigrationInit /\ [][MigrationNext]_migrationVars

-----------------------------------------------------------------------------
(* Property.                                                               *)

\* The way of a contract through the versions is the same whenever it is read: from a
\* version that was ever migrated the registry leads to the target for good, so that
\* no payload of that version is refused for its version, and every one that is
\* migrated gets the same markers again, whatever batches are registered or refused
\* in between, in the middle of a migration for one; no step is applied twice to a
\* contract; and the loop has no more rounds than there are versions.
MigrationsAreStable ==
  /\ Len(reading.applied) <= Cardinality(Versions)
  /\ \A k \in DOMAIN migrated :
       /\ \A i, j \in DOMAIN migrated[k].markers :
            migrated[k].markers[i] = migrated[k].markers[j] => i = j
       /\ \A l \in DOMAIN migrated :
            migrated[k].source = migrated[l].source => migrated[k].markers = migrated[l].markers
       /\ reading.runs /\ reading.source = migrated[k].source /\ reading.at # Current =>
            ~Obstructed
=============================================================================
