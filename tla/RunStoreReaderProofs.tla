------------------------ MODULE RunStoreReaderProofs ------------------------
(***************************************************************************)
(* What a reader beside the writer may conclude, for every set of results  *)
(* and however long the history.                                           *)
(***************************************************************************)
EXTENDS RunStoreReader, RunStoreProofs

-----------------------------------------------------------------------------
(* The writer is the writer of RunStore.                                   *)

Checkpoints == [run : Manifest, artifacts : Seq(Artifacts), provenance : 0 .. MaxProvenance,
                results : SUBSET Results, events : Seq(Event)]

\* A run that was judged has succeeded, and so has the one that is to be written.
Judged == run.acceptance # "pending" => run.execution = "succeeded"

LEMMA WriterSteps == StatusNext => [Next]_vars
BY DEF StatusNext, Update, Read, CallInspect, CallLatest, Call, Visit, ReadCheckpoint, HashFile,
       LoadFile, Report, Becomes, Answers

LEMMA WriterSpec == StatusSpec => Spec
<1>1. StatusInit => Init
  BY DEF StatusInit
<1>2. [StatusNext]_statusVars => [Next]_vars
  BY WriterSteps DEF statusVars
<1>3. QED
  BY <1>1, <1>2, PTL DEF StatusSpec, Spec

LEMMA JudgedStep == TypeOK /\ PlanFits /\ Judged /\ [Next]_vars => Judged'
<1> SUFFICES ASSUME TypeOK, PlanFits, Judged, [Next]_vars PROVE Judged'
  OBVIOUS
<1>1. run \in Manifest
  BY DEF TypeOK
<1>2. CASE WriteManifest
  <2>1. run' = plan.run /\ pc = "run"
    BY <1>2 DEF WriteManifest
  <2>2. plan.op \in {"transition", "artifact", "acceptance"}
    BY <2>1 DEF PlanFits, PlannedWrites
  <2>3. CASE plan.op = "transition"
    <3>1. PICK target \in EXECUTION_TRANSITIONS[run.execution] : run' = [run EXCEPT !.execution = target]
      BY <2>1, <2>3 DEF PlanFits, PlannedManifest
    <3>2. run.execution # "succeeded"
      BY <3>1 DEF EXECUTION_TRANSITIONS, ExecutionStatus
    <3>3. run'.acceptance = run.acceptance
      BY <1>1, <3>1 DEF Manifest
    <3>4. QED
      BY <3>2, <3>3 DEF Judged
  <2>4. CASE plan.op = "artifact"
    <3>1. run'.acceptance = run.acceptance /\ run'.execution = run.execution
      BY <1>1, <2>1, <2>4 DEF PlanFits, PlannedManifest, Manifest
    <3>2. QED
      BY <3>1 DEF Judged
  <2>5. CASE plan.op = "acceptance"
    <3>1. run'.execution = run.execution /\ run.execution = "succeeded"
      BY <1>1, <2>1, <2>5 DEF PlanFits, PlannedManifest, Manifest
    <3>2. QED
      BY <3>1 DEF Judged
  <2>6. QED
    BY <2>2, <2>3, <2>4, <2>5
<1>3. CASE PublishRun
  BY <1>3 DEF PublishRun, NewManifest, Judged
<1>4. CASE UNCHANGED run
  BY <1>4 DEF Judged
<1>5. QED
  BY <1>2, <1>3, <1>4
  DEF Next, Begin, Write, Stop, StageRun, BeginTransition, BeginArtifact, BeginProvenance,
      BeginAcceptance, Start, WriteArtifacts, WriteProvenance, WriteResults, AppendEvent,
      WriteCheckpoint, Interrupt, TearEvent, AbandonCreate, vars, disk, files

\* A run becomes accepted by passing results, which stand in acceptance.json by then.
LEMMA AcceptedByWriting ==
  ASSUME TypeOK, PlanFits, Judged, [Next]_vars, IsAccepted(run)', ~ IsAccepted(run)
  PROVE  AcceptedByResults'
<1>1. run \in Manifest /\ run' # run
  BY DEF TypeOK, IsAccepted
<1>2. ~ PublishRun
  BY DEF PublishRun, NewManifest, IsAccepted
<1>3. WriteManifest
  BY <1>1, <1>2
  DEF Next, Begin, Write, Stop, StageRun, BeginTransition, BeginArtifact, BeginProvenance,
      BeginAcceptance, Start, WriteArtifacts, WriteProvenance, WriteResults, AppendEvent,
      WriteCheckpoint, Interrupt, TearEvent, AbandonCreate, vars, disk, files
<1>4. run' = plan.run /\ pc = "run" /\ UNCHANGED results
  BY <1>3 DEF WriteManifest
<1>5. plan.op \in {"transition", "artifact", "acceptance"}
  BY <1>4 DEF PlanFits, PlannedWrites
<1>6. plan.op # "transition"
  <2> SUFFICES ASSUME plan.op = "transition" PROVE FALSE
    OBVIOUS
  <2>1. PICK target \in EXECUTION_TRANSITIONS[run.execution] : run' = [run EXCEPT !.execution = target]
    BY <1>4 DEF PlanFits, PlannedManifest
  <2>2. run'.acceptance = run.acceptance
    BY <1>1, <2>1 DEF Manifest
  <2>3. run.execution = "succeeded"
    BY <2>2 DEF IsAccepted, Judged
  <2>4. QED
    BY <2>1, <2>3 DEF EXECUTION_TRANSITIONS, ExecutionStatus
<1>7. plan.op # "artifact"
  <2> SUFFICES ASSUME plan.op = "artifact" PROVE FALSE
    OBVIOUS
  <2>1. run'.acceptance = run.acceptance /\ run'.execution = run.execution
    BY <1>1, <1>4 DEF PlanFits, PlannedManifest, Manifest
  <2>2. QED
    BY <2>1 DEF IsAccepted
<1>8. plan.op = "acceptance"
  BY <1>5, <1>6, <1>7
<1>9. results = plan.results /\ run'.acceptance = Verdict(plan.results)
  BY <1>1, <1>4, <1>8 DEF PlanFits, PlannedWrites, PlannedManifest, Manifest
<1>10. Accepted(results')
  BY <1>4, <1>9 DEF IsAccepted, Verdict
<1>11. QED
  BY <1>10 DEF AcceptedByResults, Accepted

-----------------------------------------------------------------------------
(* The shape of a call under way.                                          *)

Names == {"run", "artifacts", "provenance", "results", "events"}

\* What is left of the five names in `order`.
RestOf(todo, order) ==
  /\ todo \in Seq(Names) /\ Len(todo) <= 5
  /\ \A i \in 1 .. Len(todo) : todo[i] = order[5 - Len(todo) + i]

Done == 5 - Len(reader.todo)

Contents == UNION {Manifest, Seq(Artifacts), 0 .. MaxProvenance, SUBSET Results, Seq(Event)}

Hashing == [call : Calls, step : {"hash"}, todo : Seq(Names), expected : Checkpoints,
            clean : BOOLEAN, first : Manifest \cup {NoManifest}]
Loading == [call : Calls, step : {"load"}, todo : Seq(Names), clean : BOOLEAN,
            seen : Seq(Contents), first : Manifest \cup {NoManifest}]

Shape ==
  /\ reader.step \in {"idle", "visit", "checkpoint", "hash", "load"}
  /\ reader.step = "visit" => reader.call = "latest" /\ (reader.listed => directory = "named")
  /\ reader.step = "checkpoint" =>
       reader.call \in Calls /\ (reader.call = "latest" => reader.first \in Manifest)
  /\ reader.step = "hash" =>
       reader \in Hashing /\ RestOf(reader.todo, HashOrder) /\ reader.todo # <<>>
  /\ reader.step = "load" =>
       /\ reader \in Loading /\ RestOf(reader.todo, LoadOrder)
       /\ Len(reader.seen) = Done
       /\ 1 <= Done => reader.seen[1] \in Manifest
  /\ reader.step \in {"checkpoint", "hash", "load"} => directory = "named"
  /\ answer.outcome \in {"pending", "error", "answer"}
  /\ answer.outcome = "answer" =>
       answer.call \in Calls /\ answer.found.manifest \in Manifest \cup {NoManifest}

LEMMA RestFacts ==
  ASSUME NEW todo, NEW order, RestOf(todo, order), todo # <<>>
  PROVE  /\ Len(todo) \in 1 .. 5 /\ Head(todo) = order[6 - Len(todo)] /\ Head(todo) \in Names
         /\ Tail(todo) \in Seq(Names) /\ Len(Tail(todo)) = Len(todo) - 1
         /\ RestOf(Tail(todo), order)
<1>1. todo \in Seq(Names) /\ Len(todo) \in 1 .. 5
  <2>1. todo \in Seq(Names) /\ Len(todo) <= 5 /\ Len(todo) \in Nat
    BY LenProperties DEF RestOf
  <2>2. Len(todo) # 0
    BY <2>1, EmptySeq
  <2>3. \A n \in Nat : n <= 5 /\ n # 0 => n \in 1 .. 5
    OBVIOUS
  <2>4. QED
    BY <2>1, <2>2, <2>3, Zenon
<1>2. /\ Head(todo) = todo[1] /\ Tail(todo) \in Seq(Names) /\ Len(Tail(todo)) = Len(todo) - 1
      /\ \A i \in 1 .. Len(todo) - 1 : Tail(todo)[i] = todo[i + 1]
  BY <1>1
<1>3. Head(todo) = order[6 - Len(todo)] /\ Head(todo) \in Names
  BY <1>1, <1>2 DEF RestOf
<1>4. \A i \in 1 .. Len(Tail(todo)) : Tail(todo)[i] = order[5 - Len(Tail(todo)) + i]
  BY <1>1, <1>2 DEF RestOf
<1>5. QED
  BY <1>1, <1>2, <1>3, <1>4 DEF RestOf

LEMMA OrderFacts ==
  /\ RestOf(HashOrder, HashOrder) /\ RestOf(LoadOrder, LoadOrder)
  /\ Len(HashOrder) = 5 /\ Len(LoadOrder) = 5
  /\ HashOrder[1] = "results" /\ HashOrder[5] = "run" /\ LoadOrder[1] = "run"
  /\ \A name \in Names : \E i \in 1 .. 5 : HashOrder[i] = name
<1>1. HashOrder \in Seq(Names) /\ Len(HashOrder) = 5
  BY DEF HashOrder, Names
<1>2. LoadOrder \in Seq(Names) /\ Len(LoadOrder) = 5
  BY DEF LoadOrder, Names
<1>3. /\ HashOrder[1] = "results" /\ HashOrder[2] = "artifacts" /\ HashOrder[3] = "events"
      /\ HashOrder[4] = "provenance" /\ HashOrder[5] = "run" /\ LoadOrder[1] = "run"
  BY DEF HashOrder, LoadOrder
<1>4. \A name \in Names : \E i \in 1 .. 5 : HashOrder[i] = name
  <2>1. 1 \in 1 .. 5 /\ 2 \in 1 .. 5 /\ 3 \in 1 .. 5 /\ 4 \in 1 .. 5 /\ 5 \in 1 .. 5
    OBVIOUS
  <2>2. QED
    BY <1>3, <2>1, Zenon DEF Names
<1>5. RestOf(HashOrder, HashOrder) /\ RestOf(LoadOrder, LoadOrder)
  BY <1>1, <1>2 DEF RestOf
<1>6. QED
  BY <1>1, <1>2, <1>3, <1>4, <1>5

LEMMA HashesType ==
  ASSUME TypeOK
  PROVE  /\ Hashes \in Checkpoints /\ checkpoint \in Checkpoints
         /\ \A name \in Names : Hashes[name] \in Contents
         /\ Hashes["run"] = run /\ Hashes["results"] = results
<1>1. /\ run \in Manifest /\ artifacts \in Seq(Artifacts) /\ provenance \in 0 .. MaxProvenance
      /\ results \in SUBSET Results /\ events \in Seq(Event) /\ checkpoint \in Checkpoints
  BY DEF TypeOK, Checkpoints
<1>2. /\ Hashes["run"] = run /\ Hashes["artifacts"] = artifacts /\ Hashes["provenance"] = provenance
      /\ Hashes["results"] = results /\ Hashes["events"] = events
  BY DEF Hashes
<1>3. Hashes \in Checkpoints
  BY <1>1 DEF Hashes, Checkpoints
<1>4. \A name \in Names : Hashes[name] \in Contents
  <2>0. /\ Manifest \subseteq Contents /\ Seq(Artifacts) \subseteq Contents
        /\ 0 .. MaxProvenance \subseteq Contents /\ SUBSET Results \subseteq Contents
        /\ Seq(Event) \subseteq Contents
    BY DEF Contents
  <2>1. /\ Hashes["run"] \in Contents /\ Hashes["artifacts"] \in Contents
        /\ Hashes["provenance"] \in Contents /\ Hashes["results"] \in Contents
        /\ Hashes["events"] \in Contents
    BY <1>1, <1>2, <2>0, Zenon
  <2>2. QED
    BY <2>1, Zenon DEF Names
<1>5. QED
  BY <1>1, <1>2, <1>3, <1>4

LEMMA StaysNamed ==
  ASSUME [Next]_vars, directory = "named"
  PROVE  directory' = "named"
BY DEF Next, Begin, Write, Stop, StageRun, BeginTransition, BeginArtifact, BeginProvenance,
       BeginAcceptance, Start, PublishRun, WriteArtifacts, WriteProvenance, WriteResults,
       WriteManifest, AppendEvent, WriteCheckpoint, Interrupt, TearEvent, AbandonCreate, vars, disk

\* What HashFile does to the call.
LEMMA HashEffect ==
  ASSUME TypeOK, Shape, HashFile
  PROVE  /\ reader.step = "hash" /\ Len(reader.todo) \in 1 .. 5
         /\ UNCHANGED <<vars, answer, observed>>
         /\ LET name == HashOrder[6 - Len(reader.todo)]
                clean == reader.clean /\ Hashes[name] = reader.expected[name]
            IN  \/ /\ Len(reader.todo) > 1
                   /\ reader' \in Hashing /\ RestOf(reader'.todo, HashOrder) /\ reader'.todo # <<>>
                   /\ Len(reader'.todo) = Len(reader.todo) - 1
                   /\ reader'.step = "hash" /\ reader'.expected = reader.expected
                   /\ reader'.call = reader.call /\ reader'.clean = clean
                \/ /\ Len(reader.todo) = 1
                   /\ reader' \in Loading /\ reader'.step = "load" /\ reader'.todo = LoadOrder
                   /\ reader'.seen = <<>> /\ reader'.call = reader.call /\ reader'.clean = clean
<1>1. /\ reader.step = "hash" /\ reader \in Hashing
      /\ RestOf(reader.todo, HashOrder) /\ reader.todo # <<>>
      /\ UNCHANGED <<vars, answer, observed>>
  BY DEF HashFile, Becomes, Shape
<1> DEFINE todo == reader.todo
           rest == Tail(reader.todo)
           name == HashOrder[6 - Len(reader.todo)]
           clean == reader.clean /\ Hashes[name] = reader.expected[name]
<1>2. /\ Len(todo) \in 1 .. 5 /\ Head(todo) = name /\ rest \in Seq(Names)
      /\ Len(rest) = Len(todo) - 1 /\ RestOf(rest, HashOrder)
  BY <1>1, RestFacts
<1>3. IF rest # <<>>
        THEN reader' = [reader EXCEPT !.todo = rest, !.clean = clean]
        ELSE reader' = [call |-> reader.call, step |-> "load", todo |-> LoadOrder, clean |-> clean,
                        seen |-> <<>>, first |-> reader.first]
  BY <1>2 DEF HashFile, Becomes
<1>4. clean \in BOOLEAN
  OBVIOUS
<1> HIDE DEF clean, rest, todo, name
<1>5. CASE rest # <<>>
  <2>1. reader' = [reader EXCEPT !.todo = rest, !.clean = clean]
    BY <1>3, <1>5
  <2>2. /\ reader' \in Hashing /\ reader'.todo = rest /\ reader'.clean = clean
        /\ reader'.step = "hash" /\ reader'.expected = reader.expected /\ reader'.call = reader.call
    BY <1>1, <1>2, <1>4, <2>1 DEF Hashing
  <2>3. Len(rest) # 0
    BY <1>2, <1>5, EmptySeq
  <2>4. Len(todo) > 1
    BY <1>2, <2>3
  <2>5. QED
    BY <1>1, <1>2, <1>5, <2>2, <2>4 DEF clean, name, todo
<1>6. CASE rest = <<>>
  <2>1. reader' = [call |-> reader.call, step |-> "load", todo |-> LoadOrder, clean |-> clean,
                   seen |-> <<>>, first |-> reader.first]
    BY <1>3, <1>6
  <2>2. Len(todo) = 1
    BY <1>2, <1>6
  <2>3. reader.call \in Calls /\ reader.first \in Manifest \cup {NoManifest}
    BY <1>1 DEF Hashing
  <2>4. LoadOrder \in Seq(Names) /\ <<>> \in Seq(Contents)
    BY OrderFacts, EmptySeq DEF RestOf
  <2>5. reader' \in Loading
    BY <1>4, <2>1, <2>3, <2>4 DEF Loading
  <2>6. QED
    BY <1>1, <1>2, <2>1, <2>2, <2>5 DEF clean, name, todo
<1>7. QED
  BY <1>5, <1>6

LEMMA LoadEffect ==
  ASSUME TypeOK, Shape, LoadFile
  PROVE  /\ reader.step = "load" /\ Len(reader.todo) \in 1 .. 5 /\ UNCHANGED <<vars, answer, observed>>
         /\ reader' \in Loading /\ reader'.step = "load" /\ RestOf(reader'.todo, LoadOrder)
         /\ Len(reader'.todo) = Len(reader.todo) - 1
         /\ reader'.call = reader.call /\ reader'.clean = reader.clean
         /\ Len(reader.seen) \in 0 .. 4 /\ Len(reader'.seen) = Len(reader.seen) + 1
         /\ \A i \in 1 .. Len(reader.seen) : reader'.seen[i] = reader.seen[i]
         /\ reader'.seen[Len(reader.seen) + 1] = Hashes[LoadOrder[Len(reader.seen) + 1]]
<1>1. /\ reader.step = "load" /\ reader \in Loading
      /\ RestOf(reader.todo, LoadOrder) /\ reader.todo # <<>> /\ Len(reader.seen) = 5 - Len(reader.todo)
      /\ UNCHANGED <<vars, answer, observed>>
  BY DEF LoadFile, Becomes, Shape, Done
<1> DEFINE todo == reader.todo
           rest == Tail(reader.todo)
           content == Hashes[Head(reader.todo)]
           seen == Append(reader.seen, content)
<1>2. /\ Len(todo) \in 1 .. 5 /\ Head(todo) = LoadOrder[6 - Len(todo)] /\ Head(todo) \in Names
      /\ rest \in Seq(Names) /\ Len(rest) = Len(todo) - 1 /\ RestOf(rest, LoadOrder)
  BY <1>1, RestFacts
<1>3. content \in Contents
  BY <1>2, HashesType
<1>4. reader' = [reader EXCEPT !.todo = rest, !.seen = seen]
  BY DEF LoadFile, Becomes
<1>5. reader.seen \in Seq(Contents) /\ Len(reader.seen) \in 0 .. 4 /\ Len(todo) = 5 - Len(reader.seen)
  <2>1. reader.seen \in Seq(Contents)
    BY <1>1 DEF Loading
  <2>2. \A m, n \in Int : m \in 1 .. 5 /\ n = 5 - m => n \in 0 .. 4 /\ m = 5 - n
    OBVIOUS
  <2>3. Len(reader.seen) \in Int /\ Len(todo) \in Int
    BY <1>2, <2>1
  <2>4. Len(reader.seen) \in 0 .. 4 /\ Len(todo) = 5 - Len(reader.seen)
    BY <1>1, <1>2, <2>2, <2>3
  <2>5. QED
    BY <2>1, <2>4
<1>6. content = Hashes[LoadOrder[Len(reader.seen) + 1]]
  <2>1. 6 - Len(todo) = Len(reader.seen) + 1
    BY <1>5
  <2>2. QED
    BY <1>2, <2>1
<1> HIDE DEF content, rest, todo
<1>7. /\ seen \in Seq(Contents) /\ Len(seen) = Len(reader.seen) + 1
      /\ \A i \in 1 .. Len(reader.seen) : seen[i] = reader.seen[i]
      /\ seen[Len(reader.seen) + 1] = content
  BY <1>3, <1>5
<1> HIDE DEF seen
<1>8. /\ reader' \in Loading /\ reader'.todo = rest /\ reader'.seen = seen
      /\ reader'.step = "load" /\ reader'.call = reader.call /\ reader'.clean = reader.clean
  BY <1>1, <1>2, <1>4, <1>7 DEF Loading
<1>9. QED
  BY <1>1, <1>2, <1>5, <1>6, <1>7, <1>8 DEF todo

LEMMA CheckpointEffect ==
  ASSUME TypeOK, Shape, ReadCheckpoint
  PROVE  /\ reader.step = "checkpoint" /\ UNCHANGED <<vars, answer, quiet, earned>>
         /\ reader' \in Hashing /\ reader'.step = "hash" /\ reader'.todo = HashOrder
         /\ reader'.call = reader.call /\ reader'.expected = checkpoint /\ reader'.clean = TRUE
         /\ agreed' = (checkpoint.run.acceptance = "accepted" => Accepted(checkpoint.results))
<1>1. /\ reader.step = "checkpoint" /\ UNCHANGED <<vars, answer, quiet, earned>>
      /\ agreed' = (checkpoint.run.acceptance = "accepted" => Accepted(checkpoint.results))
      /\ reader' = [call |-> reader.call, step |-> "hash", todo |-> HashOrder,
                    expected |-> checkpoint, clean |-> TRUE,
                    first |-> IF reader.call = "latest" THEN reader.first ELSE NoManifest]
  BY DEF ReadCheckpoint
<1>2. reader.call \in Calls /\ (reader.call = "latest" => reader.first \in Manifest)
  BY <1>1 DEF Shape
<1>3. HashOrder \in Seq(Names) /\ checkpoint \in Checkpoints
  BY OrderFacts, HashesType DEF RestOf
<1>4. QED
  BY <1>1, <1>2, <1>3 DEF Hashing

LEMMA ShapeStep ==
  ASSUME TypeOK, Shape, StatusNext
  PROVE  Shape'
<1>1. directory = "named" => directory' = "named"
  BY WriterSteps, StaysNamed
<1>2. CASE UNCHANGED <<reader, answer>>
  BY <1>1, <1>2 DEF Shape, Done
<1>3. CASE CallInspect
  BY <1>3 DEF CallInspect, Call, TypeOK, Shape, Idle, Error, Answer, Pending, Nothing, Calls, vars, disk
<1>4. CASE CallLatest
  BY <1>4 DEF CallLatest, Call, Shape, Pending, vars, disk
<1>5. CASE Visit
  BY <1>5 DEF Visit, Becomes, Answers, Shape, TypeOK, Idle, Error, Answer, Nothing, Calls, vars, disk
<1>6. CASE ReadCheckpoint
  <2>1. HashOrder # <<>>
    BY DEF HashOrder
  <2>2. QED
    BY <1>6, <2>1, CheckpointEffect, OrderFacts DEF Shape, vars, disk
<1>7. CASE HashFile
  <2>1. directory' = "named" /\ UNCHANGED answer
    BY <1>7, HashEffect DEF Shape, vars, disk
  <2>2. CASE reader'.step = "hash"
    BY <1>7, <2>1, <2>2, HashEffect DEF Shape
  <2>3. CASE reader'.step = "load"
    <3>1. reader' \in Loading /\ reader'.todo = LoadOrder /\ reader'.seen = <<>>
      BY <1>7, <2>3, HashEffect
    <3>2. Done' = 0 /\ Len(reader'.seen) = 0
      BY <3>1, OrderFacts DEF Done
    <3>3. QED
      BY <2>1, <2>3, <3>1, <3>2, OrderFacts DEF Shape
  <2>4. QED
    BY <1>7, <2>2, <2>3, HashEffect
<1>8. CASE LoadFile
  <2>1. directory' = "named" /\ UNCHANGED answer /\ reader.step = "load" /\ reader'.step = "load"
        /\ reader' \in Loading /\ RestOf(reader'.todo, LoadOrder)
    BY <1>8, LoadEffect DEF Shape, vars, disk
  <2>2. Len(reader.seen) = Done /\ (1 <= Done => reader.seen[1] \in Manifest)
    BY <2>1 DEF Shape
  <2>3. Done \in 0 .. 4 /\ Done' = Done + 1 /\ Len(reader'.seen) = Done'
    <3>1. /\ Len(reader.todo) \in 1 .. 5 /\ Len(reader'.todo) = Len(reader.todo) - 1
          /\ Len(reader'.seen) = Len(reader.seen) + 1
      BY <1>8, LoadEffect
    <3>2. Done = 5 - Len(reader.todo) /\ Done' = 5 - Len(reader'.todo)
      BY DEF Done
    <3>3. \A m \in 1 .. 5 : 5 - m \in 0 .. 4
      OBVIOUS
    <3>4. Len(reader.seen) = 5 - Len(reader.todo)
      BY <2>2, <3>2
    <3>5. 5 - Len(reader.todo) \in 0 .. 4
      BY <3>1, <3>3, Zenon
    <3>6. 5 - Len(reader'.todo) = (5 - Len(reader.todo)) + 1
      BY <3>1
    <3>7. Len(reader'.seen) = 5 - Len(reader'.todo)
      BY <3>1, <3>4, <3>6
    <3>8. QED
      BY <3>2, <3>5, <3>6, <3>7
  <2>4. reader'.seen[1] \in Manifest
    <3>1. CASE Done = 0
      <4>1. reader'.seen[1] = Hashes["run"]
        BY <1>8, <2>2, <3>1, LoadEffect, OrderFacts
      <4>2. QED
        <5>1. Hashes["run"] = run
          BY HashesType
        <5>2. run \in Manifest
          BY DEF TypeOK
        <5>3. QED
          BY <4>1, <5>1, <5>2
    <3>2. CASE Done # 0
      <4>1. 1 \in 1 .. Len(reader.seen) /\ 1 <= Done
        BY <2>2, <2>3, <3>2
      <4>2. QED
        BY <1>8, <2>2, <4>1, LoadEffect
    <3>3. QED
      BY <3>1, <3>2
  <2>5. QED
    BY <2>1, <2>3, <2>4 DEF Shape
<1>9. CASE Report
  <2>1. /\ reader.step = "load" /\ reader \in Loading /\ reader' = Idle /\ UNCHANGED vars
        /\ answer'.outcome = "answer" /\ answer'.call = reader.call
        /\ answer'.found.manifest \in {Found.manifest, reader.first, NoManifest}
    BY <1>9 DEF Report, Answers, Shape, Answer, Nothing
  <2>2. Found.manifest = reader.seen[1]
    BY DEF Found
  <2>3. reader.todo = <<>> /\ Done = 5
    BY <1>9 DEF Report, Done
  <2>4. reader.seen[1] \in Manifest
    BY <2>1, <2>3 DEF Shape
  <2>5. reader.first \in Manifest \cup {NoManifest} /\ reader.call \in Calls
    BY <2>1 DEF Loading
  <2>6. QED
    BY <2>1, <2>2, <2>4, <2>5 DEF Shape, Idle
<1>10. QED
  BY <1>2, <1>3, <1>4, <1>5, <1>6, <1>7, <1>8, <1>9 DEF StatusNext, Read, Update

\* What Done does as the list of files shortens by one: the arithmetic of both passes.
LEMMA Countdown == ASSUME NEW k \in 1 .. 5, NEW l, l = k - 1
                   PROVE  5 - k \in 0 .. 4 /\ 5 - l = (5 - k) + 1
OBVIOUS

LEMMA DoneAdvances ==
  ASSUME Len(reader.todo) \in 1 .. 5, Len(reader'.todo) = Len(reader.todo) - 1
  PROVE  Done \in 0 .. 4 /\ Done' = Done + 1
<1>1. 5 - Len(reader.todo) \in 0 .. 4 /\ 5 - Len(reader'.todo) = (5 - Len(reader.todo)) + 1
  BY Countdown, Zenon
<1>2. Done = 5 - Len(reader.todo) /\ Done' = 5 - Len(reader'.todo)
  BY DEF Done
<1>3. QED
  BY <1>1, <1>2, Zenon

LEMMA ShapeInitially == StatusInit => Shape
BY DEF StatusInit, Shape, Idle, Pending

\* Everything that does not depend on what the reader has seen.
Basis == TypeOK /\ PlannedArtifact /\ PlanFits /\ Judged /\ Shape

LEMMA BasisInvariant == StatusSpec => []Basis
<1>1. Init => Judged
  BY DEF Init, NewManifest, Judged
<1>2. StatusSpec => [](TypeOK /\ PlannedArtifact /\ PlanFits /\ Judged)
  BY <1>1, WriterSpec, Types, PlansFit, JudgedStep, PTL DEF Spec
<1>3. TypeOK /\ Shape /\ [StatusNext]_statusVars => Shape'
  <2>1. CASE StatusNext
    BY <2>1, ShapeStep
  <2>2. CASE UNCHANGED statusVars
    BY <2>2 DEF statusVars, vars, disk, Shape, Done
  <2>3. QED
    BY <2>1, <2>2
<1>4. QED
  BY <1>2, <1>3, ShapeInitially, PTL DEF StatusSpec, Basis

\* Every file and every answer has its type.
THEOREM ReaderTypeCorrect == StatusSpec => []TypeOKReader
<1>1. Basis => TypeOKReader
  <2> SUFFICES ASSUME Basis PROVE TypeOKReader
    OBVIOUS
  <2>1. reader.step = "hash" \/ reader.step = "load" => reader.call \in Calls
    BY DEF Basis, Shape, Hashing, Loading
  <2>2. reader.step = "load" => Len(reader.seen) + Len(reader.todo) = Len(LoadOrder)
    <3>1. SUFFICES ASSUME reader.step = "load" PROVE Len(reader.seen) + Len(reader.todo) = 5
      BY OrderFacts
    <3>2. Len(reader.seen) = 5 - Len(reader.todo) /\ reader.todo \in Seq(Names)
      BY <3>1 DEF Basis, Shape, Done, RestOf
    <3>3. QED
      BY <3>2, LenProperties
  <2>3. QED
    BY <2>1, <2>2 DEF Basis, Shape, TypeOKReader, Calls
<1>2. QED
  BY <1>1, BasisInvariant, PTL

-----------------------------------------------------------------------------
(* An undisturbed call.                                                    *)

Same(i) == Hashes[HashOrder[i]] = checkpoint[HashOrder[i]]

\* Nothing changed since the call began: what it has seen is what there is.
Undisturbed ==
  quiet =>
    /\ reader.step = "hash" =>
         reader.expected = checkpoint /\ (reader.clean <=> \A i \in 1 .. Done : Same(i))
    /\ reader.step = "load" =>
         /\ reader.clean <=> \A i \in 1 .. 5 : Same(i)
         /\ \A i \in 1 .. Done : reader.seen[i] = Hashes[LoadOrder[i]]

LEMMA UndisturbedStep ==
  ASSUME Basis, Undisturbed, StatusNext
  PROVE  Undisturbed'
<1> USE DEF Basis
<1> SUFFICES ASSUME quiet' PROVE Undisturbed'
  BY DEF Undisturbed
<1>1. CASE Update
  <2>1. quiet /\ UNCHANGED disk /\ UNCHANGED reader
    BY <1>1 DEF Update
  <2>2. Hashes' = Hashes /\ checkpoint' = checkpoint
    BY <2>1 DEF disk, files, Hashes
  <2>3. QED
    BY <2>1, <2>2 DEF Undisturbed, Same, Done
<1>2. CASE CallInspect \/ CallLatest \/ Visit \/ Report
  <2>1. reader'.step \in {"idle", "visit", "checkpoint"}
    BY <1>2 DEF CallInspect, CallLatest, Visit, Report, Becomes, Answers, Idle
  <2>2. QED
    BY <2>1 DEF Undisturbed
<1>3. CASE ReadCheckpoint
  <2>1. /\ UNCHANGED vars /\ reader'.step = "hash" /\ reader'.todo = HashOrder
        /\ reader'.expected = checkpoint /\ reader'.clean = TRUE
    BY <1>3, CheckpointEffect
  <2>2. Done' = 0 /\ checkpoint' = checkpoint
    BY <2>1, OrderFacts DEF Done, vars, disk
  <2>3. QED
    BY <2>1, <2>2 DEF Undisturbed
<1>4. CASE HashFile
  <2> DEFINE k == Len(reader.todo)
             name == HashOrder[6 - k]
             clean == reader.clean /\ Hashes[name] = reader.expected[name]
  <2>1. reader.step = "hash" /\ k \in 1 .. 5 /\ UNCHANGED <<vars, quiet>>
    BY <1>4, HashEffect DEF observed
  <2>2. /\ Hashes' = Hashes /\ checkpoint' = checkpoint
        /\ reader.expected = checkpoint /\ (reader.clean <=> \A i \in 1 .. Done : Same(i))
    BY <2>1 DEF Undisturbed, vars, disk, files, Hashes
  <2>3. /\ reader'.clean = clean
        /\ \/ k > 1 /\ reader'.step = "hash" /\ reader'.expected = reader.expected
              /\ Len(reader'.todo) = k - 1
           \/ k = 1 /\ reader'.step = "load" /\ reader'.todo = LoadOrder
    BY <1>4, HashEffect
  <2>4. Done = 5 - k /\ 6 - k = Done + 1
    BY <2>1 DEF Done
  <2>5. clean <=> \A i \in 1 .. Done + 1 : Same(i)
    <3>1. clean <=> reader.clean /\ Same(Done + 1)
      BY <2>2, <2>4 DEF Same
    <3>2. Done \in Nat
      <4>1. k \in 1 .. 5 => 5 - k \in 0 .. 4
        BY Countdown
      <4>2. k \in 1 .. 5
        BY <2>1
      <4>3. Done \in 0 .. 4
        BY <2>4, <4>1, <4>2, Zenon
      <4>4. QED
        BY <4>3
    <3>3. (\A i \in 1 .. Done + 1 : Same(i)) <=> (\A i \in 1 .. Done : Same(i)) /\ Same(Done + 1)
      <4> HIDE DEF Done
      <4>1. \A i : i \in 1 .. Done + 1 <=> i \in 1 .. Done \/ i = Done + 1
        BY <3>2
      <4>2. QED
        BY <4>1, Zenon
    <3>4. QED
      BY <2>2, <3>1, <3>3, Zenon
  <2>6. \A i : Same(i)' <=> Same(i)
    BY <2>2 DEF Same
  <2> HIDE DEF clean, name
  <2>7. CASE reader'.step = "hash"
    <3>1. Done' = Done + 1 /\ reader'.expected = checkpoint'
      BY <2>1, <2>2, <2>3, <2>4, <2>7 DEF Done
    <3>2. QED
      BY <2>3, <2>5, <2>6, <2>7, <3>1 DEF Undisturbed
  <2>8. CASE reader'.step = "load"
    <3>1. k = 1 /\ reader'.todo = LoadOrder
      BY <2>3, <2>8
    <3>2. Done + 1 = 5
      BY <2>4, <3>1
    <3>3. Done' = 0
      <4>1. Done' = 5 - Len(reader'.todo)
        BY DEF Done
      <4>2. Len(reader'.todo) = 5
        BY <3>1, OrderFacts
      <4>3. QED
        BY <4>1, <4>2
    <3>4. QED
      BY <2>3, <2>5, <2>6, <2>8, <3>1, <3>2, <3>3 DEF Undisturbed
  <2>9. QED
    BY <2>3, <2>7, <2>8
<1>5. CASE LoadFile
  <2>1. /\ reader.step = "load" /\ reader'.step = "load" /\ UNCHANGED <<vars, quiet>>
        /\ reader'.clean = reader.clean /\ Len(reader.seen) \in 0 .. 4
        /\ Len(reader.todo) \in 1 .. 5 /\ Len(reader'.todo) = Len(reader.todo) - 1
        /\ \A i \in 1 .. Len(reader.seen) : reader'.seen[i] = reader.seen[i]
        /\ reader'.seen[Len(reader.seen) + 1] = Hashes[LoadOrder[Len(reader.seen) + 1]]
    BY <1>5, LoadEffect DEF observed
  <2>2. Hashes' = Hashes /\ checkpoint' = checkpoint
    BY <2>1 DEF vars, disk, files, Hashes
  <2>3. Len(reader.seen) = Done /\ Done \in Nat /\ Done' = Done + 1
    <3>1. Len(reader.seen) = Done
      BY <2>1 DEF Shape
    <3>2. Done \in 0 .. 4 /\ Done' = Done + 1
      BY <2>1, DoneAdvances
    <3>3. QED
      BY <3>1, <3>2
  <2>4. /\ reader.clean <=> \A i \in 1 .. 5 : Same(i)
        /\ \A i \in 1 .. Done : reader.seen[i] = Hashes[LoadOrder[i]]
    BY <2>1 DEF Undisturbed
  <2>5. \A i \in 1 .. Done' : reader'.seen[i] = Hashes[LoadOrder[i]]
    <3> HIDE DEF Done
    <3>1. \A i \in 1 .. Done + 1 : i \in 1 .. Done \/ i = Done + 1
      BY <2>3
    <3>2. QED
      BY <2>1, <2>3, <2>4, <3>1, Zenon
  <2>6. QED
    BY <2>1, <2>2, <2>4, <2>5 DEF Undisturbed, Same
<1>6. QED
  BY <1>1, <1>2, <1>3, <1>4, <1>5 DEF StatusNext, Read

LEMMA UndisturbedInvariant == StatusSpec => []Undisturbed
<1>1. StatusInit => Undisturbed
  BY DEF StatusInit, Undisturbed, Idle
<1>2. Basis /\ Undisturbed /\ [StatusNext]_statusVars => Undisturbed'
  <2>1. CASE StatusNext
    BY <2>1, UndisturbedStep
  <2>2. CASE UNCHANGED statusVars
    BY <2>2 DEF statusVars, vars, disk, files, observed, Undisturbed, Same, Done, Hashes
  <2>3. QED
    BY <2>1, <2>2
<1>3. QED
  BY <1>1, <1>2, BasisInvariant, PTL DEF StatusSpec

\* A checkpoint is the contents of the files when all of them are the same.
LEMMA SameFiles ==
  ASSUME TypeOK
  PROVE  checkpoint = Hashes <=> \A i \in 1 .. 5 : Same(i)
<1>1. (\A i \in 1 .. 5 : Same(i)) <=> (\A name \in Names : Hashes[name] = checkpoint[name])
  <2>1. \A i \in 1 .. 5 : HashOrder[i] \in Names
    BY OrderFacts DEF RestOf
  <2>2. \A name \in Names : \E i \in 1 .. 5 : HashOrder[i] = name
    BY OrderFacts
  <2>3. QED
    BY <2>1, <2>2, Zenon DEF Same
<1>2. checkpoint \in Checkpoints /\ Hashes \in Checkpoints
  BY HashesType
<1>3. checkpoint = Hashes <=> \A name \in Names : Hashes[name] = checkpoint[name]
  BY <1>2 DEF Checkpoints, Names
<1>4. QED
  BY <1>1, <1>3

\* The openings of an undisturbed `recover` decide what Recoverable says of the
\* directory, and return its manifest.
THEOREM QuietReports == StatusSpec => []QuietReportIsExact
<1>1. Basis /\ Undisturbed => QuietReportIsExact
  <2> SUFFICES ASSUME Basis, Undisturbed, reader.step = "load", reader.todo = <<>>, quiet
               PROVE  Found = [manifest |-> run, recoverable |-> Recoverable]
    BY DEF QuietReportIsExact
  <2>1. Done = 5
    BY DEF Done
  <2>2. \A i \in 1 .. 5 : reader.seen[i] = Hashes[LoadOrder[i]]
    BY <2>1 DEF Undisturbed
  <2>3. /\ reader.seen[1] = run /\ reader.seen[2] = artifacts
        /\ reader.seen[4] = results /\ reader.seen[5] = events
    BY <2>2 DEF LoadOrder, Hashes
  <2>4. reader.clean <=> checkpoint = Hashes
    BY SameFiles DEF Basis, Undisturbed
  <2>5. directory = "named"
    BY DEF Basis, Shape
  <2>6. reader.clean \in BOOLEAN
    BY DEF Basis, Shape, Loading
  <2>7. Recoverable <=> /\ reader.clean
                        /\ ValidEvents(reader.seen[5])
                        /\ ArtifactsAgree(reader.seen[1].artifact_ids, reader.seen[2])
                        /\ AcceptanceAgrees(reader.seen[1].acceptance, reader.seen[4])
    BY <2>3, <2>4, <2>5, Zenon DEF Recoverable
  <2>8. Recoverable \in BOOLEAN
    BY DEF Recoverable
  <2>9. QED
    BY <2>3, <2>6, <2>7, <2>8 DEF Found
<1>2. QED
  BY <1>1, BasisInvariant, UndisturbedInvariant, PTL

-----------------------------------------------------------------------------
(* What is trusted was earned.                                             *)

Expected == reader.expected.run.acceptance = "accepted" => Accepted(reader.expected.results)

\* As long as nothing was earned, a run that is accepted now was accepted when
\* acceptance.json was hashed.
Unearned ==
  /\ AcceptedByResults => earned
  /\ reader.step = "hash" =>
       /\ agreed => Expected
       /\ reader.clean /\ ~ earned /\ 1 <= Done =>
            ~ (IsAccepted(run) /\ Accepted(reader.expected.results))
  /\ reader.step = "load" /\ reader.clean /\ agreed /\ ~ earned =>
       IF Done = 0 THEN ~ IsAccepted(run) ELSE ~ IsAccepted(reader.seen[1])
  /\ TrustedInspectIsEarned

LEMMA UnearnedStep ==
  ASSUME Basis, Unearned, StatusNext
  PROVE  Unearned'
<1> USE DEF Basis
<1>1. CASE Update
  <2>1. /\ UNCHANGED <<reader, answer, agreed>> /\ [Next]_vars
        /\ earned' = (earned \/ AcceptedByResults')
    BY <1>1 DEF Update
  <2>2. Done' = Done /\ (Expected' <=> Expected) /\ TrustedInspectIsEarned'
        /\ (Accepted(reader.expected.results)' <=> Accepted(reader.expected.results))
    BY <2>1 DEF Done, Expected, Unearned, TrustedInspectIsEarned, AnswerTrusts, IsAccepted, Accepted
  <2>3. ~ earned' => ~ earned /\ (IsAccepted(run)' => IsAccepted(run))
    BY <2>1, AcceptedByWriting
  <2>4. ~ IsAccepted(reader.seen[1]) => ~ IsAccepted(reader.seen[1])'
    BY <2>1 DEF IsAccepted
  <2>5. QED
    BY <2>1, <2>2, <2>3, <2>4 DEF Unearned
<1>2. CASE CallInspect \/ CallLatest
  <2>1. /\ reader'.step \in {"idle", "visit", "checkpoint"} /\ UNCHANGED vars
        /\ earned' = AcceptedByResults
        /\ answer'.outcome = "answer" => answer'.found = Nothing
    BY <1>2 DEF CallInspect, CallLatest, Call, Idle, Answer, Error, Pending
  <2>2. AcceptedByResults' <=> AcceptedByResults
    BY <2>1 DEF AcceptedByResults, IsAccepted, Accepted, vars, disk, files
  <2>3. QED
    BY <2>1, <2>2 DEF Unearned, TrustedInspectIsEarned, AnswerTrusts, Nothing
<1>3. CASE Read /\ ~ CallInspect /\ ~ CallLatest
  <2>1. UNCHANGED <<vars, earned>>
    BY <1>3 DEF Read, Visit, ReadCheckpoint, HashFile, LoadFile, Report, Becomes, Answers, observed
  <2>2. /\ UNCHANGED <<run, results>> /\ (IsAccepted(run)' <=> IsAccepted(run))
        /\ (AcceptedByResults' <=> AcceptedByResults)
    BY <2>1 DEF AcceptedByResults, IsAccepted, Accepted, vars, disk, files
  <2>3. AcceptedByResults' => earned'
    BY <2>1, <2>2 DEF Unearned
  <2>4. CASE Visit
    <3>1. /\ reader'.step \in {"idle", "checkpoint"}
          /\ \/ UNCHANGED answer
             \/ answer' = Error
             \/ answer'.found = Nothing
      BY <2>4 DEF Visit, Becomes, Answers, Idle, Answer
    <3>2. TrustedInspectIsEarned'
      BY <3>1 DEF Unearned, TrustedInspectIsEarned, AnswerTrusts, Nothing, IsAccepted, Error
    <3>3. QED
      BY <2>3, <3>1, <3>2 DEF Unearned
  <2>5. CASE ReadCheckpoint
    <3>1. /\ reader'.step = "hash" /\ reader'.todo = HashOrder /\ UNCHANGED answer
          /\ reader'.expected = checkpoint
          /\ agreed' = (checkpoint.run.acceptance = "accepted" => Accepted(checkpoint.results))
      BY <2>5, CheckpointEffect
    <3>2. Done' = 0
      BY <3>1, OrderFacts DEF Done
    <3>3. agreed' => Expected'
      BY <3>1 DEF Expected, Accepted
    <3>4. TrustedInspectIsEarned'
      BY <3>1 DEF Unearned, TrustedInspectIsEarned, AnswerTrusts, IsAccepted
    <3>5. QED
      BY <2>3, <3>1, <3>2, <3>3, <3>4 DEF Unearned
  <2>6. CASE HashFile
    <3> DEFINE k == Len(reader.todo)
               name == HashOrder[6 - k]
               clean == reader.clean /\ Hashes[name] = reader.expected[name]
    <3>1. reader.step = "hash" /\ k \in 1 .. 5 /\ UNCHANGED <<answer, agreed>>
      BY <2>6, HashEffect DEF observed
    <3>2. /\ reader'.clean = clean
          /\ \/ k > 1 /\ reader'.step = "hash" /\ reader'.expected = reader.expected
                /\ Len(reader'.todo) = k - 1
             \/ k = 1 /\ reader'.step = "load" /\ reader'.todo = LoadOrder
      BY <2>6, HashEffect
    <3>3. TrustedInspectIsEarned'
      BY <3>1 DEF Unearned, TrustedInspectIsEarned, AnswerTrusts, IsAccepted
    <3>4. Done = 5 - k /\ Done \in 0 .. 4
      <4>1. \A m \in 1 .. 5 : 5 - m \in 0 .. 4
        OBVIOUS
      <4>2. QED
        BY <3>1, <4>1, Zenon DEF Done
    <3>5. ASSUME clean, ~ earned
          PROVE  ~ (IsAccepted(run) /\ Accepted(reader.expected.results))
      <4>1. CASE k = 5
        <5>1. name = "results"
          BY <4>1, OrderFacts
        <5>2. results = reader.expected.results
          <6>1. Hashes["results"] = reader.expected["results"]
            BY <3>5, <5>1
          <6>2. QED
            BY <6>1, HashesType
        <5>3. ~ AcceptedByResults
          BY <3>5 DEF Unearned
        <5>4. QED
          BY <5>2, <5>3 DEF AcceptedByResults
      <4>2. CASE k # 5
        BY <3>1, <3>4, <3>5, <4>2 DEF Unearned
      <4>3. QED
        BY <4>1, <4>2
    <3>6. CASE reader'.step = "hash"
      <4>1. (Expected' <=> Expected)
            /\ (Accepted(reader.expected.results)' <=> Accepted(reader.expected.results))
        BY <3>2, <3>6 DEF Expected, Accepted
      <4>2. QED
        BY <2>1, <2>2, <2>3, <3>1, <3>2, <3>3, <3>5, <3>6, <4>1 DEF Unearned
    <3>7. CASE reader'.step = "load"
      <4>1. k = 1 /\ Done' = 0
        BY <3>2, <3>7, OrderFacts DEF Done
      <4>2. name = "run"
        BY <4>1, OrderFacts
      <4>3. ASSUME clean, agreed, ~ earned, IsAccepted(run)
            PROVE  FALSE
        <5>1. run = reader.expected.run
          <6>1. Hashes["run"] = reader.expected["run"]
            BY <4>2, <4>3
          <6>2. QED
            BY <6>1, HashesType
        <5>2. Accepted(reader.expected.results)
          BY <3>1, <4>3, <5>1 DEF Unearned, Expected, IsAccepted
        <5>3. QED
          BY <3>5, <4>3, <5>2
      <4>4. QED
        BY <2>1, <2>2, <2>3, <3>1, <3>2, <3>3, <3>7, <4>1, <4>3 DEF Unearned
    <3>8. QED
      BY <3>2, <3>6, <3>7
  <2>7. CASE LoadFile
    <3>1. /\ reader.step = "load" /\ reader'.step = "load" /\ UNCHANGED <<answer, agreed>>
          /\ reader'.clean = reader.clean /\ Len(reader.seen) \in 0 .. 4
          /\ Len(reader.todo) \in 1 .. 5 /\ Len(reader'.todo) = Len(reader.todo) - 1
          /\ \A i \in 1 .. Len(reader.seen) : reader'.seen[i] = reader.seen[i]
          /\ reader'.seen[Len(reader.seen) + 1] = Hashes[LoadOrder[Len(reader.seen) + 1]]
      BY <2>7, LoadEffect DEF observed
    <3>2. Len(reader.seen) = Done /\ Done \in Nat /\ Done' = Done + 1
      <4>1. Len(reader.seen) = Done
        BY <3>1 DEF Shape
      <4>2. Done \in 0 .. 4 /\ Done' = Done + 1
        BY <3>1, DoneAdvances
      <4>3. QED
        BY <4>1, <4>2
    <3>3. TrustedInspectIsEarned'
      BY <3>1 DEF Unearned, TrustedInspectIsEarned, AnswerTrusts, IsAccepted
    <3>4. ASSUME reader.clean, agreed, ~ earned
          PROVE  ~ IsAccepted(reader'.seen[1])
      <4>1. CASE Done = 0
        <5>1. reader'.seen[1] = Hashes["run"] /\ Hashes["run"] = run
          BY <3>1, <3>2, <4>1, OrderFacts, HashesType
        <5>2. QED
          BY <3>1, <3>4, <4>1, <5>1 DEF Unearned
      <4>2. CASE Done # 0
        <5>1. 1 \in 1 .. Len(reader.seen)
          BY <3>2, <4>2
        <5>2. reader'.seen[1] = reader.seen[1]
          BY <3>1, <5>1
        <5>3. QED
          BY <3>1, <3>4, <4>2, <5>2 DEF Unearned
      <4>3. QED
        BY <4>1, <4>2
    <3>5. Done' # 0
      BY <3>2
    <3>6. IsAccepted(reader.seen[1])' <=> IsAccepted(reader'.seen[1])
      BY DEF IsAccepted
    <3>7. QED
      BY <2>1, <2>3, <3>1, <3>3, <3>4, <3>5, <3>6 DEF Unearned
  <2>8. CASE Report
    <3>1. reader.step = "load" /\ reader.todo = <<>> /\ reader'.step = "idle" /\ Done = 5
      BY <2>8 DEF Report, Answers, Idle, Done
    <3>2. /\ answer'.outcome = "answer" /\ answer'.call = reader.call
          /\ answer'.earned = earned /\ answer'.agreed = agreed
          /\ reader.call = "inspect" => answer'.found = Found
      BY <2>8 DEF Report, Answers, Answer
    <3>3. TrustedInspectIsEarned'
      <4> SUFFICES ASSUME reader.call = "inspect", Found.recoverable, IsAccepted(Found.manifest),
                          agreed
                   PROVE  earned
        BY <3>2 DEF TrustedInspectIsEarned, AnswerTrusts, IsAccepted
      <4>1. reader.clean /\ IsAccepted(reader.seen[1])
        BY DEF Found
      <4>2. QED
        BY <3>1, <4>1 DEF Unearned
    <3>4. QED
      BY <2>3, <3>1, <3>3 DEF Unearned
  <2>9. QED
    BY <1>3, <2>4, <2>5, <2>6, <2>7, <2>8 DEF Read
<1>4. QED
  BY <1>1, <1>2, <1>3 DEF StatusNext, Read

\* What inspect calls trusted was accepted by passing results at a moment of the
\* call, unless the checkpoint does not agree with itself.
THEOREM TrustIsEarned == StatusSpec => []TrustedInspectIsEarned
<1>1. StatusInit => Unearned
  BY DEF StatusInit, Init, NewManifest, Unearned, AcceptedByResults, IsAccepted, Idle, Pending,
         TrustedInspectIsEarned, AnswerTrusts
<1>2. Basis /\ Unearned /\ [StatusNext]_statusVars => Unearned'
  <2>1. CASE StatusNext
    BY <2>1, UnearnedStep
  <2>2. CASE UNCHANGED statusVars
    BY <2>2 DEF statusVars, vars, disk, files, observed, Unearned, AcceptedByResults, IsAccepted,
                Accepted, Expected, Done, TrustedInspectIsEarned, AnswerTrusts
  <2>3. QED
    BY <2>1, <2>2
<1>3. Unearned => TrustedInspectIsEarned
  BY DEF Unearned
<1>4. QED
  BY <1>1, <1>2, <1>3, BasisInvariant, PTL DEF StatusSpec
=============================================================================
