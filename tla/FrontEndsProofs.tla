--------------------------- MODULE FrontEndsProofs ---------------------------
(***************************************************************************)
(* What FrontEnds guarantees for every set of shells, programs, files and  *)
(* first contents of the directory, and for every bound.                   *)
(***************************************************************************)
EXTENDS FrontEnds, FiniteSetTheorems, TLAPS

-----------------------------------------------------------------------------
(* The invariants.                                                         *)

\* The steps of all programs; what a process has still to do is among them.
KnownSteps == UNION {{c[i] : i \in DOMAIN c} : c \in Programs}
Known == \A p \in Processes : \A i \in DOMAIN job[p].todo : job[p].todo[i] \in KnownSteps

\* The server works on a line that it was sent.
AtLine == job[Server].state = "running" => next <= Len(lines)

BasicInv == TypeOK /\ Known /\ AtLine

-----------------------------------------------------------------------------
(* Constants.                                                              *)

LEMMA RefusalFacts ==
  /\ {"invalid", "os", "version"} \subseteq Refusals
  /\ "ok" \notin Refusals
BY DEF Refusals

LEMMA KnownStepFacts ==
  ASSUME NEW s \in KnownSteps
  PROVE  /\ s \in Step
         /\ s.op \in Writes => s.path \in Paths /\ "none" \notin s.kinds
         /\ s.op = "overwrite" => s.path \notin AtomicFiles
         /\ s.op \in {"replace", "overwrite"} => s.path \notin Receipts
         /\ (s.op = "create" /\ s.may # {}) => s.path \in Receipts
         /\ s.op = "create" => s.path \notin ProjectFiles /\ s.path # Config
<1>1. PICK c \in Programs : \E i \in DOMAIN c : s = c[i]
  BY DEF KnownSteps
<1>2. PICK i \in DOMAIN c : s = c[i]
  BY <1>1
<1>3. c \in Seq(Step)
  BY ProgramsAssumption DEF Programs
<1>4. s \in Step
  BY <1>2, <1>3
<1>5. s.op \in Writes => s.path \in Paths /\ "none" \notin s.kinds
  BY <1>2, StepsAssumption
<1>6. s.op = "overwrite" => s.path \notin AtomicFiles
  BY <1>2 DEF AtomicFiles, WrittenOnlyBy, Writes
<1>7. s.op \in {"replace", "overwrite"} => s.path \notin Receipts
  BY <1>2 DEF Receipts, WrittenOnlyBy, Writes
<1>8. (s.op = "create" /\ s.may # {}) => s.path \in Receipts
  BY <1>2, GuardsAssumption
<1>9. s.op = "create" => s.path \notin ProjectFiles /\ s.path # Config
  <2>1. s.op = "create" => s.path \notin ProjectFiles /\ s.path \in WrittenBy(c)
    BY <1>2, InitsAssumption DEF WrittenBy, Writes
  <2>2. Config \in WrittenBy(c) => Config \in ProjectFiles
    BY DEF ProjectFiles
  <2>3. QED
    BY <2>1, <2>2
<1>10. QED
  BY <1>4, <1>5, <1>6, <1>7, <1>8, <1>9

LEMMA ProgramFacts ==
  ASSUME NEW c \in Programs
  PROVE  /\ Begun(c) \in Job
         /\ Begun(c).state = "running" /\ Begun(c).todo = c /\ Begun(c).phase = "start"
         /\ Begun(c).due = WrittenBy(c)
         /\ \A i \in DOMAIN c : c[i] \in KnownSteps
<1>1. c \in Seq(Step)
  BY ProgramsAssumption DEF Programs
<1>2. \A i \in DOMAIN c : c[i] \in KnownSteps
  BY DEF KnownSteps
<1>3. WrittenBy(c) \subseteq Paths
  BY StepsAssumption DEF WrittenBy
<1>4. Begun(c) \in Job
  BY <1>1, <1>3 DEF Begun, Job
<1>5. QED
  BY <1>2, <1>4 DEF Begun

\* An init asks first, and writes files of a project only.
LEMMA InitFacts ==
  ASSUME NEW c \in Programs
  PROVE  /\ WrittenBy(c) \cap ProjectFiles # {} => AsksFirst(c)
         /\ Config \in WrittenBy(c) => WrittenBy(c) \subseteq ProjectFiles /\ AsksFirst(c)
<1>1. Config \in WrittenBy(c) => WrittenBy(c) \subseteq ProjectFiles
  BY DEF ProjectFiles
<1>2. WrittenBy(c) \cap ProjectFiles # {} => AsksFirst(c)
  BY InitsAssumption
<1>3. QED
  BY <1>1, <1>2

LEMMA NoJobFacts ==
  /\ NoJob \in Job /\ NoJob.state = "idle" /\ NoJob.todo = <<>> /\ NoJob.due = {}
  /\ \A i \in DOMAIN NoJob.todo : NoJob.todo[i] \in KnownSteps
<1>1. NoJob.state = "idle" /\ NoJob.todo = <<>> /\ NoJob.due = {}
  BY DEF NoJob
<1>2. NoJob \in Job
  BY DEF NoJob, Job
<1>3. QED
  BY <1>1, <1>2

\* The step a running process is at.
LEMMA NowFacts ==
  ASSUME TypeOK, Known, NEW p \in Processes, job[p].todo # <<>>
  PROVE  /\ Now(p) \in KnownSteps /\ Now(p) \in Step
         /\ Now(p) = job[p].todo[1]
         /\ Now(p).may \subseteq Refusals
         /\ Tail(job[p].todo) \in Seq(Step)
         /\ Len(job[p].todo) \in Nat \ {0}
         /\ Len(Tail(job[p].todo)) = Len(job[p].todo) - 1
         /\ DOMAIN job[p].todo = 1 .. Len(job[p].todo)
         /\ DOMAIN Tail(job[p].todo) = 1 .. (Len(job[p].todo) - 1)
         /\ \A i \in DOMAIN Tail(job[p].todo) :
              Tail(job[p].todo)[i] = job[p].todo[i + 1] /\ i + 1 \in DOMAIN job[p].todo
<1>1. job[p] \in Job
  BY DEF TypeOK
<1>2. job[p].todo \in Seq(Step)
  BY <1>1 DEF Job
<1>3. 1 \in DOMAIN job[p].todo /\ Now(p) = job[p].todo[1]
  BY <1>2 DEF Now
<1>4. Now(p) \in KnownSteps
  BY <1>3 DEF Known
<1>5. Now(p) \in Step /\ Now(p).may \subseteq Refusals
  BY <1>4, KnownStepFacts DEF Step
<1>6. QED
  BY <1>2, <1>3, <1>4, <1>5

-----------------------------------------------------------------------------
(* The ways a job goes on.                                                 *)

LEMMA MeType ==
  ASSUME BasicInv, NEW p \in Processes, job[p].state = "running"
  PROVE  Me(p) \in Authors /\ Me(p) # Nobody
<1>1. CASE p \in Shells
  <2>1. p # Server
    BY <1>1, ProcessesAssumption
  <2>2. Me(p) = <<p, 0>> /\ p # "nobody"
    BY <2>1, <1>1, ProcessesAssumption DEF Me
  <2>3. QED
    BY <2>2, <1>1 DEF Authors, Nobody
<1>2. CASE p = Server
  <2>1. next \in 1 .. MaxRequests
    BY <1>2, BoundsAssumption DEF BasicInv, AtLine, TypeOK
  <2>2. Me(p) = <<Server, next>> /\ Server # "nobody"
    BY <1>2, ProcessesAssumption DEF Me
  <2>3. QED
    BY <2>1, <2>2 DEF Authors, Nobody
<1>3. QED
  BY <1>1, <1>2 DEF Processes

\* What one job becomes, when the other jobs stay.
LEMMA OneJob ==
  ASSUME BasicInv, NEW p \in Processes, NEW j \in Job,
         job' = [job EXCEPT ![p] = j],
         \A i \in DOMAIN j.todo : j.todo[i] \in KnownSteps
  PROVE  job' \in [Processes -> Job] /\ Known' /\ job'[p] = j
         /\ \A q \in Processes \ {p} : job'[q] = job[q]
BY DEF BasicInv, TypeOK, Known

LEMMA AdvanceType ==
  ASSUME BasicInv, NEW p \in Processes, job[p].state = "running", job[p].todo # <<>>,
         Advance(p)
  PROVE  /\ job' \in [Processes -> Job] /\ Known' /\ AtLine'
         /\ job'[p] = [job[p] EXCEPT !.todo = Tail(@), !.phase = "start"]
         /\ job'[p].state = "running" /\ job'[p].todo = Tail(job[p].todo)
         /\ job'[p].due = job[p].due /\ job'[p].phase = "start"
         /\ \A q \in Processes \ {p} : job'[q] = job[q]
<1> DEFINE j == [job[p] EXCEPT !.todo = Tail(@), !.phase = "start"]
<1>1. job[p] \in Job
  BY DEF BasicInv, TypeOK
<1>2. Tail(job[p].todo) \in Seq(Step)
  BY NowFacts DEF BasicInv
<1>3. job' = [job EXCEPT ![p] = j]
  BY DEF Advance
<1>4. j \in Job /\ j.state = "running" /\ j.todo = Tail(job[p].todo)
      /\ j.due = job[p].due /\ j.phase = "start"
  BY <1>1, <1>2 DEF Job
<1>5. \A i \in DOMAIN j.todo : j.todo[i] \in KnownSteps
  BY <1>4, NowFacts DEF BasicInv, Known
<1>6. /\ job' \in [Processes -> Job] /\ Known' /\ job'[p] = j
      /\ \A q \in Processes \ {p} : job'[q] = job[q]
  <2> HIDE DEF j
  <2> QED  BY <1>3, <1>4, <1>5, OneJob
<1>7. AtLine'
  BY <1>6, <1>4 DEF BasicInv, AtLine, Advance, Processes
<1>8. QED
  BY <1>4, <1>6, <1>7

LEMMA StayType ==
  ASSUME BasicInv, NEW p \in Processes, job[p].state = "running",
         NEW phase \in {"start", "ready", "linked"}, Stay(p, phase)
  PROVE  /\ job' \in [Processes -> Job] /\ Known' /\ AtLine'
         /\ job'[p].state = "running" /\ job'[p].todo = job[p].todo
         /\ job'[p].due = job[p].due /\ job'[p].phase = phase
         /\ \A q \in Processes \ {p} : job'[q] = job[q]
<1> DEFINE j == [job[p] EXCEPT !.phase = phase]
<1>1. job[p] \in Job
  BY DEF BasicInv, TypeOK
<1>2. job' = [job EXCEPT ![p] = j]
  BY DEF Stay
<1>3. j \in Job /\ j.state = "running" /\ j.todo = job[p].todo
      /\ j.due = job[p].due /\ j.phase = phase
  BY <1>1 DEF Job
<1>4. \A i \in DOMAIN j.todo : j.todo[i] \in KnownSteps
  BY <1>3 DEF BasicInv, Known
<1>5. /\ job' \in [Processes -> Job] /\ Known' /\ job'[p] = j
      /\ \A q \in Processes \ {p} : job'[q] = job[q]
  <2> HIDE DEF j
  <2> QED  BY <1>2, <1>3, <1>4, OneJob
<1>6. AtLine'
  BY <1>5, <1>3 DEF BasicInv, AtLine, Stay, Processes
<1>7. QED
  BY <1>3, <1>5, <1>6

\* An answer: the id is one that was sent, or null, and the server is idle again.
LEMMA AnswerType ==
  ASSUME BasicInv, NEW id \in 0 .. MaxRequests, next <= Len(lines),
         Answer(id), UNCHANGED lines
  PROVE  /\ job' \in [Processes -> Job] /\ Known' /\ AtLine'
         /\ job'[Server] = NoJob
         /\ \A q \in Processes \ {Server} : job'[q] = job[q]
         /\ next' = next + 1 /\ next' \in 1 .. (Len(lines') + 1)
         /\ answers' \in Seq(0 .. MaxRequests)
<1>1. job' = [job EXCEPT ![Server] = NoJob] /\ Server \in Processes
  BY DEF Answer, Processes
<1>2. /\ job' \in [Processes -> Job] /\ Known' /\ job'[Server] = NoJob
      /\ \A q \in Processes \ {Server} : job'[q] = job[q]
  BY <1>1, NoJobFacts, OneJob
<1>3. AtLine'
  BY <1>2, NoJobFacts DEF AtLine
<1>4. next' = next + 1 /\ next' \in 1 .. (Len(lines') + 1)
  BY DEF Answer, BasicInv, TypeOK
<1>5. answers' \in Seq(0 .. MaxRequests)
  BY DEF Answer, BasicInv, TypeOK
<1>6. QED
  BY <1>2, <1>3, <1>4, <1>5

LEMMA IdType ==
  ASSUME BasicInv, next <= Len(lines)
  PROVE  Id(next) \in 0 .. MaxRequests
BY BoundsAssumption DEF BasicInv, TypeOK, Id

LEMMA CloseType ==
  ASSUME BasicInv, NEW p \in Processes, job[p].state = "running",
         NEW why \in Refusals \cup {"ok"}, NEW spoilt \in BOOLEAN, Close(p, why, spoilt)
  PROVE  /\ job' \in [Processes -> Job] /\ Known' /\ AtLine'
         /\ job'[p].state # "running" /\ (p \in Shells => job'[p] # NoJob)
         /\ (p = Server => job'[p] = NoJob /\ next' = next + 1)
         /\ (p \in Shells => next' = next)
         /\ \A q \in Processes \ {p} : job'[q] = job[q]
         /\ reports' = reports \cup
                       {[by |-> Me(p), why |-> why, due |-> job[p].due, spoilt |-> spoilt]}
         /\ reports' \subseteq Report
         /\ next' \in 1 .. (Len(lines') + 1)
         /\ answers' \in Seq(0 .. MaxRequests)
         /\ UNCHANGED <<lines, deaths, late>>
<1>1. job[p] \in Job
  BY DEF BasicInv, TypeOK
<1>2. [by |-> Me(p), why |-> why, due |-> job[p].due, spoilt |-> spoilt] \in Report
  BY <1>1, MeType DEF Report, Job
<1>3. /\ reports' = reports \cup
                    {[by |-> Me(p), why |-> why, due |-> job[p].due, spoilt |-> spoilt]}
      /\ reports' \subseteq Report
  BY <1>2 DEF Close, BasicInv, TypeOK
<1>4. CASE p \in Shells
  <2> DEFINE j == [job[p] EXCEPT !.state = "done", !.todo = <<>>, !.phase = "start"]
  <2>1. p # Server
    BY <1>4, ProcessesAssumption
  <2>2. job' = [job EXCEPT ![p] = j] /\ UNCHANGED <<next, answers, lines, deaths, late>>
    BY <2>1 DEF Close
  <2>3. j \in Job /\ j.state = "done" /\ j.todo = <<>>
    <3>1. <<>> \in Seq(Step)
      OBVIOUS
    <3>2. \A t \in Seq(Step) :
            LET k == [job[p] EXCEPT !.state = "done", !.todo = t, !.phase = "start"]
            IN  k \in Job /\ k.state = "done" /\ k.todo = t
      BY <1>1 DEF Job
    <3> QED  BY <3>1, <3>2
  <2>4. \A i \in DOMAIN j.todo : j.todo[i] \in KnownSteps
    BY <2>3
  <2>5. /\ job' \in [Processes -> Job] /\ Known' /\ job'[p] = j
        /\ \A q \in Processes \ {p} : job'[q] = job[q]
    <3> HIDE DEF j
    <3> QED  BY <2>2, <2>3, <2>4, OneJob
  <2>6. AtLine' /\ next' \in 1 .. (Len(lines') + 1) /\ answers' \in Seq(0 .. MaxRequests)
    BY <2>1, <2>2, <2>5 DEF BasicInv, AtLine, TypeOK, Processes
  <2>7. job'[p].state # "running" /\ job'[p] # NoJob
    BY <2>3, <2>5, NoJobFacts
  <2>8. QED
    BY <1>3, <1>4, <2>1, <2>2, <2>5, <2>6, <2>7
<1>5. CASE p = Server
  <2>1. p \notin Shells
    BY <1>5, ProcessesAssumption
  <2>2. next <= Len(lines)
    BY <1>5 DEF BasicInv, AtLine
  <2>3. /\ Answer(IF why = "ok" THEN Id(next) ELSE RefusalId(why))
        /\ UNCHANGED <<lines, deaths, late>>
    BY <1>5, <2>1 DEF Close
  <2>4. (IF why = "ok" THEN Id(next) ELSE RefusalId(why)) \in 0 .. MaxRequests
    BY <2>2, IdType, BoundsAssumption DEF RefusalId
  <2>5. /\ job' \in [Processes -> Job] /\ Known' /\ AtLine'
        /\ job'[Server] = NoJob
        /\ \A q \in Processes \ {Server} : job'[q] = job[q]
        /\ next' = next + 1 /\ next' \in 1 .. (Len(lines') + 1)
        /\ answers' \in Seq(0 .. MaxRequests)
    <3> DEFINE id == IF why = "ok" THEN Id(next) ELSE RefusalId(why)
    <3>1. id \in 0 .. MaxRequests /\ Answer(id) /\ UNCHANGED lines
      BY <2>3, <2>4
    <3> HIDE DEF id
    <3> QED  BY <3>1, <2>2, AnswerType
  <2>6. QED
    BY <1>3, <1>5, <2>1, <2>3, <2>5, NoJobFacts
<1>6. QED
  BY <1>4, <1>5 DEF Processes

LEMMA EndType ==
  ASSUME BasicInv, NEW p \in Processes, job[p].state = "running",
         NEW why \in Refusals \cup {"ok"}, End(p, why)
  PROVE  job'[p].state # "running"
BY CloseType DEF End

-----------------------------------------------------------------------------
(* Every step of a program, taken together: how the job goes on, and what  *)
(* becomes of the disk.                                                    *)

\* A refusal for which nothing has failed later: there is something left to do, at
\* the check of a written file that is another one's, and after the link only the
\* guard, which removes the file.
Refuses(p) ==
  /\ job[p].todo # <<>>
  /\ Now(p).op = "verify" => disk[File(p)].by # Me(p)
  /\ (Now(p).op = "create" /\ job[p].phase = "linked") =>
       disk' = [disk EXCEPT ![File(p)] = Absent]

\* The job ends: with a result only if there is nothing left to do.
Ends(p) ==
  \E why \in Refusals \cup {"ok"}, spoilt \in BOOLEAN :
    /\ Close(p, why, spoilt)
    /\ why = "ok" => job[p].todo = <<>>
    /\ (why # "ok" /\ ~spoilt) => Refuses(p)

Spoils(p) == Ends(p) /\ \E why \in Refusals : Spoil(p, why)

\* The step writes the file: whole if the file is never overwritten in place, and
\* where there was none if the file is linked.
Puts(p) ==
  /\ job[p].todo # <<>> /\ Now(p).op \in Writes
  /\ \E kind \in Now(p).kinds, whole \in BOOLEAN :
       /\ disk' = [disk EXCEPT ![File(p)] = [kind |-> kind, by |-> Me(p), whole |-> whole]]
       /\ whole \/ Now(p).op = "overwrite"
  /\ Now(p).op = "create" => disk[File(p)] = Absent
  /\ \/ Advance(p)
     \/ Now(p).op = "overwrite" /\ Stay(p, "ready")
     \/ Now(p).op = "create" /\ Now(p).may # {} /\ Stay(p, "linked")
     \/ Now(p).op = "create" /\ Spoils(p)

\* A guard that fails after the link.
Removes(p) ==
  /\ job[p].todo # <<>> /\ Now(p).op = "create" /\ job[p].phase = "linked"
  /\ Now(p).may # {}
  /\ disk' = [disk EXCEPT ![File(p)] = Absent]
  /\ Ends(p)

\* The disk stays: the job may be at a step that writes only to begin or to end it,
\* or to find that the guard after the link holds.
Keeps(p) ==
  /\ UNCHANGED disk
  /\ \/ Ends(p)
     \/ /\ job[p].todo # <<>> /\ Stay(p, "ready")
        /\ Now(p).op \in {"replace", "create"} /\ job[p].phase = "start"
     \/ /\ job[p].todo # <<>> /\ Advance(p)
        /\ \/ Now(p).op \notin Writes
           \/ Now(p).op = "create" /\ job[p].phase = "linked"

\* fresh only grows, at the check of an init.
Finds(p) ==
  \/ UNCHANGED fresh
  \/ /\ job[p].todo # <<>> /\ Now(p).op = "fresh" /\ disk[File(p)] = Absent
     /\ fresh' = fresh \cup {Me(p)}

\* An init goes past its check only if there is no photonic.toml.
Passes(p) ==
  (job[p].todo # <<>> /\ Now(p).op = "fresh" /\ Advance(p)) => disk[File(p)] = Absent

LEMMA VerdictType ==
  ASSUME NEW step
  PROVE  Verdict(step) \in Refusals \cup {"ok"}
BY RefusalFacts DEF Verdict

LEMMA AdvanceIsNotEnd ==
  ASSUME BasicInv, NEW p \in Processes, job[p].state = "running", job[p].todo # <<>>,
         Advance(p)
  PROVE  \A why \in Refusals \cup {"ok"} : ~End(p, why)
BY AdvanceType, EndType

LEMMA RefusalEnds ==
  ASSUME NEW p, NEW why \in Refusals, End(p, why), Refuses(p)
  PROVE  Ends(p)
BY RefusalFacts DEF Ends, End

LEMMA SpoiltEnds ==
  ASSUME NEW p, NEW why \in Refusals, Spoil(p, why)
  PROVE  Spoils(p) /\ Ends(p)
BY RefusalFacts DEF Spoils, Ends, Spoil

LEMMA WorkShape ==
  ASSUME BasicInv, NEW p \in Processes, Work(p)
  PROVE  /\ job[p].state = "running"
         /\ Keeps(p) \/ Puts(p) \/ Removes(p)
         /\ Finds(p)
         /\ Passes(p)
<1> USE DEF At
<1>1. CASE Look(p)
  <2>1. job[p].state = "running" /\ job[p].todo # <<>> /\ Now(p).op \in Reads
        /\ UNCHANGED <<disk, fresh>>
    BY <1>1 DEF Look, Now
  <2>2. Now(p).op \notin Writes /\ Now(p).op \notin {"fresh", "verify", "create"}
    BY <2>1 DEF Reads, Writes
  <2>3. Now(p).may \subseteq Refusals /\ Verdict(Now(p)) \in Refusals \cup {"ok"}
    BY <2>1, NowFacts, VerdictType DEF BasicInv
  <2>4. Advance(p) \/ \E why \in Refusals : End(p, why)
    BY <1>1, <2>3 DEF Look
  <2>5. Advance(p) \/ Ends(p)
    BY <2>1, <2>2, <2>4, RefusalEnds DEF Refuses
  <2>6. QED
    BY <2>1, <2>2, <2>5 DEF Keeps, Finds, Passes
<1>2. CASE Decide(p)
  <2>1. job[p].state = "running" /\ job[p].todo # <<>> /\ Now(p).op \in {"check", "fail"}
        /\ UNCHANGED <<disk, fresh>>
    BY <1>2 DEF Decide, Now
  <2>2. Now(p).op \notin Writes /\ Now(p).op \notin {"fresh", "verify", "create"}
    BY <2>1 DEF Writes
  <2>3. Now(p).may \subseteq Refusals
    BY <2>1, NowFacts DEF BasicInv
  <2>4. Advance(p) \/ \E why \in Refusals : End(p, why)
    BY <1>2, <2>3 DEF Decide
  <2>5. Advance(p) \/ Ends(p)
    BY <2>1, <2>2, <2>4, RefusalEnds DEF Refuses
  <2>6. QED
    BY <2>1, <2>2, <2>5 DEF Keeps, Finds, Passes
<1>3. CASE FindFresh(p)
  <2>1. job[p].state = "running" /\ job[p].todo # <<>> /\ Now(p).op = "fresh"
        /\ UNCHANGED disk
    BY <1>3 DEF FindFresh, Now
  <2>2. \/ disk[File(p)] = Absent /\ Advance(p) /\ fresh' = fresh \cup {Me(p)}
        \/ disk[File(p)] # Absent /\ End(p, "invalid") /\ UNCHANGED fresh
    BY <1>3 DEF FindFresh
  <2>3. Now(p).op \notin Writes
    BY <2>1 DEF Writes
  <2>4. Advance(p) \/ Ends(p)
    BY <2>1, <2>2, RefusalFacts, RefusalEnds DEF Refuses
  <2>5. Keeps(p)
    BY <2>1, <2>3, <2>4 DEF Keeps
  <2>6. Finds(p)
    BY <2>1, <2>2 DEF Finds
  <2>7. Passes(p)
    BY <2>1, <2>2, AdvanceIsNotEnd, RefusalFacts DEF Passes
  <2>8. QED
    BY <2>1, <2>5, <2>6, <2>7
<1>4. CASE Matches(p)
  <2>1. job[p].state = "running" /\ job[p].todo # <<>> /\ Now(p).op = "verify"
        /\ UNCHANGED <<disk, fresh>>
    BY <1>4 DEF Matches, Now
  <2>2. Now(p).op \notin Writes
    BY <2>1 DEF Writes
  <2>3. \/ Advance(p) \/ Spoil(p, "os")
        \/ disk[File(p)].by # Me(p) /\ \E why \in Refusals : End(p, why)
    BY <1>4, RefusalFacts DEF Matches
  <2>4. Advance(p) \/ Ends(p)
    BY <2>1, <2>3, RefusalFacts, RefusalEnds, SpoiltEnds DEF Refuses
  <2>5. QED
    BY <2>1, <2>2, <2>4 DEF Keeps, Finds, Passes
<1>5. CASE Prepare(p)
  <2>1. job[p].state = "running" /\ job[p].todo # <<>> /\ job[p].phase = "start"
        /\ Now(p).op \in {"replace", "create"} /\ UNCHANGED <<disk, fresh>>
    BY <1>5 DEF Prepare, Now
  <2>2. Now(p).may \subseteq Refusals
    BY <2>1, NowFacts DEF BasicInv
  <2>3. Stay(p, "ready") \/ \E why \in Refusals : End(p, why)
    BY <1>5, <2>2, RefusalFacts DEF Prepare
  <2>4. Stay(p, "ready") \/ Ends(p)
    BY <2>1, <2>3, RefusalEnds DEF Refuses
  <2>5. QED
    BY <2>1, <2>4 DEF Keeps, Finds, Passes
<1>6. CASE Swap(p)
  <2>1. job[p].state = "running" /\ job[p].todo # <<>> /\ Now(p).op = "replace"
        /\ UNCHANGED fresh
    BY <1>6 DEF Swap, Now
  <2>2. \/ Put(p, TRUE) /\ Advance(p)
        \/ UNCHANGED disk /\ End(p, "os")
    BY <1>6 DEF Swap
  <2>3. \/ Put(p, TRUE) /\ Advance(p)
        \/ UNCHANGED disk /\ Ends(p)
    BY <2>1, <2>2, RefusalFacts, RefusalEnds DEF Refuses
  <2>4. Puts(p) \/ Keeps(p)
    BY <2>1, <2>3 DEF Puts, Put, Keeps, Writes
  <2>5. QED
    BY <2>1, <2>4 DEF Finds, Passes
<1>7. CASE Link(p)
  <2>1. job[p].state = "running" /\ job[p].todo # <<>> /\ Now(p).op = "create"
        /\ job[p].phase = "ready" /\ UNCHANGED fresh
    BY <1>7 DEF Link, Now
  <2>2. Now(p).may \subseteq Refusals
    BY <2>1, NowFacts DEF BasicInv
  <2>3. \/ /\ disk[File(p)] = Absent /\ Put(p, TRUE)
           /\ Advance(p) \/ Spoil(p, "os") \/ (Now(p).may # {} /\ Stay(p, "linked"))
        \/ UNCHANGED disk /\ \E why \in Refusals : End(p, why)
    BY <1>7, <2>2, RefusalFacts DEF Link
  <2>4. \/ /\ disk[File(p)] = Absent /\ Put(p, TRUE)
           /\ Advance(p) \/ Spoils(p) \/ (Now(p).may # {} /\ Stay(p, "linked"))
        \/ UNCHANGED disk /\ Ends(p)
    BY <2>1, <2>3, RefusalFacts, RefusalEnds, SpoiltEnds DEF Refuses
  <2>5. Puts(p) \/ Keeps(p)
    BY <2>1, <2>4 DEF Puts, Put, Keeps, Writes
  <2>6. QED
    BY <2>1, <2>5 DEF Finds, Passes
<1>8. CASE Guard(p)
  <2>1. job[p].state = "running" /\ job[p].todo # <<>> /\ Now(p).op = "create"
        /\ job[p].phase = "linked" /\ UNCHANGED fresh
    BY <1>8 DEF Guard, Now
  <2>2. Now(p).may \subseteq Refusals
    BY <2>1, NowFacts DEF BasicInv
  <2>3. \/ UNCHANGED disk /\ (Advance(p) \/ Spoil(p, "os"))
        \/ /\ disk' = [disk EXCEPT ![File(p)] = Absent]
           /\ Now(p).may # {} /\ \E why \in Refusals : End(p, why)
    BY <1>8, <2>2, RefusalFacts DEF Guard
  <2>4. \/ UNCHANGED disk /\ (Advance(p) \/ Ends(p))
        \/ disk' = [disk EXCEPT ![File(p)] = Absent] /\ Now(p).may # {} /\ Ends(p)
    BY <2>1, <2>3, RefusalFacts, RefusalEnds, SpoiltEnds DEF Refuses
  <2>5. Keeps(p) \/ Removes(p)
    BY <2>1, <2>4 DEF Keeps, Removes
  <2>6. QED
    BY <2>1, <2>5 DEF Finds, Passes
<1>9. CASE Truncate(p)
  <2>1. job[p].state = "running" /\ job[p].todo # <<>> /\ Now(p).op = "overwrite"
        /\ UNCHANGED fresh
    BY <1>9 DEF Truncate, Now
  <2>2. \/ Put(p, FALSE) /\ Stay(p, "ready")
        \/ UNCHANGED disk /\ Ends(p)
    BY <1>9, <2>1, RefusalFacts, RefusalEnds DEF Truncate, Refuses
  <2>3. Puts(p) \/ Keeps(p)
    BY <2>1, <2>2 DEF Puts, Put, Keeps, Writes
  <2>4. QED
    BY <2>1, <2>3 DEF Finds, Passes
<1>10. CASE Fill(p)
  <2>1. job[p].state = "running" /\ job[p].todo # <<>> /\ Now(p).op = "overwrite"
        /\ UNCHANGED fresh
    BY <1>10 DEF Fill, Now
  <2>2. \/ (Put(p, TRUE) \/ Put(p, FALSE)) /\ Advance(p)
        \/ UNCHANGED disk /\ Ends(p)
    BY <1>10, <2>1, RefusalFacts, RefusalEnds DEF Fill, Refuses
  <2>3. Puts(p) \/ Keeps(p)
    BY <2>1, <2>2 DEF Puts, Put, Keeps, Writes
  <2>4. QED
    BY <2>1, <2>3 DEF Finds, Passes
<1>11. CASE Finish(p)
  <2>1. job[p].state = "running" /\ job[p].todo = <<>>
        /\ (End(p, "ok") \/ Spoil(p, "invalid"))
        /\ UNCHANGED <<disk, fresh>>
    BY <1>11 DEF Finish
  <2>2. Ends(p)
    BY <2>1, RefusalFacts, SpoiltEnds DEF Ends, End
  <2>3. Keeps(p)
    BY <2>1, <2>2 DEF Keeps
  <2>4. Finds(p) /\ Passes(p)
    BY <2>1 DEF Finds, Passes
  <2>5. QED
    BY <2>1, <2>3, <2>4
<1>12. QED
  BY <1>1, <1>2, <1>3, <1>4, <1>5, <1>6, <1>7, <1>8, <1>9, <1>10, <1>11 DEF Work

-----------------------------------------------------------------------------
(* The type invariant, with what the processes have still to do.           *)

LEMMA AbsentType == Absent \in Content /\ Absent.by = Nobody /\ Absent.whole
<1>1. Absent.by = Nobody /\ Absent.whole = TRUE /\ Absent.kind = "none"
  BY DEF Absent
<1>2. Nobody \in Authors
  BY DEF Authors
<1>3. QED
  BY <1>1, <1>2 DEF Absent, Content

\* What is put into a file.
LEMMA PutsFacts ==
  ASSUME BasicInv, NEW p \in Processes, job[p].state = "running", Puts(p)
  PROVE  /\ File(p) \in Paths
         /\ disk' \in [Paths -> Content]
         /\ disk'[File(p)].by = Me(p) /\ disk'[File(p)] # Absent
         /\ disk'[File(p)].whole \/ Now(p).op = "overwrite"
         /\ \A f \in Paths \ {File(p)} : disk'[f] = disk[f]
<1>1. PICK kind \in Now(p).kinds, whole \in BOOLEAN :
        /\ disk' = [disk EXCEPT ![File(p)] = [kind |-> kind, by |-> Me(p), whole |-> whole]]
        /\ whole \/ Now(p).op = "overwrite"
  BY DEF Puts
<1>2. Now(p) \in Step /\ Now(p) \in KnownSteps /\ Now(p).op \in Writes
  BY NowFacts DEF BasicInv, Puts
<1>3. File(p) \in Paths /\ kind \in Kinds /\ kind # "none"
  BY <1>2, KnownStepFacts DEF Step, File
<1>4. Me(p) \in Authors /\ Me(p) # Nobody
  BY MeType
<1> DEFINE new == [kind |-> kind, by |-> Me(p), whole |-> whole]
<1>5. new \in Content /\ new.by = Me(p) /\ new.whole = whole
  BY <1>3, <1>4 DEF Content
<1>6. new # Absent
  BY <1>4, <1>5, AbsentType
<1>7. disk \in [Paths -> Content] /\ disk' = [disk EXCEPT ![File(p)] = new]
  BY <1>1 DEF BasicInv, TypeOK
<1> HIDE DEF new
<1>8. QED
  BY <1>1, <1>3, <1>5, <1>6, <1>7

LEMMA RemovesFacts ==
  ASSUME BasicInv, NEW p \in Processes, job[p].state = "running", Removes(p)
  PROVE  /\ File(p) \in Paths /\ File(p) \in Receipts
         /\ File(p) \notin ProjectFiles /\ File(p) # Config
         /\ disk' \in [Paths -> Content]
         /\ disk'[File(p)] = Absent
         /\ \A f \in Paths \ {File(p)} : disk'[f] = disk[f]
<1>1. Now(p) \in KnownSteps /\ Now(p).op = "create" /\ Now(p).may # {}
  BY NowFacts DEF BasicInv, Removes
<1>2. /\ File(p) \in Paths /\ File(p) \in Receipts
      /\ File(p) \notin ProjectFiles /\ File(p) # Config
  BY <1>1, KnownStepFacts DEF File, Writes
<1>3. disk \in [Paths -> Content] /\ disk' = [disk EXCEPT ![File(p)] = Absent]
  BY DEF BasicInv, TypeOK, Removes
<1>4. QED
  BY <1>2, <1>3, AbsentType

LEMMA DiskType ==
  ASSUME BasicInv, NEW p \in Processes, job[p].state = "running",
         Keeps(p) \/ Puts(p) \/ Removes(p)
  PROVE  disk' \in [Paths -> Content]
BY PutsFacts, RemovesFacts DEF Keeps, BasicInv, TypeOK

\* How the job goes on.
LEMMA GoesOn ==
  ASSUME NEW p, Keeps(p) \/ Puts(p) \/ Removes(p)
  PROVE  \/ job[p].todo # <<>> /\ Advance(p)
         \/ \E phase \in {"ready", "linked"} : Stay(p, phase)
         \/ Ends(p)
BY DEF Keeps, Puts, Removes, Spoils

LEMMA BasicInit == Init => BasicInv
<1> SUFFICES ASSUME Init PROVE BasicInv
  OBVIOUS
<1>1. disk \in [Paths -> Content]
  BY ProjectsAssumption DEF Init
<1>2. job \in [Processes -> Job] /\ \A p \in Processes : job[p] = NoJob
  BY NoJobFacts DEF Init
<1>3. lines \in Seq(Line) /\ Len(lines) = 0
  BY DEF Init
<1>4. answers \in Seq(0 .. MaxRequests)
  BY DEF Init
<1>5. next \in 1 .. (Len(lines) + 1) /\ deaths \in 0 .. MaxDeaths
  BY <1>3, BoundsAssumption DEF Init
<1>6. reports \subseteq Report /\ fresh \subseteq Authors /\ late \subseteq Authors
  BY DEF Init
<1>7. TypeOK
  BY <1>1, <1>2, <1>3, <1>4, <1>5, <1>6, BoundsAssumption DEF TypeOK
<1>8. Known
  BY <1>2, NoJobFacts DEF Known
<1>9. AtLine
  BY <1>2, NoJobFacts DEF AtLine, Processes
<1>10. QED
  BY <1>7, <1>8, <1>9 DEF BasicInv

LEMMA BasicWork ==
  ASSUME BasicInv, NEW p \in Processes, Work(p)
  PROVE  BasicInv'
<1>1. job[p].state = "running" /\ (Keeps(p) \/ Puts(p) \/ Removes(p)) /\ Finds(p)
  BY WorkShape
<1>2. disk' \in [Paths -> Content]
  BY <1>1, DiskType
<1>3. fresh' \subseteq Authors
  BY <1>1, MeType DEF Finds, BasicInv, TypeOK
<1>4. \/ job[p].todo # <<>> /\ Advance(p)
      \/ \E phase \in {"ready", "linked"} : Stay(p, phase)
      \/ Ends(p)
  BY <1>1, GoesOn
<1>5. CASE job[p].todo # <<>> /\ Advance(p)
  <2>1. job' \in [Processes -> Job] /\ Known' /\ AtLine'
    BY <1>1, <1>5, AdvanceType
  <2>2. UNCHANGED <<lines, next, answers, deaths, reports, late>>
    BY <1>5 DEF Advance
  <2>3. QED
    BY <1>2, <1>3, <2>1, <2>2 DEF BasicInv, TypeOK
<1>6. CASE \E phase \in {"ready", "linked"} : Stay(p, phase)
  <2>1. job' \in [Processes -> Job] /\ Known' /\ AtLine'
    BY <1>1, <1>6, StayType
  <2>2. UNCHANGED <<lines, next, answers, deaths, reports, late>>
    BY <1>6 DEF Stay
  <2>3. QED
    BY <1>2, <1>3, <2>1, <2>2 DEF BasicInv, TypeOK
<1>7. CASE Ends(p)
  <2>1. /\ job' \in [Processes -> Job] /\ Known' /\ AtLine'
        /\ reports' \subseteq Report
        /\ next' \in 1 .. (Len(lines') + 1)
        /\ answers' \in Seq(0 .. MaxRequests)
        /\ UNCHANGED <<lines, deaths, late>>
    BY <1>1, <1>7, CloseType DEF Ends
  <2>2. QED
    BY <1>2, <1>3, <2>1 DEF BasicInv, TypeOK
<1>8. QED
  BY <1>4, <1>5, <1>6, <1>7

\* A request that begins: a command that is typed, a tool that is called.
LEMMA BeginType ==
  ASSUME BasicInv, NEW p \in Processes, NEW c \in Programs,
         job' = [job EXCEPT ![p] = Begun(c)]
  PROVE  /\ job' \in [Processes -> Job] /\ Known'
         /\ job'[p] = Begun(c) /\ \A q \in Processes \ {p} : job'[q] = job[q]
BY ProgramFacts, OneJob

LEMMA LateType ==
  ASSUME BasicInv, NEW p \in Processes, Me(p) \in Authors, NEW c, Late(p, c)
  PROVE  late' \subseteq Authors
BY DEF Late, BasicInv, TypeOK

LEMMA TypeBasic ==
  ASSUME BasicInv, NEW p \in Shells, NEW c \in Commands, Type(p, c)
  PROVE  BasicInv'
<1>1. p \in Processes /\ p # Server /\ c \in Programs
  BY ProcessesAssumption DEF Processes, Programs
<1>2. job' = [job EXCEPT ![p] = Begun(c)] /\ Late(p, c)
      /\ UNCHANGED <<disk, lines, next, answers, deaths, reports, fresh>>
  BY DEF Type
<1>3. job' \in [Processes -> Job] /\ Known'
      /\ \A q \in Processes \ {p} : job'[q] = job[q]
  BY <1>1, <1>2, BeginType
<1>4. Me(p) \in Authors
  BY <1>1 DEF Me, Authors
<1>5. late' \subseteq Authors
  BY <1>1, <1>2, <1>4, LateType
<1>6. AtLine'
  BY <1>1, <1>2, <1>3 DEF BasicInv, AtLine, Processes
<1>7. QED
  BY <1>2, <1>3, <1>5, <1>6 DEF BasicInv, TypeOK

LEMMA SendBasic ==
  ASSUME BasicInv, NEW line \in Line, Send(line)
  PROVE  BasicInv'
<1>1. lines' = Append(lines, line) /\ Requests < MaxRequests
      /\ UNCHANGED <<disk, job, next, answers, deaths, reports, fresh, late>>
  BY DEF Send
<1>2. lines \in Seq(Line) /\ next \in 1 .. (Len(lines) + 1)
  BY DEF BasicInv, TypeOK
<1>3. Cardinality({p \in Shells : job[p] # NoJob}) \in Nat
  BY ProcessesAssumption, FS_Subset, FS_CardinalityType
<1>4. lines' \in Seq(Line) /\ Len(lines') = Len(lines) + 1 /\ Len(lines') <= MaxRequests
  BY <1>1, <1>2, <1>3, BoundsAssumption DEF Requests
<1>5. QED
  BY <1>1, <1>2, <1>4 DEF BasicInv, TypeOK, Known, AtLine

LEMMA ReceiveBasic ==
  ASSUME BasicInv, Receive
  PROVE  BasicInv'
<1>1. /\ job[Server] = NoJob /\ next <= Len(lines) /\ Server \in Processes
      /\ UNCHANGED <<disk, lines, deaths, reports, fresh>>
  BY DEF Receive, Processes
<1>2. next \in 1 .. Len(lines) /\ next \in 1 .. MaxRequests /\ lines[next] \in Line
  BY <1>1, BoundsAssumption DEF BasicInv, TypeOK
<1>3. CASE /\ lines[next].kind = "call"
           /\ job' = [job EXCEPT ![Server] = Begun(lines[next].steps)]
           /\ Late(Server, lines[next].steps)
           /\ UNCHANGED <<next, answers>>
  <2>1. lines[next].steps \in Programs
    BY <1>2, <1>3 DEF Line, Programs
  <2>2. job' \in [Processes -> Job] /\ Known'
    BY <1>1, <1>3, <2>1, BeginType
  <2>3. Me(Server) \in Authors
    BY <1>2 DEF Me, Authors
  <2>4. late' \subseteq Authors
    BY <1>1, <1>3, <2>3, LateType
  <2>5. AtLine'
    BY <1>1, <1>3 DEF AtLine
  <2>6. QED
    BY <1>1, <1>3, <2>2, <2>4, <2>5 DEF BasicInv, TypeOK
<1>4. CASE (Answer(Id(next)) \/ Answer(0)) /\ UNCHANGED late
  <2>1. Id(next) \in 0 .. MaxRequests /\ 0 \in 0 .. MaxRequests
    BY <1>1, IdType, BoundsAssumption
  <2>2. /\ job' \in [Processes -> Job] /\ Known' /\ AtLine'
        /\ next' \in 1 .. (Len(lines') + 1)
        /\ answers' \in Seq(0 .. MaxRequests)
    BY <1>1, <1>4, <2>1, AnswerType
  <2>3. QED
    BY <1>1, <1>4, <2>2 DEF BasicInv, TypeOK
<1>5. CASE next' = next + 1 /\ UNCHANGED <<job, answers, late>>
  BY <1>1, <1>2, <1>5, NoJobFacts DEF BasicInv, TypeOK, Known, AtLine
<1>6. CASE job' = [job EXCEPT ![Server].state = "dead"] /\ UNCHANGED <<next, answers, late>>
  <2> DEFINE j == [job[Server] EXCEPT !.state = "dead"]
  <2>1. j \in Job /\ j.state = "dead" /\ j.todo = job[Server].todo
    BY <1>1 DEF BasicInv, TypeOK, Job
  <2>2. job' = [job EXCEPT ![Server] = j]
    BY <1>6
  <2>3. \A i \in DOMAIN j.todo : j.todo[i] \in KnownSteps
    BY <1>1, <2>1 DEF BasicInv, Known
  <2>4. job' \in [Processes -> Job] /\ Known' /\ job'[Server].state = "dead"
    <3> HIDE DEF j
    <3> QED  BY <1>1, <2>1, <2>2, <2>3, OneJob
  <2>5. QED
    BY <1>1, <1>6, <2>4 DEF BasicInv, TypeOK, AtLine
<1>7. QED
  BY <1>3, <1>4, <1>5, <1>6 DEF Receive

LEMMA DieBasic ==
  ASSUME BasicInv, NEW p \in Processes, Die(p)
  PROVE  /\ BasicInv'
         /\ job'[p].state = "dead" /\ \A q \in Processes \ {p} : job'[q] = job[q]
<1> DEFINE j == [job[p] EXCEPT !.state = "dead"]
<1>1. j \in Job /\ j.state = "dead" /\ j.todo = job[p].todo
  BY DEF BasicInv, TypeOK, Job
<1>2. job' = [job EXCEPT ![p] = j]
  BY DEF Die
<1>3. \A i \in DOMAIN j.todo : j.todo[i] \in KnownSteps
  BY <1>1 DEF BasicInv, Known
<1>4. /\ job' \in [Processes -> Job] /\ Known' /\ job'[p].state = "dead"
      /\ \A q \in Processes \ {p} : job'[q] = job[q]
  <2> HIDE DEF j
  <2> QED  BY <1>1, <1>2, <1>3, OneJob
<1>5. deaths' = deaths + 1 /\ deaths < MaxDeaths
      /\ UNCHANGED <<disk, lines, next, answers, reports, fresh, late>>
  BY DEF Die
<1>6. deaths' \in 0 .. MaxDeaths
  BY <1>5, BoundsAssumption DEF BasicInv, TypeOK
<1>7. AtLine'
  BY <1>4, <1>5 DEF BasicInv, AtLine, Processes
<1>8. QED
  BY <1>4, <1>5, <1>6, <1>7 DEF BasicInv, TypeOK

LEMMA BasicStep == BasicInv /\ [Next]_vars => BasicInv'
<1> SUFFICES ASSUME BasicInv, [Next]_vars PROVE BasicInv'
  OBVIOUS
<1>1. CASE \E p \in Shells, c \in Commands : Type(p, c)
  BY <1>1, TypeBasic
<1>2. CASE \E line \in Line : Send(line)
  BY <1>2, SendBasic
<1>3. CASE Receive
  BY <1>3, ReceiveBasic
<1>4. CASE \E p \in Processes : Work(p)
  BY <1>4, BasicWork
<1>5. CASE \E p \in Processes : Die(p)
  BY <1>5, DieBasic
<1>6. CASE UNCHANGED vars
  BY <1>6 DEF vars, BasicInv, TypeOK, Known, AtLine
<1>7. QED
  BY <1>1, <1>2, <1>3, <1>4, <1>5, <1>6 DEF Next

LEMMA BasicInvariant == Spec => []BasicInv
<1>1. QED
  BY BasicInit, BasicStep, PTL DEF Spec

\* The processes, their jobs, the lines and the answers keep their types, and
\* every process has only steps of its programs to do.
THEOREM FrontEndsTypeCorrect == Spec => []TypeOK
<1>1. BasicInv => TypeOK
  BY DEF BasicInv
<1>2. QED
  BY <1>1, BasicInvariant, PTL

-----------------------------------------------------------------------------
(* Whole files.                                                            *)

LEMMA WholeInit == Init => WholeOrAbsent
BY ProjectsAssumption DEF Init, WholeOrAbsent, AtomicFiles, WrittenOnlyBy

LEMMA WholeStep == BasicInv /\ WholeOrAbsent /\ [Next]_vars => WholeOrAbsent'
<1> SUFFICES ASSUME BasicInv, WholeOrAbsent, [Next]_vars, NEW f \in AtomicFiles
             PROVE  disk'[f].whole
  BY DEF WholeOrAbsent
<1>1. f \in Paths
  BY DEF AtomicFiles, WrittenOnlyBy
<1>2. CASE \E p \in Processes : Work(p)
  <2>1. PICK p \in Processes : Work(p)
    BY <1>2
  <2>2. job[p].state = "running" /\ (Keeps(p) \/ Puts(p) \/ Removes(p))
    BY <2>1, WorkShape
  <2>3. CASE Keeps(p)
    BY <2>3 DEF Keeps, WholeOrAbsent
  <2>4. CASE Puts(p)
    <3>1. Now(p) \in KnownSteps
      BY <2>4, NowFacts DEF BasicInv, Puts
    <3>2. Now(p).op = "overwrite" => File(p) # f
      BY <3>1, KnownStepFacts DEF File
    <3>3. QED
      BY <1>1, <2>2, <2>4, <3>2, PutsFacts DEF WholeOrAbsent
  <2>5. CASE Removes(p)
    BY <1>1, <2>2, <2>5, RemovesFacts, AbsentType DEF WholeOrAbsent
  <2>6. QED
    BY <2>2, <2>3, <2>4, <2>5
<1>3. CASE ~\E p \in Processes : Work(p)
  <2>1. UNCHANGED disk
    BY <1>3 DEF Next, Type, Send, Receive, Die, vars
  <2>2. QED
    BY <2>1 DEF WholeOrAbsent
<1>4. QED
  BY <1>2, <1>3

\* No reader ever finds half of a file that is only written through
\* atomic_write_text and atomic_create_text, whoever else writes it and whenever
\* a writer is killed.
THEOREM FilesAreWholeOrAbsent == Spec => []WholeOrAbsent
<1>1. QED
  BY WholeInit, WholeStep, BasicInvariant, PTL DEF Spec

-----------------------------------------------------------------------------
(* Who has written what.                                                   *)

\* A request that has not begun has left no trace.
Unheard(a) ==
  /\ a \notin late
  /\ \A f \in Paths : disk[f].by # a
  /\ \A r \in reports : r.by # a

AuthorsInv ==
  /\ \A p \in Shells : job[p] = NoJob => Unheard(<<p, 0>>)
  /\ job[Server] = NoJob => Unheard(<<Server, next>>)
  /\ \A k \in Nat : k > next => Unheard(<<Server, k>>)
  /\ \A p \in Processes : job[p].state = "running" => \A r \in reports : r.by # Me(p)

LEMMA AuthorsInit == Init => AuthorsInv
<1> SUFFICES ASSUME Init PROVE AuthorsInv
  OBVIOUS
<1>1. \A a : a # Nobody => Unheard(a)
  BY ProjectsAssumption DEF Init, Unheard
<1>2. \A p \in Processes, k \in Nat : <<p, k>> # Nobody
  BY ProcessesAssumption DEF Nobody, Processes
<1>3. \A p \in Processes : job[p].state = "idle"
  BY NoJobFacts DEF Init
<1>4. next = 1 /\ Server \in Processes /\ Shells \subseteq Processes
  BY DEF Init, Processes
<1>5. QED
  BY <1>1, <1>2, <1>3, <1>4 DEF AuthorsInv

\* The authors of two processes are two, and only the end of a line of the server
\* makes a process another author.
LEMMA MeFacts ==
  ASSUME BasicInv, NEW p \in Processes, NEW q \in Processes, p # q
  PROVE  /\ Me(p) # Me(q)
         /\ next' = next => Me(q)' = Me(q)
         /\ q \in Shells => Me(q)' = Me(q) /\ Me(q) = <<q, 0>>
         /\ p \in Shells => Me(p) = <<p, 0>>
BY ProcessesAssumption DEF Me, Processes

LEMMA NextOfOthers ==
  ASSUME BasicInv, NEW p \in Processes, job[p].state = "running",
         Keeps(p) \/ Puts(p) \/ Removes(p)
  PROVE  /\ \A q \in Processes \ {p} : job'[q] = job[q] /\ Me(q)' = Me(q)
         /\ UNCHANGED <<lines, late, deaths>>
         /\ p \in Shells => next' = next /\ job'[p] # NoJob
         /\ job'[p].state = "running" => next' = next /\ Me(p)' = Me(p) /\ UNCHANGED reports
         /\ (p = Server /\ job'[p].state # "running") => next' = next + 1
         /\ \A r \in reports' : r \in reports \/ r.by = Me(p)
<1>1. CASE job[p].todo # <<>> /\ Advance(p)
  <2>1. job'[p].state = "running" /\ \A q \in Processes \ {p} : job'[q] = job[q]
    BY <1>1, AdvanceType
  <2>2. UNCHANGED <<lines, next, late, deaths, reports>>
    BY <1>1 DEF Advance
  <2>3. \A q \in Processes : Me(q)' = Me(q)
    BY <2>2 DEF Me
  <2>4. QED
    BY <2>1, <2>2, <2>3, NoJobFacts
<1>2. CASE \E phase \in {"ready", "linked"} : Stay(p, phase)
  <2>1. job'[p].state = "running" /\ \A q \in Processes \ {p} : job'[q] = job[q]
    BY <1>2, StayType
  <2>2. UNCHANGED <<lines, next, late, deaths, reports>>
    BY <1>2 DEF Stay
  <2>3. \A q \in Processes : Me(q)' = Me(q)
    BY <2>2 DEF Me
  <2>4. QED
    BY <2>1, <2>2, <2>3, NoJobFacts
<1>3. CASE Ends(p)
  <2>1. PICK why \in Refusals \cup {"ok"}, spoilt \in BOOLEAN : Close(p, why, spoilt)
    BY <1>3 DEF Ends
  <2>2. /\ job'[p].state # "running" /\ (p \in Shells => job'[p] # NoJob)
        /\ (p = Server => job'[p] = NoJob /\ next' = next + 1)
        /\ (p \in Shells => next' = next)
        /\ \A q \in Processes \ {p} : job'[q] = job[q]
        /\ reports' = reports \cup
                      {[by |-> Me(p), why |-> why, due |-> job[p].due, spoilt |-> spoilt]}
        /\ UNCHANGED <<lines, deaths, late>>
    BY <2>1, CloseType
  <2>3. \A q \in Processes \ {p} : Me(q)' = Me(q)
    BY <2>2 DEF Me, Processes
  <2>4. QED
    BY <2>2, <2>3
<1>4. QED
  BY <1>1, <1>2, <1>3, GoesOn

\* What other requests do leaves a request unheard of.
LEMMA UnheardWork ==
  ASSUME BasicInv, NEW p \in Processes, job[p].state = "running",
         Keeps(p) \/ Puts(p) \/ Removes(p),
         NEW a, a # Nobody, a # Me(p), Unheard(a)
  PROVE  Unheard(a)'
<1>1. \A f \in Paths : disk'[f] = disk[f] \/ disk'[f].by \in {Me(p), Nobody}
  BY PutsFacts, RemovesFacts, AbsentType DEF Keeps
<1>2. UNCHANGED late /\ \A r \in reports' : r \in reports \/ r.by = Me(p)
  BY NextOfOthers
<1>3. QED
  BY <1>1, <1>2 DEF Unheard

LEMMA AuthorsWork ==
  ASSUME BasicInv, AuthorsInv, NEW p \in Processes, Work(p)
  PROVE  AuthorsInv'
<1>1. job[p].state = "running" /\ (Keeps(p) \/ Puts(p) \/ Removes(p))
  BY WorkShape
<1>2. \A a : (a # Nobody /\ a # Me(p) /\ Unheard(a)) => Unheard(a)'
  BY <1>1, UnheardWork
<1>3. \A q \in Processes, k \in Nat : <<q, k>> # Nobody
  BY ProcessesAssumption DEF Nobody, Processes
<1>4. /\ \A q \in Processes \ {p} : job'[q] = job[q] /\ Me(q)' = Me(q)
      /\ p \in Shells => next' = next /\ job'[p] # NoJob
      /\ job'[p].state = "running" => next' = next /\ Me(p)' = Me(p) /\ UNCHANGED reports
      /\ (p = Server /\ job'[p].state # "running") => next' = next + 1
      /\ \A r \in reports' : r \in reports \/ r.by = Me(p)
  BY <1>1, NextOfOthers
<1>5. job[p] # NoJob /\ next \in Nat /\ Server \in Processes
  BY <1>1, NoJobFacts DEF BasicInv, TypeOK, Processes
<1>6. next' = next \/ (p = Server /\ next' = next + 1)
  BY <1>4 DEF Processes
<1>7. ASSUME NEW q \in Shells, job'[q] = NoJob PROVE Unheard(<<q, 0>>)'
  <2>1. q \in Processes /\ q # p /\ q # Server
    BY <1>4, <1>7, ProcessesAssumption DEF Processes
  <2>2. Me(p) # <<q, 0>>
    BY <2>1, MeFacts DEF Me
  <2>3. Unheard(<<q, 0>>)
    BY <1>4, <1>7, <2>1 DEF AuthorsInv
  <2>4. QED
    BY <1>2, <1>3, <2>1, <2>2, <2>3
<1>8. ASSUME NEW k \in Nat, k > next PROVE Unheard(<<Server, k>>)'
  <2>1. Unheard(<<Server, k>>)
    BY <1>8 DEF AuthorsInv
  <2>2. Me(p) # <<Server, k>>
    BY <1>5, <1>8, ProcessesAssumption DEF Me, Processes
  <2>3. QED
    BY <1>2, <1>3, <1>5, <2>1, <2>2
<1>9. job'[Server] = NoJob => Unheard(<<Server, next>>)'
  <2>1. CASE p = Server
    <3> SUFFICES ASSUME job'[Server] = NoJob PROVE Unheard(<<Server, next>>)'
      OBVIOUS
    <3>1. PICK k \in Nat : k = next' /\ k > next
      BY <1>4, <1>5, <2>1, NoJobFacts
    <3>2. Unheard(<<Server, k>>)'
      BY <1>8, <3>1
    <3>3. QED
      BY <3>1, <3>2 DEF Unheard
  <2>2. CASE p # Server
    <3> SUFFICES ASSUME job'[Server] = NoJob PROVE Unheard(<<Server, next>>)'
      OBVIOUS
    <3>1. next' = next /\ Unheard(<<Server, next>>)
      BY <1>4, <1>5, <1>6, <2>2 DEF AuthorsInv
    <3>2. Me(p) # <<Server, next>>
      BY <2>2 DEF Me
    <3>3. \A k \in Nat : Unheard(<<Server, k>>) /\ Me(p) # <<Server, k>> => Unheard(<<Server, k>>)'
      BY <1>2, <1>3, <1>5
    <3>4. QED
      BY <1>5, <3>1, <3>2, <3>3 DEF Unheard
  <2>3. QED
    BY <2>1, <2>2
<1>10. ASSUME NEW k \in Nat, k > next' PROVE Unheard(<<Server, k>>)'
  BY <1>5, <1>6, <1>8, <1>10
<1>11. ASSUME NEW q \in Processes, job'[q].state = "running"
       PROVE  \A r \in reports' : r.by # Me(q)'
  <2>1. CASE q = p
    BY <1>1, <1>4, <1>11, <2>1 DEF AuthorsInv
  <2>2. CASE q # p
    <3>1. Me(q)' = Me(q) /\ Me(q) # Me(p) /\ job[q].state = "running"
      BY <1>4, <1>11, <2>2, MeFacts
    <3>2. QED
      BY <1>4, <3>1 DEF AuthorsInv
  <2>3. QED
    BY <2>1, <2>2
<1>12. QED
  BY <1>7, <1>9, <1>10, <1>11 DEF AuthorsInv

LEMMA UnheardMe ==
  ASSUME AuthorsInv, NEW p \in Processes, job[p] = NoJob
  PROVE  Unheard(Me(p))
BY ProcessesAssumption DEF AuthorsInv, Me, Processes

LEMMA AuthorsBegin ==
  ASSUME BasicInv, AuthorsInv, NEW p \in Processes, job[p] = NoJob, NEW c \in Programs,
         job' = [job EXCEPT ![p] = Begun(c)], Late(p, c),
         UNCHANGED <<disk, next, reports>>
  PROVE  AuthorsInv'
<1>1. /\ job'[p] = Begun(c) /\ Begun(c).state = "running"
      /\ \A q \in Processes \ {p} : job'[q] = job[q]
  BY BeginType, ProgramFacts
<1>2. late' \subseteq late \cup {Me(p)}
  BY DEF Late
<1>3. \A a : (a # Me(p) /\ Unheard(a)) => Unheard(a)'
  BY <1>2 DEF Unheard
<1>4. \A q \in Processes : Me(q)' = Me(q)
  BY DEF Me
<1>5. job'[p] # NoJob /\ next \in Nat
  BY <1>1, NoJobFacts DEF BasicInv, TypeOK
<1>6. ASSUME NEW q \in Shells, job'[q] = NoJob PROVE Unheard(<<q, 0>>)'
  BY <1>1, <1>3, <1>5, <1>6, ProcessesAssumption DEF AuthorsInv, Me, Processes
<1>7. ASSUME job'[Server] = NoJob PROVE Unheard(<<Server, next>>)'
  <2>1. p # Server /\ Me(p) # <<Server, next>> /\ job[Server] = NoJob
    BY <1>1, <1>5, <1>7 DEF Me, Processes
  <2>2. Unheard(<<Server, next>>)
    BY <2>1 DEF AuthorsInv
  <2>3. QED
    BY <1>2, <2>1, <2>2 DEF Unheard
<1>8. ASSUME NEW k \in Nat, k > next PROVE Unheard(<<Server, k>>)'
  <2>1. Me(p) # <<Server, k>>
    BY <1>5, <1>8, ProcessesAssumption DEF Me, Processes
  <2>2. QED
    BY <1>3, <1>8, <2>1 DEF AuthorsInv
<1>9. ASSUME NEW q \in Processes, job'[q].state = "running"
      PROVE  \A r \in reports' : r.by # Me(q)'
  <2>1. CASE q = p
    BY <1>4, <2>1, UnheardMe DEF Unheard
  <2>2. CASE q # p
    BY <1>1, <1>4, <1>9, <2>2 DEF AuthorsInv
  <2>3. QED
    BY <2>1, <2>2
<1>10. QED
  BY <1>6, <1>7, <1>8, <1>9 DEF AuthorsInv

LEMMA AuthorsReceive ==
  ASSUME BasicInv, AuthorsInv, Receive
  PROVE  AuthorsInv'
<1>1. /\ job[Server] = NoJob /\ next <= Len(lines) /\ Server \in Processes
      /\ UNCHANGED <<disk, lines, deaths, reports, fresh>>
  BY DEF Receive, Processes
<1>2. next \in Nat /\ next \in 1 .. Len(lines) /\ lines[next] \in Line /\ Server \notin Shells
  BY <1>1, ProcessesAssumption DEF BasicInv, TypeOK
<1>3. CASE /\ lines[next].kind = "call"
           /\ job' = [job EXCEPT ![Server] = Begun(lines[next].steps)]
           /\ Late(Server, lines[next].steps)
           /\ UNCHANGED <<next, answers>>
  <2>1. lines[next].steps \in Programs
    BY <1>2, <1>3 DEF Line, Programs
  <2>2. QED
    BY <1>1, <1>3, <2>1, AuthorsBegin
<1>4. CASE job' = job /\ next' = next + 1 /\ UNCHANGED late
  <2>1. \A a : Unheard(a) => Unheard(a)'
    BY <1>1, <1>4 DEF Unheard
  <2>2. \A k \in Nat : k > next => Unheard(<<Server, k>>)'
    BY <2>1 DEF AuthorsInv
  <2>3. PICK k \in Nat : k = next' /\ k > next
    BY <1>2, <1>4
  <2>4. Unheard(<<Server, next>>)'
    BY <2>2, <2>3 DEF Unheard
  <2>5. \A j \in Nat : j > next' => Unheard(<<Server, j>>)'
    BY <1>2, <2>2, <2>3
  <2>6. \A q \in Shells : job'[q] = NoJob => Unheard(<<q, 0>>)'
    BY <1>4, <2>1 DEF AuthorsInv
  <2>7. ASSUME NEW q \in Processes, job'[q].state = "running"
        PROVE  \A r \in reports' : r.by # Me(q)'
    <3>1. q # Server /\ Me(q)' = Me(q)
      BY <1>1, <1>4, <2>7, NoJobFacts DEF Me
    <3>2. QED
      BY <1>1, <1>4, <2>7, <3>1 DEF AuthorsInv
  <2>8. QED
    BY <2>4, <2>5, <2>6, <2>7 DEF AuthorsInv
<1>5. CASE job' = [job EXCEPT ![Server].state = "dead"] /\ UNCHANGED <<next, answers, late>>
  <2>1. \A q \in Processes \ {Server} : job'[q] = job[q]
    BY <1>5 DEF BasicInv, TypeOK
  <2>2. job'[Server].state = "dead"
    BY <1>1, <1>5 DEF BasicInv, TypeOK, Job
  <2>3. \A a : Unheard(a) => Unheard(a)'
    BY <1>1, <1>5 DEF Unheard
  <2>4. \A q \in Processes : Me(q)' = Me(q)
    BY <1>5 DEF Me
  <2>5. job'[Server] # NoJob
    BY <2>2, NoJobFacts
  <2>6. QED
    BY <1>1, <1>2, <1>5, <2>1, <2>2, <2>3, <2>4, <2>5 DEF AuthorsInv, Processes
<1>6. CASE (Answer(Id(next)) \/ Answer(0)) /\ UNCHANGED late
  <2>1. job' = job
    BY <1>1, <1>6 DEF Answer, BasicInv, TypeOK
  <2>2. next' = next + 1
    BY <1>6 DEF Answer
  <2>3. QED
    BY <1>4, <1>6, <2>1, <2>2
<1>7. QED
  BY <1>3, <1>4, <1>5, <1>6 DEF Receive

LEMMA AuthorsStep == BasicInv /\ AuthorsInv /\ [Next]_vars => AuthorsInv'
<1> SUFFICES ASSUME BasicInv, AuthorsInv, [Next]_vars PROVE AuthorsInv'
  OBVIOUS
<1>1. CASE \E p \in Shells, c \in Commands : Type(p, c)
  <2>1. PICK p \in Shells, c \in Commands : Type(p, c)
    BY <1>1
  <2>2. p \in Processes /\ c \in Programs
    BY DEF Processes, Programs
  <2>3. QED
    BY <2>1, <2>2, AuthorsBegin DEF Type
<1>2. CASE \E line \in Line : Send(line)
  BY <1>2 DEF Send, AuthorsInv, Unheard, Me
<1>3. CASE Receive
  BY <1>3, AuthorsReceive
<1>4. CASE \E p \in Processes : Work(p)
  BY <1>4, AuthorsWork
<1>5. CASE \E p \in Processes : Die(p)
  <2>1. PICK p \in Processes : Die(p)
    BY <1>5
  <2>2. job'[p].state = "dead" /\ \A q \in Processes \ {p} : job'[q] = job[q]
    BY <2>1, DieBasic
  <2>3. UNCHANGED <<disk, next, reports, late>>
    BY <2>1 DEF Die
  <2>4. job'[p] # NoJob
    BY <2>2, NoJobFacts
  <2>5. \A a : Unheard(a) => Unheard(a)'
    BY <2>3 DEF Unheard
  <2>6. \A q \in Processes : Me(q)' = Me(q)
    BY <2>3 DEF Me
  <2>7. \A q \in Shells : job'[q] = NoJob => Unheard(<<q, 0>>)'
    BY <2>2, <2>4, <2>5 DEF AuthorsInv, Processes
  <2>8. job'[Server] = NoJob => Unheard(<<Server, next>>)'
    BY <2>2, <2>3, <2>4, <2>5 DEF AuthorsInv, Processes
  <2>9. \A k \in Nat : k > next' => Unheard(<<Server, k>>)'
    BY <2>3, <2>5 DEF AuthorsInv
  <2>10. \A q \in Processes : job'[q].state = "running" => \A r \in reports' : r.by # Me(q)'
    BY <2>2, <2>3, <2>6 DEF AuthorsInv
  <2>11. QED
    BY <2>7, <2>8, <2>9, <2>10, <2>3 DEF AuthorsInv, Unheard
<1>6. CASE UNCHANGED vars
  BY <1>6 DEF vars, AuthorsInv, Unheard, Me
<1>7. QED
  BY <1>1, <1>2, <1>3, <1>4, <1>5, <1>6 DEF Next

-----------------------------------------------------------------------------
(* An init that is late still has its question to ask.                     *)

LateInv ==
  /\ late # {} => disk[Config] # Absent
  /\ Nobody \notin late
  /\ \A p \in Processes :
       (job[p].state = "running" /\ Me(p) \in late) => AsksFirst(job[p].todo)
  /\ ProjectsAreSpared

LEMMA MeIsSomebody == \A p \in Processes : Me(p) # Nobody
BY ProcessesAssumption DEF Me, Nobody, Processes

LEMMA LateInit == Init => LateInv
<1> SUFFICES ASSUME Init PROVE LateInv
  OBVIOUS
<1>1. late = {}
  BY DEF Init
<1>2. QED
  BY <1>1 DEF LateInv, ProjectsAreSpared

LEMMA LateBegin ==
  ASSUME BasicInv, AuthorsInv, LateInv, NEW p \in Processes, job[p] = NoJob,
         NEW c \in Programs, job' = [job EXCEPT ![p] = Begun(c)], Late(p, c),
         UNCHANGED <<disk, next>>
  PROVE  LateInv'
<1>1. /\ job'[p] = Begun(c) /\ Begun(c).todo = c
      /\ \A q \in Processes \ {p} : job'[q] = job[q]
  BY BeginType, ProgramFacts
<1>2. Unheard(Me(p))
  BY UnheardMe
<1>3. \A q \in Processes : Me(q)' = Me(q)
  BY DEF Me
<1>4. late' \subseteq late \cup {Me(p)} /\ (late' # late => disk[Config] # Absent)
  BY DEF Late
<1>5. late' # {} => disk'[Config] # Absent
  BY <1>4 DEF LateInv
<1>6. Me(p)' \in late' => AsksFirst(c)
  BY <1>2, <1>3, InitFacts DEF Late, Unheard
<1>7. ASSUME NEW q \in Processes, job'[q].state = "running", Me(q)' \in late'
      PROVE  AsksFirst(job'[q].todo)
  <2>1. CASE q = p
    BY <1>1, <1>6, <1>7, <2>1
  <2>2. CASE q # p
    <3>1. Me(q) \in late
      BY <1>3, <1>4, <1>7, <2>2, MeFacts
    <3>2. QED
      BY <1>1, <1>7, <2>2, <3>1 DEF LateInv
  <2>3. QED
    BY <2>1, <2>2
<1>8. ProjectsAreSpared'
  BY <1>2, <1>4 DEF LateInv, ProjectsAreSpared, Unheard
<1>9. Nobody \notin late'
  BY <1>4, MeIsSomebody DEF LateInv
<1>10. QED
  BY <1>5, <1>7, <1>8, <1>9 DEF LateInv

\* Who has still to ask does not write now, and asks now or later.
LEMMA AsksFirstTail ==
  ASSUME BasicInv, NEW p \in Processes, job[p].todo # <<>>, AsksFirst(job[p].todo)
  PROVE  /\ Now(p).op \notin Writes
         /\ (Now(p).op = "fresh" /\ File(p) = Config) \/ AsksFirst(Tail(job[p].todo))
<1>1. PICK j \in DOMAIN job[p].todo :
        /\ job[p].todo[j].op = "fresh" /\ job[p].todo[j].path = Config
        /\ \A k \in 1 .. (j - 1) : job[p].todo[k].op \notin Writes
  BY DEF AsksFirst
<1>2. /\ Now(p) = job[p].todo[1]
      /\ j \in 1 .. Len(job[p].todo) /\ Len(job[p].todo) \in Nat \ {0}
      /\ DOMAIN Tail(job[p].todo) = 1 .. (Len(job[p].todo) - 1)
      /\ \A i \in DOMAIN Tail(job[p].todo) : Tail(job[p].todo)[i] = job[p].todo[i + 1]
  BY <1>1, NowFacts DEF BasicInv
<1>3. CASE j = 1
  BY <1>1, <1>2, <1>3 DEF File, Writes
<1>4. CASE j > 1
  <2>1. Now(p).op \notin Writes
    BY <1>1, <1>2, <1>4
  <2>2. j - 1 \in DOMAIN Tail(job[p].todo) /\ Tail(job[p].todo)[j - 1] = job[p].todo[j]
    <3>1. j - 1 \in 1 .. (Len(job[p].todo) - 1) /\ (j - 1) + 1 = j
      BY <1>2, <1>4
    <3>2. QED
      BY <1>2, <3>1
  <2>3. \A k \in 1 .. (j - 2) : Tail(job[p].todo)[k].op \notin Writes
    <3> TAKE k \in 1 .. (j - 2)
    <3>1. k \in DOMAIN Tail(job[p].todo) /\ k + 1 \in 1 .. (j - 1)
      BY <1>2, <1>4
    <3>2. QED
      BY <1>1, <1>2, <3>1
  <2>4. j - 1 - 1 = j - 2
    BY <1>2
  <2>5. AsksFirst(Tail(job[p].todo))
    BY <1>1, <2>2, <2>3, <2>4 DEF AsksFirst
  <2>6. QED
    BY <2>1, <2>5
<1>5. QED
  BY <1>2, <1>3, <1>4

\* A late init does not write, and does not get past its question.
LEMMA LateOneAsks ==
  ASSUME BasicInv, LateInv, NEW p \in Processes, job[p].state = "running",
         Me(p) \in late, job[p].todo # <<>>
  PROVE  /\ Now(p).op \notin Writes
         /\ (Advance(p) /\ Passes(p)) => AsksFirst(Tail(job[p].todo))
<1>1. AsksFirst(job[p].todo) /\ disk[Config] # Absent
  BY DEF LateInv
<1>2. /\ Now(p).op \notin Writes
      /\ (Now(p).op = "fresh" /\ File(p) = Config) \/ AsksFirst(Tail(job[p].todo))
  BY <1>1, AsksFirstTail
<1>3. QED
  BY <1>1, <1>2 DEF Passes

LEMMA LateWork ==
  ASSUME BasicInv, AuthorsInv, LateInv, NEW p \in Processes, Work(p)
  PROVE  LateInv'
<1>1. /\ job[p].state = "running" /\ (Keeps(p) \/ Puts(p) \/ Removes(p))
      /\ Passes(p)
  BY WorkShape
<1>2. /\ \A q \in Processes \ {p} : job'[q] = job[q] /\ Me(q)' = Me(q)
      /\ UNCHANGED late
      /\ job'[p].state = "running" => Me(p)' = Me(p)
  BY <1>1, NextOfOthers
<1>3. Puts(p) => Me(p) \notin late
  BY <1>1, LateOneAsks DEF Puts
<1>4. late' # {} => disk'[Config] # Absent
  BY <1>1, <1>2, PutsFacts, RemovesFacts, InitsAssumption DEF LateInv, Keeps
<1>5. ProjectsAreSpared'
  <2> SUFFICES ASSUME NEW f \in Paths PROVE disk'[f].by \notin late
    BY <1>2 DEF ProjectsAreSpared
  <2>1. disk'[f] = disk[f] \/ (Puts(p) /\ disk'[f].by = Me(p)) \/ disk'[f] = Absent
    BY <1>1, PutsFacts, RemovesFacts DEF Keeps
  <2>2. Nobody \notin late
    BY DEF LateInv
  <2>3. QED
    BY <1>3, <2>1, <2>2, AbsentType DEF LateInv, ProjectsAreSpared
<1>6. ASSUME NEW q \in Processes, job'[q].state = "running", Me(q)' \in late'
      PROVE  AsksFirst(job'[q].todo)
  <2>1. CASE q # p
    BY <1>2, <1>6, <2>1 DEF LateInv
  <2>2. CASE q = p
    <3>1. Me(p) \in late
      BY <1>2, <1>6, <2>2
    <3>2. CASE job[p].todo # <<>> /\ Advance(p)
      BY <1>1, <2>2, <3>1, <3>2, LateOneAsks, AdvanceType
    <3>3. CASE \E phase \in {"ready", "linked"} : Stay(p, phase)
      BY <1>1, <2>2, <3>1, <3>3, StayType DEF LateInv
    <3>4. CASE Ends(p)
      BY <1>1, <1>6, <2>2, <3>4, CloseType DEF Ends
    <3>5. QED
      BY <1>1, <3>2, <3>3, <3>4, GoesOn
  <2>3. QED
    BY <2>1, <2>2
<1>7. QED
  BY <1>2, <1>4, <1>5, <1>6 DEF LateInv

LEMMA LateStep == BasicInv /\ AuthorsInv /\ LateInv /\ [Next]_vars => LateInv'
<1> SUFFICES ASSUME BasicInv, AuthorsInv, LateInv, [Next]_vars PROVE LateInv'
  OBVIOUS
<1>1. CASE \E p \in Shells, c \in Commands : Type(p, c)
  <2>1. PICK p \in Shells, c \in Commands : Type(p, c)
    BY <1>1
  <2>2. p \in Processes /\ c \in Programs
    BY DEF Processes, Programs
  <2>3. QED
    BY <2>1, <2>2, LateBegin DEF Type
<1>2. CASE \E line \in Line : Send(line)
  BY <1>2 DEF Send, LateInv, ProjectsAreSpared, Me
<1>3. CASE Receive
  <2>1. /\ job[Server] = NoJob /\ Server \in Processes /\ UNCHANGED disk
        /\ next <= Len(lines)
    BY <1>3 DEF Receive, Processes
  <2>2. CASE /\ lines[next].kind = "call"
             /\ job' = [job EXCEPT ![Server] = Begun(lines[next].steps)]
             /\ Late(Server, lines[next].steps)
             /\ UNCHANGED next
    <3>1. lines[next] \in Line
      BY <2>1 DEF BasicInv, TypeOK
    <3>2. lines[next].steps \in Programs
      BY <2>2, <3>1 DEF Line, Programs
    <3>3. QED
      BY <2>1, <2>2, <3>2, LateBegin
  <2>3. CASE /\ UNCHANGED late /\ job'[Server].state # "running"
             /\ \A q \in Processes \ {Server} : job'[q] = job[q]
    <3>1. \A q \in Processes \ {Server} : Me(q)' = Me(q)
      BY DEF Me
    <3>2. ASSUME NEW q \in Processes, job'[q].state = "running", Me(q)' \in late'
          PROVE  AsksFirst(job'[q].todo)
      <4>1. q # Server
        BY <2>3, <3>2
      <4>2. job'[q] = job[q] /\ Me(q) \in late
        BY <2>3, <3>1, <3>2, <4>1
      <4>3. QED
        BY <3>2, <4>2 DEF LateInv
    <3>3. ProjectsAreSpared' /\ (late' # {} => disk'[Config] # Absent) /\ Nobody \notin late'
      BY <2>1, <2>3 DEF LateInv, ProjectsAreSpared
    <3>4. QED
      BY <3>2, <3>3 DEF LateInv
  <2>4. job[Server] \in Job /\ job \in [Processes -> Job] /\ NoJob.state # "running"
    BY <2>1, NoJobFacts DEF BasicInv, TypeOK
  <2>5. QED
    BY <1>3, <2>1, <2>2, <2>3, <2>4 DEF Receive, Answer, Job
<1>4. CASE \E p \in Processes : Work(p)
  BY <1>4, LateWork
<1>5. CASE \E p \in Processes : Die(p)
  <2>1. PICK p \in Processes : Die(p)
    BY <1>5
  <2>2. job'[p].state = "dead" /\ \A q \in Processes \ {p} : job'[q] = job[q]
    BY <2>1, DieBasic
  <2>3. UNCHANGED <<disk, next, late>>
    BY <2>1 DEF Die
  <2>4. \A q \in Processes : Me(q)' = Me(q)
    BY <2>3 DEF Me
  <2>5. QED
    BY <2>2, <2>3, <2>4 DEF LateInv, ProjectsAreSpared
<1>6. CASE UNCHANGED vars
  BY <1>6 DEF vars, LateInv, ProjectsAreSpared, Me
<1>7. QED
  BY <1>1, <1>2, <1>3, <1>4, <1>5, <1>6 DEF Next

LEMMA AuthorsInvariant == Spec => [](BasicInv /\ AuthorsInv)
<1>1. QED
  BY AuthorsInit, AuthorsStep, BasicInit, BasicStep, PTL DEF Spec

\* An init that begins in a directory with a photonic.toml writes nothing, in any
\* interleaving with other commands and tools, whoever is killed.
THEOREM LateInitsWriteNothing == Spec => []ProjectsAreSpared
<1>1. LateInv => ProjectsAreSpared
  BY DEF LateInv
<1>2. QED
  BY <1>1, LateInit, LateStep, AuthorsInvariant, PTL DEF Spec

-----------------------------------------------------------------------------
(* What was reported as written.                                           *)

\* The file holds what a request wrote, or what a later one did.
Held(f, a) ==
  \/ disk[f].by = a
  \/ f \notin Receipts /\ disk[f] # Absent /\ disk[f].by # Nobody

LinkedAt(p) ==
  /\ job[p].state = "running" /\ job[p].todo # <<>>
  /\ Now(p).op = "create" /\ job[p].phase = "linked"

LinkedIsMine ==
  \A p \in Processes : LinkedAt(p) => Now(p).may # {} /\ disk[File(p)].by = Me(p)

Progress ==
  \A p \in Processes : job[p].state = "running" =>
    \A f \in job[p].due : f \in WrittenBy(job[p].todo) \/ Held(f, Me(p))

ReportsInv ==
  /\ \A r \in reports : r.by # Nobody
  /\ LinkedIsMine
  /\ Progress
  /\ ReportsAreTrue

LEMMA ReportsInit == Init => ReportsInv
<1> SUFFICES ASSUME Init PROVE ReportsInv
  OBVIOUS
<1>1. reports = {} /\ \A p \in Processes : job[p].state # "running"
  BY NoJobFacts DEF Init
<1>2. QED
  BY <1>1 DEF ReportsInv, LinkedIsMine, LinkedAt, Progress, ReportsAreTrue

\* What a step writes is among what was left to be written.
LEMMA WrittenByTail ==
  ASSUME BasicInv, NEW p \in Processes, job[p].todo # <<>>
  PROVE  /\ \A f \in WrittenBy(job[p].todo) :
              f \in WrittenBy(Tail(job[p].todo)) \/ (f = File(p) /\ Now(p).op \in Writes)
         /\ WrittenBy(Tail(job[p].todo)) \subseteq WrittenBy(job[p].todo)
         /\ Now(p).op \in Writes => File(p) \in WrittenBy(job[p].todo)
<1>1. /\ Now(p) = job[p].todo[1] /\ Len(job[p].todo) \in Nat \ {0}
      /\ DOMAIN job[p].todo = 1 .. Len(job[p].todo)
      /\ DOMAIN Tail(job[p].todo) = 1 .. (Len(job[p].todo) - 1)
      /\ \A i \in DOMAIN Tail(job[p].todo) :
           Tail(job[p].todo)[i] = job[p].todo[i + 1] /\ i + 1 \in DOMAIN job[p].todo
  BY NowFacts DEF BasicInv
<1>2. ASSUME NEW f \in WrittenBy(job[p].todo)
      PROVE  f \in WrittenBy(Tail(job[p].todo)) \/ (f = File(p) /\ Now(p).op \in Writes)
  <2>1. PICK i \in DOMAIN job[p].todo : job[p].todo[i].op \in Writes /\ f = job[p].todo[i].path
    BY DEF WrittenBy
  <2>2. CASE i = 1
    BY <1>1, <2>1, <2>2 DEF File
  <2>3. CASE i > 1
    <3>1. i - 1 \in DOMAIN Tail(job[p].todo) /\ (i - 1) + 1 = i
      BY <1>1, <2>1, <2>3
    <3>2. Tail(job[p].todo)[i - 1] = job[p].todo[i]
      BY <1>1, <3>1
    <3>3. QED
      BY <2>1, <3>1, <3>2 DEF WrittenBy
  <2>4. QED
    BY <1>1, <2>1, <2>2, <2>3
<1>3. WrittenBy(Tail(job[p].todo)) \subseteq WrittenBy(job[p].todo)
  BY <1>1 DEF WrittenBy
<1>4. Now(p).op \in Writes => File(p) \in WrittenBy(job[p].todo)
  BY <1>1 DEF WrittenBy, File
<1>5. QED
  BY <1>2, <1>3, <1>4

\* A request loses what it holds only by a guard of its own that fails.
LEMMA HeldWork ==
  ASSUME BasicInv, LinkedIsMine, NEW p \in Processes, job[p].state = "running",
         Keeps(p) \/ Puts(p) \/ Removes(p),
         NEW f \in Paths, NEW a, a # Nobody, Held(f, a), a # Me(p) \/ ~Removes(p)
  PROVE  Held(f, a)'
<1>1. CASE Keeps(p)
  BY <1>1 DEF Keeps, Held
<1>2. CASE Puts(p) /\ f # File(p)
  BY <1>2, PutsFacts DEF Held
<1>3. CASE Puts(p) /\ f = File(p)
  <2>1. disk'[f].by = Me(p) /\ disk'[f] # Absent
    BY <1>3, PutsFacts
  <2>2. CASE f \notin Receipts
    BY <2>1, <2>2, MeIsSomebody DEF Held
  <2>3. CASE f \in Receipts
    <3>1. Now(p) \in KnownSteps /\ Now(p).op \in Writes
      BY <1>3, NowFacts DEF BasicInv, Puts
    <3>2. Now(p).op = "create"
      BY <1>3, <2>3, <3>1, KnownStepFacts DEF File, Writes
    <3>3. disk[f] = Absent
      BY <1>3, <3>2 DEF Puts
    <3>4. QED
      BY <2>3, <3>3, AbsentType DEF Held
  <2>4. QED
    BY <2>2, <2>3
<1>4. CASE Removes(p)
  <2>1. /\ File(p) \in Receipts /\ disk[File(p)].by = Me(p)
        /\ \A g \in Paths \ {File(p)} : disk'[g] = disk[g]
    BY <1>4, RemovesFacts DEF LinkedIsMine, LinkedAt, Removes
  <2>2. f # File(p)
    BY <1>4, <2>1 DEF Held
  <2>3. QED
    BY <2>1, <2>2 DEF Held
<1>5. QED
  BY <1>1, <1>2, <1>3, <1>4

LEMMA LinkedWork ==
  ASSUME BasicInv, LinkedIsMine, NEW p \in Processes, job[p].state = "running",
         Keeps(p) \/ Puts(p) \/ Removes(p)
  PROVE  LinkedIsMine'
<1>1. /\ \A q \in Processes \ {p} : job'[q] = job[q] /\ Me(q)' = Me(q)
      /\ job'[p].state = "running" => Me(p)' = Me(p)
  BY NextOfOthers
<1>2. ASSUME NEW q \in Processes, q # p, LinkedAt(q)'
      PROVE  (Now(q).may # {} /\ disk[File(q)].by = Me(q))'
  <2>1. LinkedAt(q) /\ Now(q)' = Now(q) /\ File(q)' = File(q)
    BY <1>1, <1>2 DEF LinkedAt, Now, File
  <2>2. Now(q).may # {} /\ disk[File(q)].by = Me(q)
    BY <2>1 DEF LinkedIsMine
  <2>3. Now(q) \in KnownSteps /\ Now(q).op = "create"
    BY <2>1, NowFacts DEF LinkedAt, BasicInv
  <2>4. File(q) \in Receipts /\ File(q) \in Paths
    BY <2>2, <2>3, KnownStepFacts DEF File, Writes
  <2>5. Me(q) # Nobody /\ Me(q) # Me(p)
    BY <1>2, MeIsSomebody, MeFacts
  <2>6. Held(File(q), Me(q))
    BY <2>2 DEF Held
  <2>7. disk'[File(q)].by = Me(q)
    <3>1. \A f \in Paths : Held(f, Me(q)) => (disk'[f].by = Me(q) \/ f \notin Receipts)
      BY <2>5, HeldWork DEF Held
    <3>2. QED
      BY <2>4, <2>6, <3>1
  <2>8. QED
    BY <1>1, <1>2, <2>1, <2>2, <2>7
<1>3. ASSUME LinkedAt(p)'
      PROVE  (Now(p).may # {} /\ disk[File(p)].by = Me(p))'
  <2>1. job'[p].state = "running" /\ job'[p].phase = "linked"
    BY <1>3 DEF LinkedAt
  <2>2. ~Ends(p)
    BY <2>1, CloseType DEF Ends
  <2>3. ~(job[p].todo # <<>> /\ Advance(p))
    BY <2>1, AdvanceType
  <2>4. ~Stay(p, "ready")
    BY <2>1, StayType
  <2>5. Puts(p) /\ Now(p).op = "create" /\ Now(p).may # {} /\ Stay(p, "linked")
    BY <2>2, <2>3, <2>4 DEF Keeps, Removes, Puts, Spoils
  <2>6. Now(p)' = Now(p) /\ File(p)' = File(p)
    BY <2>5, StayType DEF Now, File
  <2>7. QED
    BY <1>1, <2>1, <2>5, <2>6, PutsFacts
<1>4. QED
  BY <1>2, <1>3 DEF LinkedIsMine

LEMMA ProgressWork ==
  ASSUME BasicInv, ReportsInv, NEW p \in Processes, job[p].state = "running",
         Keeps(p) \/ Puts(p) \/ Removes(p)
  PROVE  Progress'
<1>1. /\ \A q \in Processes \ {p} : job'[q] = job[q] /\ Me(q)' = Me(q)
      /\ job'[p].state = "running" => Me(p)' = Me(p)
  BY NextOfOthers
<1>2. \A q \in Processes : job[q].due \subseteq Paths
  BY DEF BasicInv, TypeOK, Job
<1>3. ASSUME NEW q \in Processes, q # p, job'[q].state = "running", NEW f \in job'[q].due
      PROVE  f \in WrittenBy(job'[q].todo) \/ Held(f, Me(q))'
  <2>1. job'[q] = job[q] /\ Me(q)' = Me(q) /\ f \in Paths
    BY <1>1, <1>2, <1>3
  <2>2. f \in WrittenBy(job[q].todo) \/ Held(f, Me(q))
    BY <1>3, <2>1 DEF ReportsInv, Progress
  <2>3. Me(q) # Nobody /\ Me(q) # Me(p)
    BY <1>3, MeIsSomebody, MeFacts
  <2>4. \A a : (a # Nobody /\ a # Me(p) /\ Held(f, a)) =>
          (disk'[f].by = a \/ (f \notin Receipts /\ disk'[f] # Absent /\ disk'[f].by # Nobody))
    BY <2>1, HeldWork DEF ReportsInv, Held
  <2>5. QED
    BY <2>1, <2>2, <2>3, <2>4 DEF Held
<1>4. ASSUME job'[p].state = "running", NEW f \in job'[p].due
      PROVE  f \in WrittenBy(job'[p].todo) \/ Held(f, Me(p))'
  <2>1. ~Ends(p) /\ ~Removes(p)
    BY <1>4, CloseType DEF Ends, Removes
  <2>2. job'[p].due = job[p].due
    BY <2>1, GoesOn, AdvanceType, StayType
  <2>3. f \in Paths /\ (f \in WrittenBy(job[p].todo) \/ Held(f, Me(p)))
    BY <1>2, <1>4, <2>2 DEF ReportsInv, Progress
  <2>4. Held(f, Me(p)) => Held(f, Me(p))'
    <3>1. \A a : (a # Nobody /\ Held(f, a)) =>
            (disk'[f].by = a \/ (f \notin Receipts /\ disk'[f] # Absent /\ disk'[f].by # Nobody))
      BY <2>1, <2>3, HeldWork DEF ReportsInv, Held
    <3>2. Me(p)' = Me(p)
      BY <1>1, <1>4
    <3>3. QED
      BY <3>1, <3>2, MeIsSomebody DEF Held
  <2>5. CASE f \in WrittenBy(job[p].todo) /\ job[p].todo # <<>> /\ Advance(p)
    <3>1. job'[p].todo = Tail(job[p].todo)
      BY <2>5, AdvanceType
    <3>2. f \in WrittenBy(job'[p].todo) \/ (f = File(p) /\ Now(p).op \in Writes)
      BY <2>5, <3>1, WrittenByTail
    <3>3. CASE f = File(p) /\ Puts(p)
      BY <1>1, <1>4, <3>3, PutsFacts DEF Held
    <3>4. CASE f = File(p) /\ Now(p).op \in Writes /\ Keeps(p)
      <4>1. ~Stay(p, "ready") /\ job[p].todo # <<>>
        <5>1. Len(Tail(job[p].todo)) # Len(job[p].todo)
          BY <2>5, NowFacts DEF BasicInv
        <5>2. QED
          BY <2>5, <3>1, <5>1, StayType
      <4>2. LinkedAt(p)
        BY <2>1, <3>4, <4>1 DEF Keeps, LinkedAt
      <4>3. disk'[f].by = Me(p)
        BY <3>4, <4>2 DEF Keeps, ReportsInv, LinkedIsMine
      <4>4. QED
        BY <1>1, <1>4, <4>3 DEF Held
    <3>5. QED
      BY <2>1, <3>2, <3>3, <3>4
  <2>6. CASE f \in WrittenBy(job[p].todo) /\ \E phase \in {"ready", "linked"} : Stay(p, phase)
    BY <2>6, StayType
  <2>7. QED
    BY <2>1, <2>3, <2>4, <2>5, <2>6, GoesOn
<1>5. QED
  BY <1>3, <1>4 DEF Progress

\* What is reported as written was written to the last step.
LEMMA TruthWork ==
  ASSUME BasicInv, AuthorsInv, ReportsInv, NEW p \in Processes, job[p].state = "running",
         Keeps(p) \/ Puts(p) \/ Removes(p)
  PROVE  ReportsAreTrue' /\ \A r \in reports' : r.by # Nobody
<1>1. \A r \in reports : r.due \subseteq Paths
  BY DEF BasicInv, TypeOK, Report
<1>2. ASSUME NEW r \in reports, r.why = "ok", NEW f \in r.due
      PROVE  Held(f, r.by)'
  <2>1. Held(f, r.by) /\ r.by # Nobody /\ r.by # Me(p) /\ f \in Paths
    BY <1>1, <1>2 DEF ReportsInv, ReportsAreTrue, Held, AuthorsInv
  <2>2. \A a : (a # Nobody /\ a # Me(p) /\ Held(f, a)) =>
          (disk'[f].by = a \/ (f \notin Receipts /\ disk'[f] # Absent /\ disk'[f].by # Nobody))
    BY <2>1, HeldWork DEF ReportsInv, Held
  <2>3. QED
    BY <2>1, <2>2 DEF Held
<1>3. CASE Ends(p)
  <2>1. PICK why \in Refusals \cup {"ok"}, spoilt \in BOOLEAN :
          Close(p, why, spoilt) /\ (why = "ok" => job[p].todo = <<>>)
    BY <1>3 DEF Ends
  <2>2. reports' = reports \cup
                   {[by |-> Me(p), why |-> why, due |-> job[p].due, spoilt |-> spoilt]}
    BY <2>1, CloseType
  <2>3. ASSUME why = "ok", NEW f \in job[p].due
        PROVE  disk'[f].by = Me(p)
               \/ (f \notin Receipts /\ disk'[f] # Absent /\ disk'[f].by # Nobody)
    <3>1. job[p].todo = <<>>
      BY <2>1, <2>3
    <3>2. f \notin WrittenBy(job[p].todo)
      BY <3>1 DEF WrittenBy
    <3>3. Held(f, Me(p))
      BY <2>3, <3>2 DEF ReportsInv, Progress
    <3>4. disk' = disk
      BY <3>1 DEF Keeps, Puts, Removes
    <3>5. QED
      BY <3>3, <3>4 DEF Held
  <2>4. QED
    BY <1>2, <2>2, <2>3, MeIsSomebody DEF ReportsInv, ReportsAreTrue, Held
<1>4. CASE ~Ends(p)
  <2>1. job'[p].state = "running"
    BY <1>4, GoesOn, AdvanceType, StayType
  <2>2. reports' = reports
    BY <2>1, NextOfOthers
  <2>3. QED
    BY <1>2, <2>2 DEF ReportsInv, ReportsAreTrue, Held
<1>5. QED
  BY <1>3, <1>4

LEMMA ReportsWork ==
  ASSUME BasicInv, AuthorsInv, ReportsInv, NEW p \in Processes, Work(p)
  PROVE  ReportsInv'
<1>1. job[p].state = "running" /\ (Keeps(p) \/ Puts(p) \/ Removes(p))
  BY WorkShape
<1>2. LinkedIsMine'
  BY <1>1, LinkedWork DEF ReportsInv
<1>3. QED
  BY <1>1, <1>2, ProgressWork, TruthWork DEF ReportsInv

\* The steps that touch no file and finish no request.
LEMMA ReportsKept ==
  ASSUME BasicInv, ReportsInv, UNCHANGED <<disk, reports>>,
         \A q \in Processes : job'[q].state = "running" =>
           \/ job'[q] = job[q] /\ Me(q)' = Me(q)
           \/ \E c \in Programs : job'[q] = Begun(c)
  PROVE  ReportsInv'
<1>1. LinkedIsMine'
  <2> SUFFICES ASSUME NEW q \in Processes, LinkedAt(q)'
               PROVE  (Now(q).may # {} /\ disk[File(q)].by = Me(q))'
    BY DEF LinkedIsMine
  <2>1. job'[q].state = "running" /\ job'[q].phase = "linked"
    BY DEF LinkedAt
  <2>2. job'[q] = job[q] /\ Me(q)' = Me(q)
    BY <2>1, ProgramFacts
  <2>3. LinkedAt(q) /\ Now(q)' = Now(q) /\ File(q)' = File(q)
    BY <2>2 DEF LinkedAt, Now, File
  <2>4. QED
    BY <2>2, <2>3 DEF ReportsInv, LinkedIsMine
<1>2. Progress'
  <2> SUFFICES ASSUME NEW q \in Processes, job'[q].state = "running", NEW f \in job'[q].due
               PROVE  f \in WrittenBy(job'[q].todo) \/ Held(f, Me(q))'
    BY DEF Progress
  <2>1. CASE \E c \in Programs : job'[q] = Begun(c)
    BY <2>1, ProgramFacts
  <2>2. CASE job'[q] = job[q] /\ Me(q)' = Me(q)
    BY <2>2 DEF ReportsInv, Progress, Held
  <2>3. QED
    BY <2>1, <2>2
<1>3. QED
  BY <1>1, <1>2 DEF ReportsInv, ReportsAreTrue

\* What the steps outside the programs do to the jobs.
LEMMA OutsideWork ==
  ASSUME BasicInv, [Next]_vars, ~\E p \in Processes : Work(p)
  PROVE  /\ UNCHANGED <<disk, reports>>
         /\ \A q \in Processes : job'[q].state = "running" =>
              \/ job'[q] = job[q] /\ Me(q)' = Me(q)
              \/ /\ job[q] = NoJob /\ Me(q)' = Me(q)
                 /\ \E c \in Programs : job'[q] = Begun(c)
<1>1. CASE \E p \in Shells, c \in Commands : Type(p, c)
  <2>1. PICK p \in Shells, c \in Commands : Type(p, c)
    BY <1>1
  <2>2. p \in Processes /\ c \in Programs
    BY DEF Processes, Programs
  <2>3. job'[p] = Begun(c) /\ \A q \in Processes \ {p} : job'[q] = job[q]
    BY <2>1, <2>2, BeginType DEF Type
  <2>4. UNCHANGED <<disk, reports>> /\ job[p] = NoJob /\ \A q : Me(q)' = Me(q)
    BY <2>1 DEF Type, Me
  <2>5. QED
    BY <2>2, <2>3, <2>4
<1>2. CASE \E line \in Line : Send(line)
  BY <1>2 DEF Send, Me
<1>3. CASE Receive
  <2>1. /\ job[Server] = NoJob /\ Server \in Processes /\ UNCHANGED <<disk, reports>>
        /\ next <= Len(lines)
    BY <1>3 DEF Receive, Processes
  <2>2. \A q \in Processes \ {Server} : Me(q)' = Me(q)
    BY DEF Me
  <2>3. CASE /\ lines[next].kind = "call" /\ UNCHANGED next
             /\ job' = [job EXCEPT ![Server] = Begun(lines[next].steps)]
    <3>1. lines[next] \in Line
      BY <2>1 DEF BasicInv, TypeOK
    <3>2. lines[next].steps \in Programs
      BY <2>3, <3>1 DEF Line, Programs
    <3>3. /\ job'[Server] = Begun(lines[next].steps)
          /\ \A q \in Processes \ {Server} : job'[q] = job[q]
      BY <2>1, <2>3, <3>2, BeginType
    <3>4. Me(Server)' = Me(Server)
      BY <2>3 DEF Me
    <3>5. QED
      BY <2>1, <2>2, <3>2, <3>3, <3>4
  <2>4. CASE job'[Server].state # "running" /\ \A q \in Processes \ {Server} : job'[q] = job[q]
    BY <2>1, <2>2, <2>4
  <2>5. job[Server] \in Job /\ job \in [Processes -> Job] /\ NoJob.state # "running"
    BY <2>1, NoJobFacts DEF BasicInv, TypeOK
  <2>6. QED
    BY <1>3, <2>1, <2>3, <2>4, <2>5 DEF Receive, Answer, Job
<1>4. CASE \E p \in Processes : Die(p)
  <2>1. PICK p \in Processes : Die(p)
    BY <1>4
  <2>2. job'[p].state = "dead" /\ \A q \in Processes \ {p} : job'[q] = job[q]
    BY <2>1, DieBasic
  <2>3. UNCHANGED <<disk, reports, next>>
    BY <2>1 DEF Die
  <2>4. QED
    BY <2>2, <2>3 DEF Me
<1>5. CASE UNCHANGED vars
  BY <1>5 DEF vars, Me
<1>6. QED
  BY <1>1, <1>2, <1>3, <1>4, <1>5 DEF Next

LEMMA ReportsStep == BasicInv /\ AuthorsInv /\ ReportsInv /\ [Next]_vars => ReportsInv'
<1> SUFFICES ASSUME BasicInv, AuthorsInv, ReportsInv, [Next]_vars PROVE ReportsInv'
  OBVIOUS
<1>1. CASE \E p \in Processes : Work(p)
  BY <1>1, ReportsWork
<1>2. CASE ~\E p \in Processes : Work(p)
  BY <1>2, OutsideWork, ReportsKept
<1>3. QED
  BY <1>1, <1>2

\* A request that told of success has written all it was to write, and what it
\* created and another one cannot replace is still its own (write_contract_json,
\* the rendering of recipes, the circuit builders).
THEOREM SuccessIsOnDisk == Spec => []ReportsAreTrue
<1>1. ReportsInv => ReportsAreTrue
  BY DEF ReportsInv
<1>2. QED
  BY <1>1, ReportsInit, ReportsStep, AuthorsInvariant, PTL DEF Spec

-----------------------------------------------------------------------------
(* What was refused.                                                       *)

\* After its one write a program only verifies.
Tidy(todo) ==
  \A i \in DOMAIN todo : todo[i].op \in Writes =>
    \A j \in DOMAIN todo : j > i => todo[j].op = "verify" /\ todo[j].path = todo[i].path

OnlyVerifies(todo, f) == \A i \in DOMAIN todo : todo[i].op = "verify" /\ todo[i].path = f

\* A process that has one file to write has written it only if its guard, or the
\* check of what was written, is all that can still refuse.
Quiet(p) ==
  Single(job[p].due) =>
    /\ Tidy(job[p].todo)
    /\ \A f \in Paths : disk[f].by = Me(p) =>
         (LinkedAt(p) /\ File(p) = f) \/ OnlyVerifies(job[p].todo, f)

RefusalInv ==
  /\ \A p \in Processes : job[p].state = "running" =>
       WrittenBy(job[p].todo) \subseteq job[p].due /\ Quiet(p)
  /\ RefusalLeavesNothing

LEMMA RefusalInit == Init => RefusalInv
<1> SUFFICES ASSUME Init PROVE RefusalInv
  OBVIOUS
<1>1. reports = {} /\ \A p \in Processes : job[p].state # "running"
  BY NoJobFacts DEF Init
<1>2. QED
  BY <1>1 DEF RefusalInv, RefusalLeavesNothing

LEMMA TidyTail ==
  ASSUME BasicInv, NEW p \in Processes, job[p].todo # <<>>
  PROVE  /\ Tidy(job[p].todo) => Tidy(Tail(job[p].todo))
         /\ \A f : OnlyVerifies(job[p].todo, f) =>
              /\ OnlyVerifies(Tail(job[p].todo), f)
              /\ Now(p).op = "verify" /\ File(p) = f
         /\ (Tidy(job[p].todo) /\ Now(p).op \in Writes) =>
              OnlyVerifies(Tail(job[p].todo), File(p))
<1>1. /\ Now(p) = job[p].todo[1] /\ Len(job[p].todo) \in Nat \ {0}
      /\ DOMAIN job[p].todo = 1 .. Len(job[p].todo)
      /\ DOMAIN Tail(job[p].todo) = 1 .. (Len(job[p].todo) - 1)
      /\ \A i \in DOMAIN Tail(job[p].todo) :
           Tail(job[p].todo)[i] = job[p].todo[i + 1] /\ i + 1 \in DOMAIN job[p].todo
  BY NowFacts DEF BasicInv
<1>2. 1 \in DOMAIN job[p].todo
  BY <1>1
<1>3. Tidy(job[p].todo) => Tidy(Tail(job[p].todo))
  <2> SUFFICES ASSUME Tidy(job[p].todo),
                      NEW i \in DOMAIN Tail(job[p].todo), NEW j \in DOMAIN Tail(job[p].todo),
                      Tail(job[p].todo)[i].op \in Writes, j > i
               PROVE  /\ Tail(job[p].todo)[j].op = "verify"
                      /\ Tail(job[p].todo)[j].path = Tail(job[p].todo)[i].path
    BY DEF Tidy
  <2>1. i + 1 \in DOMAIN job[p].todo /\ j + 1 \in DOMAIN job[p].todo /\ j + 1 > i + 1
    BY <1>1
  <2>2. /\ Tail(job[p].todo)[i] = job[p].todo[i + 1]
        /\ Tail(job[p].todo)[j] = job[p].todo[j + 1]
    BY <1>1
  <2>3. job[p].todo[i + 1].op \in Writes
    BY <2>2
  <2>4. /\ job[p].todo[j + 1].op = "verify"
        /\ job[p].todo[j + 1].path = job[p].todo[i + 1].path
    BY <2>1, <2>3 DEF Tidy
  <2>5. QED
    BY <2>2, <2>4
<1>4. \A f : OnlyVerifies(job[p].todo, f) =>
        OnlyVerifies(Tail(job[p].todo), f) /\ Now(p).op = "verify" /\ File(p) = f
  BY <1>1, <1>2 DEF OnlyVerifies, File
<1>5. ASSUME Tidy(job[p].todo), Now(p).op \in Writes, NEW i \in DOMAIN Tail(job[p].todo)
      PROVE  Tail(job[p].todo)[i].op = "verify" /\ Tail(job[p].todo)[i].path = File(p)
  <2>1. i + 1 \in DOMAIN job[p].todo /\ i + 1 > 1
    BY <1>1
  <2>2. QED
    BY <1>1, <1>2, <1>5, <2>1 DEF Tidy, File
<1>6. QED
  BY <1>3, <1>4, <1>5 DEF OnlyVerifies

\* Who is the author of a file after a step of a program.
LEMMA AuthorAfter ==
  ASSUME BasicInv, NEW p \in Processes, job[p].state = "running",
         Keeps(p) \/ Puts(p) \/ Removes(p), NEW f \in Paths
  PROVE  \/ disk'[f] = disk[f]
         \/ f = File(p) /\ Puts(p) /\ disk'[f].by = Me(p)
         \/ f = File(p) /\ Removes(p) /\ disk'[f].by = Nobody
BY PutsFacts, RemovesFacts, AbsentType DEF Keeps

LEMMA QuietWork ==
  ASSUME BasicInv, RefusalInv, NEW p \in Processes, job[p].state = "running",
         Keeps(p) \/ Puts(p) \/ Removes(p), job'[p].state = "running"
  PROVE  WrittenBy(job'[p].todo) \subseteq job'[p].due /\ Quiet(p)'
<1>1. /\ WrittenBy(job[p].todo) \subseteq job[p].due /\ Quiet(p)
      /\ Me(p)' = Me(p)
  BY NextOfOthers DEF RefusalInv
<1>2. ~Ends(p) /\ ~Removes(p)
  BY CloseType DEF Ends, Removes
<1>3. CASE job[p].todo # <<>> /\ Advance(p)
  <2>1. /\ job'[p].todo = Tail(job[p].todo) /\ job'[p].due = job[p].due
        /\ job'[p].phase = "start"
    BY <1>3, AdvanceType
  <2>2. WrittenBy(job'[p].todo) \subseteq job'[p].due
    BY <1>1, <1>3, <2>1, WrittenByTail
  <2>3. ASSUME Single(job[p].due), NEW f \in Paths, disk'[f].by = Me(p)
        PROVE  OnlyVerifies(Tail(job[p].todo), f)
    <3>1. Tidy(job[p].todo)
      BY <1>1, <2>3 DEF Quiet
    <3>2. CASE Puts(p) /\ f = File(p)
      BY <1>3, <3>1, <3>2, TidyTail DEF Puts
    <3>3. CASE disk'[f] = disk[f]
      <4>1. (LinkedAt(p) /\ File(p) = f) \/ OnlyVerifies(job[p].todo, f)
        BY <1>1, <2>3, <3>3 DEF Quiet
      <4>2. QED
        BY <1>3, <3>1, <4>1, TidyTail DEF LinkedAt, Writes
    <3>4. QED
      BY <1>2, <3>2, <3>3, AuthorAfter
  <2>4. Quiet(p)'
    <3>1. Single(job[p].due) => Tidy(Tail(job[p].todo))
      BY <1>1, <1>3, TidyTail DEF Quiet
    <3>2. QED
      BY <1>1, <2>1, <2>3, <3>1 DEF Quiet
  <2>5. QED
    BY <2>2, <2>4
<1>4. CASE \E phase \in {"ready", "linked"} : Stay(p, phase)
  <2>1. PICK phase \in {"ready", "linked"} : Stay(p, phase)
    BY <1>4
  <2>2. /\ job'[p].todo = job[p].todo /\ job'[p].due = job[p].due
        /\ job'[p].phase = phase
    BY <2>1, StayType
  <2>3. ~(job[p].todo # <<>> /\ Advance(p))
    <3>1. job[p].todo # <<>> => Len(Tail(job[p].todo)) # Len(job[p].todo)
      BY NowFacts DEF BasicInv
    <3>2. QED
      BY <2>2, <3>1, AdvanceType
  <2>4. /\ job[p].todo # <<>> /\ Now(p).op \in Writes
        /\ Keeps(p) => job[p].phase = "start"
        /\ Puts(p) => Now(p).op = "overwrite" \/ (Now(p).op = "create" /\ phase = "linked")
    <3>1. Stay(p, "ready") => phase = "ready"
      BY <2>2, StayType
    <3>2. Stay(p, "linked") => phase = "linked"
      BY <2>2, StayType
    <3>3. QED
      BY <1>2, <2>3, <3>1, <3>2 DEF Keeps, Puts, Spoils, Writes
  <2>5. ASSUME Single(job[p].due), NEW f \in Paths, disk'[f].by = Me(p)
        PROVE  (LinkedAt(p) /\ File(p) = f)'
    <3>1. disk'[f] = disk[f] => (LinkedAt(p) /\ File(p) = f)
      <4>1. \A g : ~OnlyVerifies(job[p].todo, g)
        BY <2>4, TidyTail DEF Writes
      <4>2. QED
        BY <1>1, <2>5, <4>1 DEF Quiet
    <3>2. ~(disk'[f] = disk[f] /\ Keeps(p))
      BY <2>4, <3>1 DEF LinkedAt
    <3>3. Puts(p) /\ f = File(p)
      <4>1. Puts(p)
        BY <1>2, <3>2 DEF Keeps
      <4>2. QED
        BY <3>1, <4>1, <1>2, AuthorAfter
    <3>4. Now(p) \in KnownSteps /\ File(p) \in AtomicFiles
      <4>1. Now(p) \in KnownSteps
        BY <2>4, NowFacts DEF BasicInv
      <4>2. File(p) \in job[p].due
        BY <1>1, <2>4, WrittenByTail
      <4>3. QED
        BY <2>5, <4>1, <4>2 DEF Single
    <3>5. Now(p).op = "create" /\ phase = "linked"
      BY <2>4, <3>3, <3>4, KnownStepFacts DEF File
    <3>6. Now(p)' = Now(p) /\ File(p)' = File(p)
      BY <2>2 DEF Now, File
    <3>7. QED
      BY <2>2, <2>4, <3>3, <3>5, <3>6 DEF LinkedAt
  <2>6. QED
    BY <1>1, <2>2, <2>5 DEF Quiet
<1>5. QED
  BY <1>2, <1>3, <1>4, GoesOn

\* A request that ends with a refusal has nothing on the disk.
LEMMA RefusedLeavesNothing ==
  ASSUME BasicInv, AuthorsInv, RefusalInv, NEW p \in Processes, job[p].state = "running",
         Keeps(p) \/ Puts(p) \/ Removes(p),
         NEW why \in Refusals, End(p, why), Refuses(p),
         Single(job[p].due), NEW f \in Paths
  PROVE  disk'[f].by # Me(p)
<1>1. SUFFICES ASSUME disk'[f].by = Me(p) PROVE FALSE
  OBVIOUS
<1>2. job'[p].state # "running"
  BY EndType
<1>3. ~Puts(p)
  <2>1. ~Spoils(p)
    <3>1. SUFFICES ASSUME NEW other \in Refusals, Spoil(p, other) PROVE FALSE
      BY DEF Spoils
    <3>2. /\ reports' = reports \cup
                         {[by |-> Me(p), why |-> why, due |-> job[p].due, spoilt |-> FALSE]}
          /\ reports' = reports \cup
                         {[by |-> Me(p), why |-> other, due |-> job[p].due, spoilt |-> TRUE]}
      BY <3>1, CloseType DEF End, Spoil
    <3>3. [by |-> Me(p), why |-> why, due |-> job[p].due, spoilt |-> FALSE] \in reports
      BY <3>2
    <3>4. QED
      BY <3>3 DEF AuthorsInv
  <2>2. QED
    BY <1>2, <2>1, AdvanceType, StayType DEF Puts
<1>4. disk'[f] = disk[f]
  BY <1>1, <1>3, AuthorAfter, MeIsSomebody
<1>5. (LinkedAt(p) /\ File(p) = f) \/ OnlyVerifies(job[p].todo, f)
  BY <1>1, <1>4 DEF RefusalInv, Quiet
<1>6. CASE Keeps(p)
  <2>1. ~(LinkedAt(p) /\ File(p) = f)
    <3>1. LinkedAt(p) /\ File(p) = f => disk' = [disk EXCEPT ![f] = Absent]
      BY DEF LinkedAt, Refuses
    <3>2. disk \in [Paths -> Content]
      BY DEF BasicInv, TypeOK
    <3>3. QED
      BY <1>1, <3>1, <3>2, AbsentType, MeIsSomebody
  <2>2. Now(p).op = "verify" /\ File(p) = f
    BY <1>5, <2>1, TidyTail DEF Refuses
  <2>3. QED
    BY <1>1, <1>4, <2>2 DEF Refuses
<1>7. CASE Removes(p)
  <2>1. Now(p).op = "create" /\ disk'[File(p)].by = Nobody
    BY <1>7, RemovesFacts, AbsentType DEF Removes
  <2>2. File(p) = f
    BY <1>5, <2>1, TidyTail DEF Refuses
  <2>3. QED
    BY <1>1, <2>1, <2>2, MeIsSomebody
<1>8. QED
  BY <1>3, <1>6, <1>7

LEMMA RefusalWork ==
  ASSUME BasicInv, AuthorsInv, ReportsInv, RefusalInv, NEW p \in Processes, Work(p)
  PROVE  RefusalInv'
<1>1. job[p].state = "running" /\ (Keeps(p) \/ Puts(p) \/ Removes(p))
  BY WorkShape
<1>2. /\ \A q \in Processes \ {p} : job'[q] = job[q] /\ Me(q)' = Me(q)
      /\ job'[p].state = "running" => UNCHANGED reports
  BY <1>1, NextOfOthers
<1>3. ASSUME NEW q \in Processes, job'[q].state = "running"
      PROVE  WrittenBy(job'[q].todo) \subseteq job'[q].due /\ Quiet(q)'
  <2>1. CASE q = p
    BY <1>1, <1>3, <2>1, QuietWork
  <2>2. CASE q # p
    <3>1. /\ job'[q] = job[q] /\ Me(q)' = Me(q) /\ Me(q) # Me(p) /\ Me(q) # Nobody
          /\ WrittenBy(job[q].todo) \subseteq job[q].due /\ Quiet(q)
      BY <1>2, <1>3, <2>2, MeFacts, MeIsSomebody DEF RefusalInv
    <3>2. \A f \in Paths : disk'[f].by = Me(q) => disk[f].by = Me(q)
      BY <1>1, <3>1, AuthorAfter
    <3>3. (LinkedAt(q) => LinkedAt(q)') /\ File(q)' = File(q)
      BY <3>1 DEF LinkedAt, Now, File
    <3>4. ASSUME Single(job[q].due)
          PROVE  /\ Tidy(job[q].todo)
                 /\ \A f \in Paths : disk'[f].by = Me(q)' =>
                      (LinkedAt(q)' /\ File(q)' = f) \/ OnlyVerifies(job[q].todo, f)
      BY <3>1, <3>2, <3>3, <3>4 DEF Quiet
    <3>5. QED
      BY <3>1, <3>4 DEF Quiet
  <2>3. QED
    BY <2>1, <2>2
<1>4. ASSUME NEW r \in reports, r.why # "ok", ~r.spoilt, Single(r.due), NEW f \in Paths
      PROVE  disk'[f].by # r.by
  <2>1. r.by # Me(p) /\ r.by # Nobody /\ disk[f].by # r.by
    BY <1>1, <1>4 DEF AuthorsInv, ReportsInv, RefusalInv, RefusalLeavesNothing
  <2>2. QED
    BY <1>1, <2>1, AuthorAfter
<1>5. RefusalLeavesNothing'
  <2>1. CASE Ends(p)
    <3>1. PICK why \in Refusals \cup {"ok"}, spoilt \in BOOLEAN :
            Close(p, why, spoilt) /\ ((why # "ok" /\ ~spoilt) => Refuses(p))
      BY <2>1 DEF Ends
    <3>2. reports' = reports \cup
                     {[by |-> Me(p), why |-> why, due |-> job[p].due, spoilt |-> spoilt]}
      BY <1>1, <3>1, CloseType
    <3>3. ASSUME why # "ok", ~spoilt, Single(job[p].due), NEW f \in Paths
          PROVE  disk'[f].by # Me(p)
      <4>1. why \in Refusals /\ End(p, why) /\ Refuses(p)
        BY <3>1, <3>3 DEF End
      <4>2. QED
        BY <1>1, <3>3, <4>1, RefusedLeavesNothing
    <3>4. QED
      BY <1>4, <3>2, <3>3 DEF RefusalLeavesNothing
  <2>2. CASE ~Ends(p)
    <3>1. reports' = reports
      BY <1>1, <1>2, <2>2, GoesOn, AdvanceType, StayType
    <3>2. QED
      BY <1>4, <3>1 DEF RefusalLeavesNothing
  <2>3. QED
    BY <2>1, <2>2
<1>6. QED
  BY <1>3, <1>5 DEF RefusalInv

LEMMA RefusalOutside ==
  ASSUME BasicInv, AuthorsInv, RefusalInv, UNCHANGED <<disk, reports>>,
         \A q \in Processes : job'[q].state = "running" =>
           \/ job'[q] = job[q] /\ Me(q)' = Me(q)
           \/ /\ job[q] = NoJob /\ Me(q)' = Me(q)
              /\ \E c \in Programs : job'[q] = Begun(c)
  PROVE  RefusalInv'
<1>1. ASSUME NEW q \in Processes, job'[q].state = "running"
      PROVE  WrittenBy(job'[q].todo) \subseteq job'[q].due /\ Quiet(q)'
  <2>1. CASE job[q] = NoJob /\ Me(q)' = Me(q) /\ \E c \in Programs : job'[q] = Begun(c)
    <3>1. PICK c \in Programs : job'[q] = Begun(c)
      BY <2>1
    <3>2. job'[q].todo = c /\ job'[q].due = WrittenBy(c)
      BY <3>1, ProgramFacts
    <3>3. Single(WrittenBy(c)) => Tidy(c)
      BY SingleWritesAssumption DEF Tidy
    <3>4. \A f \in Paths : disk'[f].by # Me(q)'
      BY <2>1, UnheardMe DEF Unheard
    <3>5. QED
      BY <3>2, <3>3, <3>4 DEF Quiet
  <2>2. CASE job'[q] = job[q] /\ Me(q)' = Me(q)
    <3>1. LinkedAt(q)' = LinkedAt(q) /\ File(q)' = File(q)
      BY <2>2 DEF LinkedAt, Now, File
    <3>2. WrittenBy(job[q].todo) \subseteq job[q].due /\ Quiet(q)
      BY <1>1, <2>2 DEF RefusalInv
    <3>3. QED
      BY <2>2, <3>1, <3>2 DEF Quiet
  <2>3. QED
    BY <1>1, <2>1, <2>2
<1>2. QED
  BY <1>1 DEF RefusalInv, RefusalLeavesNothing

LEMMA RefusalStep ==
  BasicInv /\ AuthorsInv /\ ReportsInv /\ RefusalInv /\ [Next]_vars => RefusalInv'
<1> SUFFICES ASSUME BasicInv, AuthorsInv, ReportsInv, RefusalInv, [Next]_vars
             PROVE  RefusalInv'
  OBVIOUS
<1>1. CASE \E p \in Processes : Work(p)
  BY <1>1, RefusalWork
<1>2. CASE ~\E p \in Processes : Work(p)
  BY <1>2, OutsideWork, RefusalOutside
<1>3. QED
  BY <1>1, <1>2

\* A request that is refused and had one contract or artifact to write has left
\* nothing of its own: the temporary file, the guard before the link, the one after
\* it that removes what was linked, and the digest check of the writers together.
\* Only what fails after the file had its name, an unlink, the digest, the telling,
\* leaves the file of a refused request.
THEOREM RefusedRequestsLeaveNothing == Spec => []RefusalLeavesNothing
<1>1. RefusalInv => RefusalLeavesNothing
  BY DEF RefusalInv
<1>2. QED
  BY <1>1, RefusalInit, RefusalStep, ReportsInit, ReportsStep, AuthorsInvariant,
     PTL DEF Spec

-----------------------------------------------------------------------------
(* The answers of the server.                                              *)

\* While a tool is at work the line it works on is the call that started it: only
\* its end goes on to the next line.
AtCall == job[Server].state = "running" => lines[next].kind = "call"

AnswersInv == AtCall /\ AnswersInOrder

LEMMA AskedFacts ==
  ASSUME BasicInv
  PROVE  /\ Asked \subseteq 1 .. (next - 1) /\ IsFiniteSet(Asked)
         /\ Cardinality(Asked) \in Nat
         /\ \A k \in Asked : Place(k) \in 1 .. Cardinality(Asked)
<1>1. next \in Nat /\ 1 .. (next - 1) = 1 .. (next - 1)
  BY DEF BasicInv, TypeOK
<1>2. Asked \subseteq 1 .. (next - 1) /\ IsFiniteSet(Asked) /\ Cardinality(Asked) \in Nat
  <2>1. Asked \subseteq 1 .. (next - 1)
    BY DEF Asked
  <2>2. next - 1 \in Int
    BY <1>1
  <2>3. IsFiniteSet(1 .. (next - 1))
    BY <2>2, FS_Interval
  <2>4. QED
    BY <2>1, <2>3, FS_Subset, FS_CardinalityType
<1>3. ASSUME NEW k \in Asked PROVE Place(k) \in 1 .. Cardinality(Asked)
  <2> DEFINE before == {j \in Asked : j <= k}
  <2>1. before \subseteq Asked /\ k \in before
    BY <1>1, <1>2
  <2>2. IsFiniteSet(before) /\ Cardinality(before) <= Cardinality(Asked)
        /\ Cardinality(before) \in Nat
    BY <1>2, <2>1, FS_Subset, FS_CardinalityType
  <2>3. Cardinality(before) # 0
    BY <2>1, <2>2, FS_EmptySet
  <2>4. Place(k) = Cardinality(before)
    BY DEF Place
  <2>5. QED
    BY <1>2, <2>2, <2>3, <2>4
<1>4. QED
  BY <1>2, <1>3

LEMMA AnswersInit == Init => AnswersInv
<1> SUFFICES ASSUME Init PROVE AnswersInv
  OBVIOUS
<1>1. Asked = {}
  BY DEF Init, Asked
<1>2. Len(answers) = 0 /\ Cardinality(Asked) = 0
  BY <1>1, FS_EmptySet DEF Init
<1>3. AtCall
  BY NoJobFacts DEF Init, AtCall, Processes
<1>4. QED
  BY <1>1, <1>2, <1>3 DEF AnswersInv, AnswersInOrder

\* Lines that are sent later change nothing for those that are dealt with.
LEMMA AskedKept ==
  ASSUME BasicInv, UNCHANGED <<next, answers>>,
         UNCHANGED lines \/ \E line \in Line : lines' = Append(lines, line),
         AnswersInOrder
  PROVE  AnswersInOrder' /\ \A k \in 1 .. Len(lines) : lines'[k] = lines[k]
<1>1. lines \in Seq(Line) /\ next \in 1 .. (Len(lines) + 1)
  BY DEF BasicInv, TypeOK
<1>2. \A k \in 1 .. Len(lines) : lines'[k] = lines[k]
  BY <1>1
<1>3. \A k \in 1 .. (next - 1) : lines'[k] = lines[k]
  BY <1>1, <1>2
<1>4. Asked' = Asked
  BY <1>3 DEF Asked
<1>5. \A k \in Asked : Place(k)' = Place(k)
  BY <1>4 DEF Place
<1>6. QED
  BY <1>2, <1>4, <1>5 DEF AnswersInOrder

\* A line that asks is answered: its place is the last one.
LEMMA AnsweredInOrder ==
  ASSUME BasicInv, AnswersInOrder, next <= Len(lines), lines[next].kind # "notice",
         NEW id \in {0, next}, Answer(id), UNCHANGED lines
  PROVE  AnswersInOrder'
<1>1. next \in Nat /\ next' = next + 1 /\ answers' = Append(answers, id)
  BY DEF BasicInv, TypeOK, Answer
<1>2. Asked' = Asked \cup {next}
  <2>1. 1 .. (next' - 1) = 1 .. (next - 1) \cup {next}
    <3>1. next \in Nat \ {0}
      BY DEF BasicInv, TypeOK
    <3>2. QED
      BY <1>1, <3>1
  <2>2. QED
    BY <2>1 DEF Asked
<1>3. /\ Asked \subseteq 1 .. (next - 1) /\ IsFiniteSet(Asked)
      /\ Cardinality(Asked) \in Nat
      /\ \A k \in Asked : Place(k) \in 1 .. Cardinality(Asked)
  BY AskedFacts
<1>4. next \notin Asked
  BY <1>1, <1>3
<1>5. Cardinality(Asked') = Cardinality(Asked) + 1
  BY <1>2, <1>3, <1>4, FS_AddElement
<1>6. answers \in Seq(0 .. MaxRequests) /\ Len(answers) = Cardinality(Asked)
  BY DEF AnswersInOrder, BasicInv, TypeOK
<1>7. Len(answers') = Cardinality(Asked')
  BY <1>1, <1>5, <1>6
<1>8. ASSUME NEW k \in Asked' PROVE answers'[Place(k)'] \in {0, k}
  <2>1. CASE k \in Asked
    <3>1. \A j \in Asked' : j <= k <=> j \in Asked /\ j <= k
      BY <1>1, <1>2, <1>3, <2>1
    <3>2. {j \in Asked' : j <= k} = {j \in Asked : j <= k}
      BY <1>2, <3>1
    <3>3. Place(k)' = Place(k)
      BY <3>2 DEF Place
    <3>4. Place(k) \in 1 .. Len(answers)
      BY <1>3, <1>6, <2>1
    <3>5. answers'[Place(k)] = answers[Place(k)]
      BY <1>1, <1>6, <3>4
    <3>6. QED
      BY <2>1, <3>3, <3>5 DEF AnswersInOrder
  <2>2. CASE k = next
    <3>1. \A j \in Asked' : j <= k
      BY <1>1, <1>2, <1>3, <2>2
    <3>2. {j \in Asked' : j <= k} = Asked'
      BY <3>1
    <3>3. Place(k)' = Len(answers) + 1
      BY <1>5, <1>6, <3>2 DEF Place
    <3>4. answers'[Len(answers) + 1] = id
      BY <1>1, <1>6
    <3>5. QED
      BY <2>2, <3>3, <3>4
  <2>3. QED
    BY <1>2, <1>8, <2>1, <2>2
<1>9. QED
  BY <1>7, <1>8 DEF AnswersInOrder

LEMMA AnswersWork ==
  ASSUME BasicInv, AnswersInv, NEW p \in Processes, Work(p)
  PROVE  AnswersInv'
<1>1. job[p].state = "running" /\ (Keeps(p) \/ Puts(p) \/ Removes(p))
  BY WorkShape
<1>2. /\ \A q \in Processes \ {p} : job'[q] = job[q]
      /\ UNCHANGED lines
      /\ p \in Shells => next' = next
      /\ job'[p].state = "running" => next' = next
  BY <1>1, NextOfOthers
<1>3. CASE p \in Shells \/ job'[p].state = "running"
  <2>1. next' = next
    BY <1>2, <1>3
  <2>2. UNCHANGED answers
    <3>1. CASE Ends(p)
      <4>1. PICK why \in Refusals \cup {"ok"}, spoilt \in BOOLEAN : Close(p, why, spoilt)
        BY <3>1 DEF Ends
      <4>2. p \in Shells
        BY <1>1, <1>3, <4>1, CloseType
      <4>3. QED
        BY <4>1, <4>2, ProcessesAssumption DEF Close
    <3>2. QED
      BY <1>1, <3>1, GoesOn DEF Advance, Stay
  <2>3. AnswersInOrder'
    BY <1>2, <2>1, <2>2, AskedKept DEF AnswersInv
  <2>4. AtCall'
    <3>1. job'[Server].state = "running" => job[Server].state = "running"
      BY <1>1, <1>2 DEF Processes
    <3>2. QED
      BY <1>2, <2>1, <3>1 DEF AnswersInv, AtCall
  <2>5. QED
    BY <2>3, <2>4 DEF AnswersInv
<1>4. CASE p = Server /\ job'[p].state # "running"
  <2>1. Ends(p)
    BY <1>1, <1>4, GoesOn, AdvanceType, StayType
  <2>2. PICK why \in Refusals \cup {"ok"}, spoilt \in BOOLEAN : Close(p, why, spoilt)
    BY <2>1 DEF Ends
  <2>3. p \notin Shells
    BY <1>4, ProcessesAssumption
  <2>4. Answer(IF why = "ok" THEN Id(next) ELSE RefusalId(why))
    BY <1>4, <2>2, <2>3 DEF Close
  <2>5. (IF why = "ok" THEN Id(next) ELSE RefusalId(why)) \in {0, next}
    BY DEF Id, RefusalId
  <2>6. next <= Len(lines) /\ lines[next].kind # "notice"
    BY <1>1, <1>4 DEF AnswersInv, AtCall, BasicInv, AtLine
  <2>7. AnswersInOrder'
    <3> DEFINE id == IF why = "ok" THEN Id(next) ELSE RefusalId(why)
    <3>1. id \in {0, next} /\ Answer(id)
      BY <2>4, <2>5
    <3> HIDE DEF id
    <3> QED  BY <1>2, <2>6, <3>1, AnsweredInOrder DEF AnswersInv
  <2>8. AtCall'
    BY <1>4 DEF AtCall
  <2>9. QED
    BY <2>7, <2>8 DEF AnswersInv
<1>5. QED
  BY <1>3, <1>4 DEF Processes

LEMMA AnswersReceive ==
  ASSUME BasicInv, AnswersInv, Receive
  PROVE  AnswersInv'
<1>1. /\ job[Server] = NoJob /\ next \in Nat \ {0} /\ next <= Len(lines)
      /\ Server \in Processes /\ UNCHANGED lines
  BY DEF Receive, Processes, BasicInv, TypeOK
<1>2. CASE lines[next].kind = "call" /\ UNCHANGED <<next, answers>>
  <2>1. AnswersInOrder'
    BY <1>1, <1>2, AskedKept DEF AnswersInv
  <2>2. QED
    BY <1>1, <1>2, <2>1 DEF AnswersInv, AtCall
<1>3. CASE lines[next].kind # "notice" /\ (Answer(Id(next)) \/ Answer(0))
  <2>1. PICK id \in {0, next} : Answer(id)
    BY <1>3 DEF Id
  <2>2. AnswersInOrder'
    BY <1>1, <1>3, <2>1, AnsweredInOrder DEF AnswersInv
  <2>3. job' = [job EXCEPT ![Server] = NoJob] /\ job \in [Processes -> Job]
    BY <2>1 DEF Answer, BasicInv, TypeOK
  <2>4. AtCall'
    BY <1>1, <2>3, NoJobFacts DEF AtCall
  <2>5. QED
    BY <2>2, <2>4 DEF AnswersInv
<1>4. CASE lines[next].kind = "notice" /\ next' = next + 1 /\ UNCHANGED <<job, answers>>
  <2>1. 1 .. (next' - 1) = 1 .. (next - 1) \cup {next}
    BY <1>1, <1>4
  <2>2. Asked' = Asked
    BY <1>1, <1>4, <2>1 DEF Asked
  <2>3. \A k \in Asked : Place(k)' = Place(k)
    BY <2>2 DEF Place
  <2>4. AnswersInOrder'
    BY <1>4, <2>2, <2>3 DEF AnswersInv, AnswersInOrder
  <2>5. AtCall'
    BY <1>1, <1>4, NoJobFacts DEF AtCall
  <2>6. QED
    BY <2>4, <2>5 DEF AnswersInv
<1>5. CASE job' = [job EXCEPT ![Server].state = "dead"] /\ UNCHANGED <<next, answers>>
  <2>1. AnswersInOrder'
    BY <1>1, <1>5, AskedKept DEF AnswersInv
  <2>2. job'[Server].state = "dead"
    BY <1>1, <1>5 DEF BasicInv, TypeOK, Job
  <2>3. QED
    BY <2>1, <2>2 DEF AnswersInv, AtCall
<1>6. QED
  BY <1>2, <1>3, <1>4, <1>5 DEF Receive

LEMMA AnswersStep == BasicInv /\ AnswersInv /\ [Next]_vars => AnswersInv'
<1> SUFFICES ASSUME BasicInv, AnswersInv, [Next]_vars PROVE AnswersInv'
  OBVIOUS
<1>1. CASE \E p \in Shells, c \in Commands : Type(p, c)
  <2>1. PICK p \in Shells, c \in Commands : Type(p, c)
    BY <1>1
  <2>2. p # Server /\ UNCHANGED <<lines, next, answers>>
        /\ job' = [job EXCEPT ![p] = Begun(c)]
    BY <2>1, ProcessesAssumption DEF Type
  <2>3. job'[Server] = job[Server]
    BY <2>2 DEF BasicInv, TypeOK, Processes
  <2>4. QED
    BY <2>2, <2>3, AskedKept DEF AnswersInv, AtCall
<1>2. CASE \E line \in Line : Send(line)
  <2>1. UNCHANGED <<job, next, answers>> /\ \E line \in Line : lines' = Append(lines, line)
    BY <1>2 DEF Send
  <2>2. AnswersInOrder' /\ \A k \in 1 .. Len(lines) : lines'[k] = lines[k]
    BY <2>1, AskedKept DEF AnswersInv
  <2>3. job[Server].state = "running" => next \in 1 .. Len(lines)
    BY DEF BasicInv, TypeOK, AtLine
  <2>4. QED
    BY <2>1, <2>2, <2>3 DEF AnswersInv, AtCall
<1>3. CASE Receive
  BY <1>3, AnswersReceive
<1>4. CASE \E p \in Processes : Work(p)
  BY <1>4, AnswersWork
<1>5. CASE \E p \in Processes : Die(p)
  <2>1. PICK p \in Processes : Die(p)
    BY <1>5
  <2>2. job'[p].state = "dead" /\ \A q \in Processes \ {p} : job'[q] = job[q]
    BY <2>1, DieBasic
  <2>3. UNCHANGED <<lines, next, answers>>
    BY <2>1 DEF Die
  <2>4. AtCall'
    BY <2>2, <2>3 DEF AnswersInv, AtCall, Processes
  <2>5. QED
    BY <2>3, <2>4, AskedKept DEF AnswersInv
<1>6. CASE UNCHANGED vars
  BY <1>6, AskedKept DEF vars, AnswersInv, AtCall
<1>7. QED
  BY <1>1, <1>2, <1>3, <1>4, <1>5, <1>6 DEF Next

\* Whatever lines the client sends and however its requests end, refused by any
\* exception or killed, the server has answered exactly the lines dealt with that
\* are no notifications, each at its place, under its own id or under null.
THEOREM AnswersKeepOrder == Spec => []AnswersInOrder
<1>1. AnswersInv => AnswersInOrder
  BY DEF AnswersInv
<1>2. QED
  BY <1>1, AnswersInit, AnswersStep, BasicInvariant, PTL DEF Spec

-----------------------------------------------------------------------------
(* A scaffold that is made alone.                                          *)

\* Who has still a file of a project to write has asked, or asks before he writes.
HasAsked ==
  \A p \in Processes : job[p].state = "running" =>
    (WrittenBy(job[p].todo) \cap ProjectFiles # {} =>
       Me(p) \in fresh \/ AsksFirst(job[p].todo))

\* An init owes files of the project only.
OwesProject ==
  /\ \A p \in Processes : (job[p].state = "running" /\ Config \in job[p].due) =>
       job[p].due \subseteq ProjectFiles
  /\ \A r \in reports : Config \in r.due => r.due \subseteq ProjectFiles

\* Nobody else but a has got past the question.
Alone(a) == fresh \subseteq {a}

WholeBy(f, a) == disk[f].whole /\ disk[f].by = a

\* A lone init that is filling a file has truncated it, and nobody has since.
FillsItsOwn ==
  \A p \in Processes :
    (/\ job[p].state = "running" /\ job[p].todo # <<>> /\ Now(p).op = "overwrite"
     /\ job[p].phase = "ready" /\ File(p) \in ProjectFiles /\ Alone(Me(p)))
    => disk[File(p)].by = Me(p)

\* Of what a lone init owes, all that is not still to be written is there.
MakesWhole ==
  \A p \in Processes :
    (job[p].state = "running" /\ Config \in job[p].due /\ Alone(Me(p))) =>
      \A f \in job[p].due : f \in WrittenBy(job[p].todo) \/ WholeBy(f, Me(p))

MadeWhole ==
  \A r \in reports : (r.why = "ok" /\ Config \in r.due /\ Alone(r.by)) =>
    \A f \in r.due : WholeBy(f, r.by)

ScaffoldInv == HasAsked /\ OwesProject /\ FillsItsOwn /\ MakesWhole /\ MadeWhole

LEMMA ScaffoldInit == Init => ScaffoldInv
<1> SUFFICES ASSUME Init PROVE ScaffoldInv
  OBVIOUS
<1>1. reports = {} /\ \A p \in Processes : job[p].state # "running"
  BY NoJobFacts DEF Init
<1>2. QED
  BY <1>1 DEF ScaffoldInv, HasAsked, OwesProject, FillsItsOwn, MakesWhole, MadeWhole

\* Past the question, an init is known to have asked it.
LEMMA AskingIsRecorded ==
  ASSUME BasicInv, NEW p \in Processes, Work(p), job[p].todo # <<>>,
         Now(p).op = "fresh", Advance(p)
  PROVE  Me(p) \in fresh'
<1>1. job[p].state = "running"
  BY WorkShape
<1>2. ~End(p, "invalid")
  BY <1>1, AdvanceIsNotEnd, RefusalFacts
<1>3. FindFresh(p)
  BY DEF Work, Look, Decide, Matches, Prepare, Swap, Link, Guard, Truncate, Fill,
         Finish, At, Now, Reads
<1>4. QED
  BY <1>2, <1>3 DEF FindFresh

\* Who goes on from a replacement, or from a file he fills that is still his own, has
\* written it whole.
LEMMA LeavesWhole ==
  ASSUME BasicInv, NEW p \in Processes, Work(p), job[p].todo # <<>>,
         Now(p).op \in {"replace", "overwrite"}, Advance(p),
         (Now(p).op = "overwrite" /\ job[p].phase = "ready") => disk[File(p)].by = Me(p)
  PROVE  disk'[File(p)].whole /\ disk'[File(p)].by = Me(p)
<1>1. job[p].state = "running" /\ File(p) \in Paths
      /\ disk \in [Paths -> Content]
  <2>1. job[p].state = "running"
    BY WorkShape
  <2>2. Now(p) \in KnownSteps
    BY NowFacts DEF BasicInv
  <2>3. QED
    BY <2>1, <2>2, KnownStepFacts DEF File, Writes, BasicInv, TypeOK
<1>2. /\ ~End(p, "os") /\ \A why \in Now(p).may : ~End(p, why)
  BY <1>1, AdvanceIsNotEnd, RefusalFacts, NowFacts DEF BasicInv, Refusals
<1>3. \A phase \in {"ready", "linked"} : ~Stay(p, phase)
  BY <1>1, AdvanceType, StayType
<1>4. Prepare(p) \/ Swap(p) \/ Truncate(p) \/ Fill(p)
  BY DEF Work, Look, Decide, FindFresh, Matches, Link, Guard, Finish, At, Now, Reads
<1>5. Put(p, TRUE)
  BY <1>2, <1>3, <1>4 DEF Prepare, Swap, Truncate, Fill, At, Now
<1>6. PICK kind \in Now(p).kinds :
        disk' = [disk EXCEPT ![File(p)] = [kind |-> kind, by |-> Me(p), whole |-> TRUE]]
  BY <1>5 DEF Put
<1>7. QED
  BY <1>1, <1>6

LEMMA StayIsNotEnd ==
  ASSUME BasicInv, NEW p \in Processes, job[p].state = "running",
         NEW phase \in {"start", "ready", "linked"}, Stay(p, phase)
  PROVE  \A why \in Refusals \cup {"ok"} : ~End(p, why)
BY StayType, EndType

\* Who is about to fill a file has just truncated it.
LEMMA FillsOwn ==
  ASSUME BasicInv, NEW p \in Processes, Work(p), job[p].todo # <<>>,
         Now(p).op = "overwrite", Stay(p, "ready")
  PROVE  disk'[File(p)].by = Me(p)
<1>1. job[p].state = "running" /\ Now(p) \in KnownSteps
  BY WorkShape, NowFacts DEF BasicInv
<1>2. File(p) \in Paths /\ disk \in [Paths -> Content]
  BY <1>1, KnownStepFacts DEF File, Writes, BasicInv, TypeOK
<1>3. /\ ~End(p, "os") /\ ~Advance(p)
  BY <1>1, AdvanceType, StayType, EndType, RefusalFacts, StayIsNotEnd DEF Refusals
<1>4. Truncate(p) \/ Fill(p)
  BY DEF Work, Look, Decide, FindFresh, Matches, Prepare, Swap, Link, Guard, Finish,
         At, Now, Reads
<1>5. Put(p, FALSE)
  BY <1>3, <1>4 DEF Truncate, Fill
<1>6. QED
  BY <1>2, <1>5 DEF Put

\* Only who has asked changes a file of a project, and only by writing it.
LEMMA OnlyAskersWrite ==
  ASSUME BasicInv, HasAsked, NEW p \in Processes, job[p].state = "running",
         Keeps(p) \/ Puts(p) \/ Removes(p),
         NEW f \in ProjectFiles, f \in Paths, disk'[f] # disk[f]
  PROVE  Me(p) \in fresh /\ Puts(p) /\ f = File(p)
<1>1. Puts(p) /\ f = File(p)
  BY PutsFacts, RemovesFacts DEF Keeps
<1>2. job[p].todo # <<>> /\ Now(p).op \in Writes
  BY <1>1 DEF Puts
<1>3. f \in WrittenBy(job[p].todo)
  BY <1>1, <1>2, WrittenByTail
<1>4. ~AsksFirst(job[p].todo)
  BY <1>2, AsksFirstTail
<1>5. QED
  BY <1>1, <1>3, <1>4 DEF HasAsked

LEMMA FreshGrows ==
  ASSUME NEW p, Finds(p)
  PROVE  fresh \subseteq fresh' /\ \A a : Alone(a)' => Alone(a)
BY DEF Finds, Alone

\* While a is alone, what he has made whole stays as it is when others work.
LEMMA AloneIsLeftAlone ==
  ASSUME BasicInv, HasAsked, NEW p \in Processes, Work(p),
         NEW a, a # Me(p), Alone(a), NEW f \in ProjectFiles, f \in Paths
  PROVE  disk'[f] = disk[f]
<1>1. job[p].state = "running" /\ (Keeps(p) \/ Puts(p) \/ Removes(p))
  BY WorkShape
<1>2. Me(p) \notin fresh
  BY DEF Alone
<1>3. QED
  BY <1>1, <1>2, OnlyAskersWrite

LEMMA HasAskedWork ==
  ASSUME BasicInv, HasAsked, NEW p \in Processes, Work(p)
  PROVE  HasAsked'
<1>1. job[p].state = "running" /\ (Keeps(p) \/ Puts(p) \/ Removes(p)) /\ Finds(p)
  BY WorkShape
<1>2. /\ \A q \in Processes \ {p} : job'[q] = job[q] /\ Me(q)' = Me(q)
      /\ job'[p].state = "running" => Me(p)' = Me(p)
  BY <1>1, NextOfOthers
<1>3. fresh \subseteq fresh'
  BY <1>1, FreshGrows
<1>4. ASSUME job'[p].state = "running", WrittenBy(job'[p].todo) \cap ProjectFiles # {}
      PROVE  Me(p) \in fresh' \/ AsksFirst(job'[p].todo)
  <2>1. CASE job[p].todo # <<>> /\ Advance(p)
    <3>1. job'[p].todo = Tail(job[p].todo)
      BY <1>1, <2>1, AdvanceType
    <3>2. WrittenBy(job[p].todo) \cap ProjectFiles # {}
      BY <1>4, <2>1, <3>1, WrittenByTail
    <3>3. Me(p) \in fresh \/ AsksFirst(job[p].todo)
      BY <1>1, <3>2 DEF HasAsked
    <3>4. AsksFirst(job[p].todo) => Me(p) \in fresh' \/ AsksFirst(Tail(job[p].todo))
      BY <2>1, AsksFirstTail, AskingIsRecorded
    <3>5. QED
      BY <1>3, <3>1, <3>3, <3>4
  <2>2. CASE \E phase \in {"ready", "linked"} : Stay(p, phase)
    <3>1. job'[p].todo = job[p].todo
      BY <1>1, <2>2, StayType
    <3>2. QED
      BY <1>1, <1>3, <1>4, <3>1 DEF HasAsked
  <2>3. CASE Ends(p)
    BY <1>1, <1>4, <2>3, CloseType DEF Ends
  <2>4. QED
    BY <1>1, <2>1, <2>2, <2>3, GoesOn
<1>5. ASSUME NEW q \in Processes \ {p}, job'[q].state = "running",
             WrittenBy(job'[q].todo) \cap ProjectFiles # {}
      PROVE  Me(q)' \in fresh' \/ AsksFirst(job'[q].todo)
  BY <1>2, <1>3, <1>5 DEF HasAsked
<1>6. QED
  BY <1>2, <1>4, <1>5 DEF HasAsked

LEMMA OwesWork ==
  ASSUME BasicInv, OwesProject, NEW p \in Processes, Work(p)
  PROVE  OwesProject'
<1>1. job[p].state = "running" /\ (Keeps(p) \/ Puts(p) \/ Removes(p))
  BY WorkShape
<1>2. /\ \A q \in Processes \ {p} : job'[q] = job[q]
      /\ job'[p].state = "running" => UNCHANGED reports
  BY <1>1, NextOfOthers
<1>3. CASE Ends(p)
  <2>1. PICK why \in Refusals \cup {"ok"}, spoilt \in BOOLEAN : Close(p, why, spoilt)
    BY <1>3 DEF Ends
  <2>2. /\ job'[p].state # "running"
        /\ reports' = reports \cup
                      {[by |-> Me(p), why |-> why, due |-> job[p].due, spoilt |-> spoilt]}
    BY <1>1, <2>1, CloseType
  <2>3. \A r \in reports' : Config \in r.due => r.due \subseteq ProjectFiles
    BY <1>1, <2>2 DEF OwesProject
  <2>4. QED
    BY <1>2, <2>2, <2>3 DEF OwesProject
<1>4. CASE ~Ends(p)
  <2>1. job'[p].state = "running" /\ job'[p].due = job[p].due
    BY <1>1, <1>4, GoesOn, AdvanceType, StayType
  <2>2. QED
    BY <1>1, <1>2, <2>1 DEF OwesProject
<1>5. QED
  BY <1>3, <1>4

LEMMA FillsWork ==
  ASSUME BasicInv, HasAsked, FillsItsOwn, NEW p \in Processes, Work(p)
  PROVE  FillsItsOwn'
<1> SUFFICES ASSUME NEW q \in Processes, job'[q].state = "running", job'[q].todo # <<>>,
                    (Now(q).op = "overwrite")', job'[q].phase = "ready",
                    (File(q) \in ProjectFiles)', Alone(Me(q))'
             PROVE  (disk[File(q)].by = Me(q))'
  BY DEF FillsItsOwn
<1>1. job[p].state = "running" /\ (Keeps(p) \/ Puts(p) \/ Removes(p)) /\ Finds(p)
  BY WorkShape
<1>2. /\ \A r \in Processes \ {p} : job'[r] = job[r] /\ Me(r)' = Me(r)
      /\ job'[p].state = "running" => Me(p)' = Me(p)
  BY <1>1, NextOfOthers
<1>3. Me(q)' = Me(q) /\ Alone(Me(q))
  <2>1. Me(q)' = Me(q)
    BY <1>2
  <2>2. fresh' \subseteq {Me(q)} /\ fresh \subseteq fresh'
    BY <1>1, <2>1, FreshGrows DEF Alone
  <2>3. QED
    BY <2>1, <2>2 DEF Alone
<1>4. CASE q # p
  <2>1. job'[q] = job[q]
    BY <1>2, <1>4
  <2>2. Now(q)' = Now(q) /\ File(q)' = File(q)
    BY <2>1 DEF Now, File
  <2>3. disk[File(q)].by = Me(q)
    BY <1>3, <2>1, <2>2 DEF FillsItsOwn
  <2>4. job[q].todo # <<>> /\ Now(q) \in KnownSteps
    BY <2>1, NowFacts DEF BasicInv
  <2>5. File(q) \in Paths
    BY <2>2, <2>4, KnownStepFacts DEF File, Writes
  <2>6. Me(q) # Me(p)
    BY <1>4, MeFacts
  <2>7. disk'[File(q)] = disk[File(q)]
    BY <1>3, <2>2, <2>5, <2>6, AloneIsLeftAlone
  <2>8. QED
    BY <1>3, <2>2, <2>3, <2>7
<1>5. CASE q = p
  <2>1. ~(job[p].todo # <<>> /\ Advance(p)) /\ ~Ends(p)
    BY <1>1, <1>5, AdvanceType, CloseType DEF Ends
  <2>2. PICK phase \in {"ready", "linked"} : Stay(p, phase)
    BY <1>1, <2>1, GoesOn
  <2>3. phase = "ready" /\ job'[p].todo = job[p].todo
    BY <1>1, <1>5, <2>2, StayType
  <2>4. job[p].todo # <<>> /\ Now(p)' = Now(p) /\ File(p)' = File(p)
    BY <1>5, <2>3 DEF Now, File
  <2>5. disk'[File(p)].by = Me(p)
    BY <1>5, <2>2, <2>3, <2>4, FillsOwn
  <2>6. QED
    BY <1>3, <1>5, <2>4, <2>5
<1>6. QED
  BY <1>4, <1>5

LEMMA MakesWork ==
  ASSUME BasicInv, ScaffoldInv, NEW p \in Processes, Work(p)
  PROVE  MakesWhole'
<1> SUFFICES ASSUME NEW q \in Processes, job'[q].state = "running",
                    Config \in job'[q].due, Alone(Me(q))',
                    NEW f \in job'[q].due, f \notin WrittenBy(job'[q].todo)
             PROVE  WholeBy(f, Me(q))'
  BY DEF MakesWhole
<1>1. job[p].state = "running" /\ (Keeps(p) \/ Puts(p) \/ Removes(p)) /\ Finds(p)
  BY WorkShape
<1>2. /\ \A r \in Processes \ {p} : job'[r] = job[r] /\ Me(r)' = Me(r)
      /\ job'[p].state = "running" => Me(p)' = Me(p)
  BY <1>1, NextOfOthers
<1>3. Me(q)' = Me(q) /\ Alone(Me(q))
  <2>1. Me(q)' = Me(q)
    BY <1>2
  <2>2. fresh' \subseteq {Me(q)} /\ fresh \subseteq fresh'
    BY <1>1, <2>1, FreshGrows DEF Alone
  <2>3. QED
    BY <2>1, <2>2 DEF Alone
<1>4. job[q].state = "running" /\ job'[q].due = job[q].due
  <2>1. CASE q # p
    BY <1>2, <2>1
  <2>2. CASE q = p
    BY <1>1, <2>2, GoesOn, AdvanceType, StayType, CloseType DEF Ends
  <2>3. QED
    BY <2>1, <2>2
<1>5. f \in ProjectFiles /\ f \in Paths
  BY <1>4 DEF ScaffoldInv, OwesProject, BasicInv, TypeOK, Job
<1>6. f \in WrittenBy(job[q].todo) \/ WholeBy(f, Me(q))
  BY <1>3, <1>4 DEF ScaffoldInv, MakesWhole
<1>7. CASE q # p
  <2>1. disk'[f] = disk[f]
    BY <1>3, <1>5, <1>7, MeFacts, AloneIsLeftAlone DEF ScaffoldInv
  <2>2. WholeBy(f, Me(q))
    BY <1>2, <1>6, <1>7
  <2>3. QED
    BY <1>3, <2>1, <2>2 DEF WholeBy
<1>8. CASE q = p
  <2>1. CASE disk'[f] = disk[f] /\ WholeBy(f, Me(p))
    BY <1>3, <1>8, <2>1 DEF WholeBy
  <2>2. CASE f = File(p) /\ job[p].todo # <<>> /\ Now(p).op \in Writes /\ Advance(p)
    <3>1. Now(p).op \in {"replace", "overwrite"}
      BY <1>5, <2>2, NowFacts, KnownStepFacts DEF BasicInv, File, Writes
    <3>2. (Now(p).op = "overwrite" /\ job[p].phase = "ready") => disk[File(p)].by = Me(p)
      BY <1>1, <1>3, <1>5, <1>8, <2>2 DEF ScaffoldInv, FillsItsOwn
    <3>3. disk'[f].whole /\ disk'[f].by = Me(p)
      BY <2>2, <3>1, <3>2, LeavesWhole
    <3>4. QED
      BY <1>3, <1>8, <3>3 DEF WholeBy
  <2>3. disk'[f] # disk[f] => job[p].todo # <<>> /\ f = File(p) /\ Now(p).op \in Writes
    BY <1>1, <1>5, OnlyAskersWrite DEF ScaffoldInv, Puts
  <2>4. CASE job[p].todo # <<>> /\ Advance(p)
    <3>1. job'[p].todo = Tail(job[p].todo)
      BY <1>1, <2>4, AdvanceType
    <3>2. f \in WrittenBy(job[p].todo) => f = File(p) /\ Now(p).op \in Writes
      BY <1>8, <2>4, <3>1, WrittenByTail
    <3>3. QED
      BY <1>6, <1>8, <2>1, <2>2, <2>3, <2>4, <3>2
  <2>5. CASE \E phase \in {"ready", "linked"} : Stay(p, phase)
    <3>1. job'[p].todo = job[p].todo
      BY <1>1, <2>5, StayType
    <3>2. disk'[f] = disk[f]
      BY <1>8, <2>3, <3>1, WrittenByTail
    <3>3. QED
      BY <1>6, <1>8, <2>1, <3>1, <3>2
  <2>6. CASE Ends(p)
    BY <1>1, <1>8, <2>6, CloseType DEF Ends
  <2>7. QED
    BY <1>1, <2>4, <2>5, <2>6, GoesOn
<1>9. QED
  BY <1>7, <1>8

LEMMA MadeWork ==
  ASSUME BasicInv, AuthorsInv, ScaffoldInv, NEW p \in Processes, Work(p)
  PROVE  MadeWhole'
<1> SUFFICES ASSUME NEW r \in reports', r.why = "ok", Config \in r.due, Alone(r.by)',
                    NEW f \in r.due
             PROVE  WholeBy(f, r.by)'
  BY DEF MadeWhole
<1>1. job[p].state = "running" /\ (Keeps(p) \/ Puts(p) \/ Removes(p)) /\ Finds(p)
  BY WorkShape
<1>2. Alone(r.by)
  BY <1>1, FreshGrows DEF Alone
<1>3. CASE r \in reports
  <2>1. WholeBy(f, r.by)
    BY <1>2, <1>3 DEF ScaffoldInv, MadeWhole
  <2>2. r.by # Me(p)
    BY <1>1, <1>3 DEF AuthorsInv
  <2>3. f \in ProjectFiles /\ f \in Paths
    BY <1>3 DEF ScaffoldInv, OwesProject, BasicInv, TypeOK, Report
  <2>4. disk'[f] = disk[f]
    BY <1>2, <2>2, <2>3, AloneIsLeftAlone DEF ScaffoldInv
  <2>5. QED
    BY <2>1, <2>4 DEF WholeBy
<1>4. CASE r \notin reports
  <2>1. Ends(p)
    BY <1>1, <1>4, GoesOn, NextOfOthers, AdvanceType, StayType
  <2>2. PICK why \in Refusals \cup {"ok"}, spoilt \in BOOLEAN :
          Close(p, why, spoilt) /\ (why = "ok" => job[p].todo = <<>>)
    BY <2>1 DEF Ends
  <2>3. r = [by |-> Me(p), why |-> why, due |-> job[p].due, spoilt |-> spoilt]
    <3>1. reports' = reports \cup
                     {[by |-> Me(p), why |-> why, due |-> job[p].due, spoilt |-> spoilt]}
      <4>1. job[p].state = "running" /\ Close(p, why, spoilt)
        BY <1>1, <2>2
      <4>2. QED
        BY <4>1, CloseType
    <3>2. QED
      BY <1>4, <3>1
  <2>4. job[p].todo = <<>> /\ r.by = Me(p) /\ r.due = job[p].due
    BY <2>2, <2>3
  <2>5. f \notin WrittenBy(job[p].todo)
    BY <2>4 DEF WrittenBy
  <2>6. WholeBy(f, r.by)
    BY <1>1, <1>2, <2>4, <2>5 DEF ScaffoldInv, MakesWhole
  <2>7. disk' = disk
    BY <1>1, <2>4 DEF Keeps, Puts, Removes
  <2>8. QED
    BY <2>6, <2>7 DEF WholeBy
<1>5. QED
  BY <1>3, <1>4

LEMMA OutsideFresh ==
  ASSUME [Next]_vars, ~\E p \in Processes : Work(p)
  PROVE  UNCHANGED fresh
BY DEF Next, Type, Send, Receive, Die, vars

LEMMA ScaffoldOutside ==
  ASSUME BasicInv, ScaffoldInv, UNCHANGED <<disk, reports, fresh>>,
         \A q \in Processes : job'[q].state = "running" =>
           \/ job'[q] = job[q] /\ Me(q)' = Me(q)
           \/ \E c \in Programs : job'[q] = Begun(c)
  PROVE  ScaffoldInv'
<1>1. ASSUME NEW q \in Processes, NEW c \in Programs, job'[q] = Begun(c)
      PROVE  /\ WrittenBy(job'[q].todo) \cap ProjectFiles # {} => AsksFirst(job'[q].todo)
             /\ Config \in job'[q].due => job'[q].due \subseteq ProjectFiles
             /\ job'[q].phase # "ready" /\ job'[q].due = WrittenBy(job'[q].todo)
  <2>1. job'[q].todo = c /\ job'[q].due = WrittenBy(c) /\ job'[q].phase = "start"
    BY <1>1, ProgramFacts
  <2>2. QED
    BY <2>1, InitFacts
<1>2. HasAsked'
  BY <1>1 DEF ScaffoldInv, HasAsked
<1>3. OwesProject'
  BY <1>1 DEF ScaffoldInv, OwesProject
<1>4. FillsItsOwn'
  <2> SUFFICES ASSUME NEW q \in Processes, job'[q].state = "running", job'[q].todo # <<>>,
                      (Now(q).op = "overwrite")', job'[q].phase = "ready",
                      (File(q) \in ProjectFiles)', Alone(Me(q))'
               PROVE  (disk[File(q)].by = Me(q))'
    BY DEF FillsItsOwn
  <2>1. job'[q] = job[q] /\ Me(q)' = Me(q)
    BY <1>1
  <2>2. Now(q)' = Now(q) /\ File(q)' = File(q)
    BY <2>1 DEF Now, File
  <2>3. Alone(Me(q))
    BY <2>1 DEF Alone
  <2>4. QED
    BY <2>1, <2>2, <2>3 DEF ScaffoldInv, FillsItsOwn
<1>5. MakesWhole'
  <2> SUFFICES ASSUME NEW q \in Processes, job'[q].state = "running",
                      Config \in job'[q].due, Alone(Me(q))',
                      NEW f \in job'[q].due, f \notin WrittenBy(job'[q].todo)
               PROVE  WholeBy(f, Me(q))'
    BY DEF MakesWhole
  <2>1. job'[q] = job[q] /\ Me(q)' = Me(q)
    BY <1>1
  <2>2. Alone(Me(q))
    BY <2>1 DEF Alone
  <2>3. QED
    BY <2>1, <2>2 DEF ScaffoldInv, MakesWhole, WholeBy
<1>6. MadeWhole'
  BY DEF ScaffoldInv, MadeWhole, Alone, WholeBy
<1>7. QED
  BY <1>2, <1>3, <1>4, <1>5, <1>6 DEF ScaffoldInv

LEMMA ScaffoldStep == BasicInv /\ AuthorsInv /\ ScaffoldInv /\ [Next]_vars => ScaffoldInv'
<1> SUFFICES ASSUME BasicInv, AuthorsInv, ScaffoldInv, [Next]_vars PROVE ScaffoldInv'
  OBVIOUS
<1>1. CASE \E p \in Processes : Work(p)
  <2>1. PICK p \in Processes : Work(p)
    BY <1>1
  <2>2. HasAsked' /\ OwesProject' /\ FillsItsOwn'
    BY <2>1, HasAskedWork, OwesWork, FillsWork DEF ScaffoldInv
  <2>3. MakesWhole' /\ MadeWhole'
    BY <2>1, MakesWork, MadeWork
  <2>4. QED
    BY <2>2, <2>3 DEF ScaffoldInv
<1>2. CASE ~\E p \in Processes : Work(p)
  BY <1>2, OutsideWork, OutsideFresh, ScaffoldOutside
<1>3. QED
  BY <1>1, <1>2

\* If one init alone got past the question whether there is a project, and told of
\* success, every file of its scaffold is on disk, whole and its own, whatever other
\* commands and tools have run beside it since (create_project_scaffold).
THEOREM LoneInitMakesAll == Spec => []LoneScaffoldIsWhole
<1>1. ScaffoldInv => LoneScaffoldIsWhole
  BY DEF ScaffoldInv, MadeWhole, LoneScaffoldIsWhole, Alone, WholeBy
<1>2. QED
  BY <1>1, ScaffoldInit, ScaffoldStep, AuthorsInvariant, PTL DEF Spec
=============================================================================
