------------------------------ MODULE FrontEnds ------------------------------
(***************************************************************************)
(* The two front ends, `photonic COMMAND ...` (cli.py) and the MCP server  *)
(* (mcp/server.py), at work on one project directory.  Each shell types    *)
(* one command, the server answers the lines of its client one after the   *)
(* other; every step of their programs (see Steps) is a step here, so that *)
(* the programs of several processes interleave at each of their accesses  *)
(* to a file, and a process may die between any two of them.               *)
(*                                                                         *)
(* A file is modelled by the kind of its content, by whom it was written   *)
(* and by whether it is whole.  A temporary file is seen by nobody else:   *)
(* it is the phase of the step that writes it.                             *)
(***************************************************************************)
EXTENDS Naturals, Sequences, FiniteSets, Steps

CONSTANTS
  Shells,      \* the processes that run one command each
  Server,      \* the MCP server
  Commands,    \* the programs a shell may run
  Tools,       \* the programs the server may run
  Paths,       \* the files
  Kinds,       \* the kinds of content
  Foreign,     \* the kinds of a schema version this package does not read
  Projects,    \* what the directory may contain at first
  Config,      \* photonic.toml
  MaxRequests, \* bound: commands typed and lines sent to the server
  MaxDeaths    \* bound: processes that die

Programs == Commands \cup Tools

Step == [op : Ops, path : Paths \cup {NoFile}, kinds : SUBSET Kinds,
         may : SUBSET Refusals]

Nobody == <<"nobody", 0>>
Authors == {Nobody} \cup (Shells \X {0}) \cup ({Server} \X (1 .. MaxRequests))
Content == [kind : Kinds \cup {"none"}, by : Authors, whole : BOOLEAN]
Absent == [kind |-> "none", by |-> Nobody, whole |-> TRUE]

ASSUME ProgramsAssumption == Commands \subseteq Seq(Step) /\ Tools \subseteq Seq(Step)
ASSUME StepsAssumption ==
  \A c \in Programs : \A i \in DOMAIN c :
    c[i].op \in Writes => c[i].path \in Paths /\ "none" \notin c[i].kinds
ASSUME ProcessesAssumption ==
  /\ Server \notin Shells /\ "nobody" \notin Shells \cup {Server}
  /\ IsFiniteSet(Shells)
ASSUME ProjectsAssumption ==
  /\ Projects \subseteq [Paths -> Content]
  /\ \A d \in Projects : \A f \in Paths : d[f].whole /\ d[f].by = Nobody
ASSUME BoundsAssumption == MaxRequests \in Nat /\ MaxDeaths \in Nat

\* The files that only atomic writes touch, and those that are only created.
WrittenOnlyBy(ops) ==
  {f \in Paths : \A c \in Programs : \A i \in DOMAIN c :
     c[i].op \in Writes /\ c[i].path = f => c[i].op \in ops}
AtomicFiles == WrittenOnlyBy({"replace", "create"})
Receipts    == WrittenOnlyBy({"create"})

\* A program that asks whether there is a project before it writes anything.
AsksFirst(steps) ==
  \E j \in DOMAIN steps :
    /\ steps[j].op = "fresh" /\ steps[j].path = Config
    /\ \A k \in 1 .. (j - 1) : steps[k].op \notin Writes

\* What the programs write that make a photonic.toml.
ProjectFiles == UNION {WrittenBy(c) : c \in {d \in Programs : Config \in WrittenBy(d)}}

\* The files of a project are written by programs that ask first, and never linked.
\* What is linked under a guard is written in no other way.
ASSUME InitsAssumption ==
  /\ Config \in Paths
  /\ \A c \in Programs :
       /\ WrittenBy(c) \cap ProjectFiles # {} => AsksFirst(c)
       /\ \A i \in DOMAIN c : c[i].op = "create" => c[i].path \notin ProjectFiles
ASSUME GuardsAssumption ==
  \A c \in Programs : \A i \in DOMAIN c :
    (c[i].op = "create" /\ c[i].may # {}) => c[i].path \in Receipts

\* A program that writes one file, and that atomically, goes on at most to verify it.
Single(files) == files \subseteq AtomicFiles /\ \A f, g \in files : f = g
ASSUME SingleWritesAssumption ==
  \A c \in Programs : Single(WrittenBy(c)) =>
    \A i \in DOMAIN c : c[i].op \in Writes =>
      \A j \in DOMAIN c : j > i => c[j].op = "verify" /\ c[j].path = c[i].path

VARIABLES
  disk,      \* disk[f]: the content of the file
  job,       \* job[p]: the program under way in process p
  lines,     \* the lines the client has sent
  next,      \* the line the server is at
  answers,   \* the ids of the answers, in the order they were written
  deaths,    \* bound counter
  reports,   \* history: what the finished requests told
  fresh,     \* history: the inits that found no photonic.toml
  late       \* history: the inits that began when there was one

vars == <<disk, job, lines, next, answers, deaths, reports, fresh, late>>

Processes == Shells \cup {Server}

Job == [state : {"idle", "running", "done", "dead"}, todo : Seq(Step),
        phase : {"start", "ready", "linked"}, due : SUBSET Paths]
NoJob == [state |-> "idle", todo |-> <<>>, phase |-> "start", due |-> {}]

Begun(steps) == [state |-> "running", todo |-> steps, phase |-> "start",
                 due |-> WrittenBy(steps)]

\* A line for the server: a call of a tool; a request that needs no file, or one
\* that handle or the argument check rejects; a notification, a line that is no
\* request with an id (not JSON, not an object, an id of another type), or bytes
\* that are not UTF-8.
Line ==
  [kind : {"call"}, named : BOOLEAN, steps : Tools]
  \cup [kind : {"plain"}, named : BOOLEAN, steps : {<<>>}]
  \cup [kind : {"notice", "garbage", "undecodable"}, named : {FALSE}, steps : {<<>>}]

\* What a request told; it is spoilt if something failed once its file had its name.
Report == [by : Authors, why : Refusals \cup {"ok"}, due : SUBSET Paths, spoilt : BOOLEAN]

Me(p) == IF p = Server THEN <<Server, next>> ELSE <<p, 0>>

Init ==
  /\ disk \in Projects
  /\ job = [p \in Processes |-> NoJob]
  /\ lines = <<>> /\ next = 1 /\ answers = <<>>
  /\ deaths = 0 /\ reports = {} /\ fresh = {} /\ late = {}

-----------------------------------------------------------------------------
(* Requests.                                                               *)

\* An init that begins when there is a photonic.toml already.
Late(p, steps) ==
  late' = IF Config \in WrittenBy(steps) /\ disk[Config] # Absent
            THEN late \cup {Me(p)} ELSE late

Requests == Len(lines) + Cardinality({p \in Shells : job[p] # NoJob})

Type(p, steps) ==
  /\ p \in Shells /\ job[p] = NoJob
  /\ Requests < MaxRequests
  /\ job' = [job EXCEPT ![p] = Begun(steps)]
  /\ Late(p, steps)
  /\ UNCHANGED <<disk, lines, next, answers, deaths, reports, fresh>>

Send(line) ==
  /\ Requests < MaxRequests
  /\ line \in Line
  /\ lines' = Append(lines, line)
  /\ UNCHANGED <<disk, job, next, answers, deaths, reports, fresh, late>>

\* request_id: the id of the line, or null.
Id(k) == IF lines[k].named THEN k ELSE 0

\* Mutant: a refusal that is a ValueError is logged and not answered.
SilentAnswer(id) ==
  /\ answers' = IF id = Id(next) THEN Append(answers, id) ELSE answers
  /\ next' = next + 1
  /\ job' = [job EXCEPT ![Server] = NoJob]

\* Every line that is read is answered before the next one is read.
Answer(id) ==
  /\ answers' = Append(answers, id)
  /\ next' = next + 1
  /\ job' = [job EXCEPT ![Server] = NoJob]

\* The ids of refusals: main catches ValueError, which InvalidInputError and
\* AssemblyError are too, before anything else, as a parse error without id.
RefusalId(why) == IF why = "invalid" THEN 0 ELSE Id(next)

\* Mutant: a notification is taken for a request that is still under way.
ReceiveNoticeForever ==
  /\ job[Server] = NoJob
  /\ next <= Len(lines)
  /\ \/ /\ lines[next].kind = "call"
        /\ job' = [job EXCEPT ![Server] = Begun(lines[next].steps)]
        /\ Late(Server, lines[next].steps)
        /\ UNCHANGED <<next, answers>>
     \/ /\ lines[next].kind = "plain"
        /\ Answer(Id(next))
        /\ UNCHANGED late
  /\ UNCHANGED <<disk, lines, deaths, reports, fresh>>

\* The server begins with a line; only a tool takes further steps.
Receive ==
  /\ job[Server] = NoJob
  /\ next <= Len(lines)
  /\ \/ /\ lines[next].kind = "call"
        /\ job' = [job EXCEPT ![Server] = Begun(lines[next].steps)]
        /\ Late(Server, lines[next].steps)
        /\ UNCHANGED <<next, answers>>
     \/ /\ lines[next].kind = "plain"
        /\ Answer(Id(next))
        /\ UNCHANGED late
     \/ /\ lines[next].kind = "garbage"
        /\ Answer(0)
        /\ UNCHANGED late
     \/ /\ lines[next].kind = "notice"
        /\ next' = next + 1
        /\ UNCHANGED <<job, answers, late>>
     \/ /\ lines[next].kind = "undecodable"
        /\ job' = [job EXCEPT ![Server].state = "dead"]
        /\ UNCHANGED <<next, answers, late>>
  /\ UNCHANGED <<disk, lines, deaths, reports, fresh>>

\* The command or the tool ends, with its result or with a refusal.  A shell
\* turns the exception into its exit code, the server into an answer.
Close(p, why, spoilt) ==
  /\ reports' = reports \cup
                 {[by |-> Me(p), why |-> why, due |-> job[p].due, spoilt |-> spoilt]}
  /\ \/ /\ p \in Shells
        /\ job' = [job EXCEPT ![p].state = "done", ![p].todo = <<>>,
                              ![p].phase = "start"]
        /\ UNCHANGED <<next, answers>>
     \/ /\ p = Server
        /\ Answer(IF why = "ok" THEN Id(next) ELSE RefusalId(why))
  /\ UNCHANGED <<lines, deaths, late>>

End(p, why) == Close(p, why, FALSE)

\* It is refused for something that failed after its file had its name: a temporary
\* file, or the file itself, that cannot be removed, a digest that cannot be taken,
\* a result that cannot be told.  Nobody takes the file back.
Spoil(p, why) == Close(p, why, TRUE)

-----------------------------------------------------------------------------
(* Steps of a program.                                                     *)

At(p, ops) ==
  job[p].state = "running" /\ job[p].todo # <<>> /\ Head(job[p].todo).op \in ops
Now(p) == Head(job[p].todo)
File(p) == Now(p).path

Advance(p) ==
  /\ job' = [job EXCEPT ![p].todo = Tail(@), ![p].phase = "start"]
  /\ UNCHANGED <<lines, next, answers, deaths, reports, late>>

Stay(p, phase) ==
  /\ job' = [job EXCEPT ![p].phase = phase]
  /\ UNCHANGED <<lines, next, answers, deaths, reports, late>>

Put(p, whole) ==
  \E kind \in Now(p).kinds :
    disk' = [disk EXCEPT ![File(p)] = [kind |-> kind, by |-> Me(p), whole |-> whole]]

\* What reading a file and validating it come to.
Verdict(step) ==
  LET found == disk[step.path]
  IN IF found = Absent THEN IF step.op = "consult" THEN "ok" ELSE "invalid"
     ELSE IF ~found.whole THEN "invalid"
     ELSE IF found.kind \in Foreign THEN "version"
     ELSE IF found.kind \in step.kinds THEN "ok" ELSE "invalid"

Look(p) ==
  /\ At(p, Reads)
  /\ \/ Verdict(Now(p)) = "ok" /\ Advance(p)
     \/ Now(p).op = "scan" /\ ~disk[File(p)].whole /\ Advance(p)
     \/ Verdict(Now(p)) # "ok" /\ End(p, Verdict(Now(p)))
     \/ \E why \in Now(p).may : End(p, why)
  /\ UNCHANGED <<disk, fresh>>

Decide(p) ==
  /\ At(p, {"check", "fail"})
  /\ (Now(p).op = "check" /\ Advance(p)) \/ \E why \in Now(p).may : End(p, why)
  /\ UNCHANGED <<disk, fresh>>

\* Mutant: an init does not ask whether there is a project.
FindAnyFresh(p) ==
  /\ At(p, {"fresh"})
  /\ Advance(p) /\ fresh' = fresh \cup {Me(p)}
  /\ UNCHANGED disk

FindFresh(p) ==
  /\ At(p, {"fresh"})
  /\ \/ disk[File(p)] = Absent /\ Advance(p) /\ fresh' = fresh \cup {Me(p)}
     \/ disk[File(p)] # Absent /\ End(p, "invalid") /\ UNCHANGED fresh
  /\ UNCHANGED disk

\* The digest of the file is taken, if the file can be read, and compared.
Matches(p) ==
  /\ At(p, {"verify"})
  /\ \/ disk[File(p)].by = Me(p) /\ (Advance(p) \/ Spoil(p, "os"))
     \/ disk[File(p)].by # Me(p) /\ End(p, "os")
     \/ disk[File(p)].by # Me(p) /\ disk[File(p)] # Absent /\ End(p, "invalid")
  /\ UNCHANGED <<disk, fresh>>

\* The temporary file is there and whole; if it cannot be written it is removed.
Prepare(p) ==
  /\ At(p, {"replace", "create"}) /\ job[p].phase = "start"
  /\ Stay(p, "ready") \/ End(p, "os") \/ \E why \in Now(p).may : End(p, why)
  /\ UNCHANGED <<disk, fresh>>

\* Mutant: atomic_write_text writes the target itself.
SwapInPlace(p) ==
  /\ At(p, {"replace"})
  /\ \/ job[p].phase = "ready" /\ Put(p, FALSE) /\ Stay(p, "linked")
     \/ job[p].phase = "linked" /\ Put(p, TRUE) /\ Advance(p)
  /\ UNCHANGED fresh

Swap(p) ==
  /\ At(p, {"replace"}) /\ job[p].phase = "ready"
  /\ \/ Put(p, TRUE) /\ Advance(p)
     \/ UNCHANGED disk /\ End(p, "os")
  /\ UNCHANGED fresh

\* Mutant: the temporary file replaces the target.
LinkOver(p) ==
  /\ At(p, {"create"}) /\ job[p].phase = "ready"
  /\ Put(p, TRUE)
  /\ IF Now(p).may = {} THEN Advance(p) ELSE Stay(p, "linked")
  /\ UNCHANGED fresh

\* The guard once more, then the link; with a guard the file is checked again.  In
\* the end the temporary file is removed, if it can be.
Link(p) ==
  /\ At(p, {"create"}) /\ job[p].phase = "ready"
  /\ \/ /\ disk[File(p)] = Absent
        /\ Put(p, TRUE)
        /\ IF Now(p).may = {} THEN Advance(p) \/ Spoil(p, "os") ELSE Stay(p, "linked")
     \/ disk[File(p)] # Absent /\ UNCHANGED disk /\ End(p, "invalid")
     \/ \E why \in Now(p).may \cup {"os"} : UNCHANGED disk /\ End(p, why)
  /\ UNCHANGED fresh

\* Mutant: a guard that fails after the link leaves the file.
KeepLinked(p) ==
  /\ At(p, {"create"}) /\ job[p].phase = "linked"
  /\ UNCHANGED disk
  /\ Advance(p) \/ \E why \in Now(p).may : End(p, why)
  /\ UNCHANGED fresh

\* If the last guard fails, whatever has the name then is removed, if it can be; and
\* so is the temporary file in any case.
Guard(p) ==
  /\ At(p, {"create"}) /\ job[p].phase = "linked"
  /\ \/ UNCHANGED disk /\ (Advance(p) \/ Spoil(p, "os"))
     \/ /\ disk' = [disk EXCEPT ![File(p)] = Absent]
        /\ \E why \in Now(p).may : End(p, why) \/ End(p, "os")
  /\ UNCHANGED fresh

Truncate(p) ==
  /\ At(p, {"overwrite"}) /\ job[p].phase = "start"
  /\ \/ Put(p, FALSE) /\ Stay(p, "ready")
     \/ UNCHANGED disk /\ End(p, "os")
  /\ UNCHANGED fresh

\* Mutant: a write that fails goes unnoticed.
FillUnnoticed(p) ==
  /\ At(p, {"overwrite"}) /\ job[p].phase = "ready"
  /\ Put(p, TRUE) \/ UNCHANGED disk
  /\ Advance(p)
  /\ UNCHANGED fresh

\* If another process has truncated the file since, the two contents may mix.
Fill(p) ==
  /\ At(p, {"overwrite"}) /\ job[p].phase = "ready"
  /\ \/ Put(p, TRUE) /\ Advance(p)
     \/ disk[File(p)].by # Me(p) /\ Put(p, FALSE) /\ Advance(p)
     \/ UNCHANGED disk /\ End(p, "os")
  /\ UNCHANGED fresh

\* The result is told: a ValueError of its encoding or printing is a refusal like
\* any other (and so is an OSError, which a shell does not tell from it).
Finish(p) ==
  /\ job[p].state = "running" /\ job[p].todo = <<>>
  /\ End(p, "ok") \/ Spoil(p, "invalid")
  /\ UNCHANGED <<disk, fresh>>

\* The process is killed, or ends because it cannot write an answer or tell of a
\* refusal, which nothing catches; what it has written stays.
Die(p) ==
  /\ deaths < MaxDeaths
  /\ job[p].state = "running" \/ (p = Server /\ job[p].state = "idle")
  /\ deaths' = deaths + 1
  /\ job' = [job EXCEPT ![p].state = "dead"]
  /\ UNCHANGED <<disk, lines, next, answers, reports, fresh, late>>

-----------------------------------------------------------------------------
Work(p) ==
  \/ Look(p) \/ Decide(p) \/ FindFresh(p) \/ Matches(p)
  \/ Prepare(p) \/ Swap(p) \/ Link(p) \/ Guard(p)
  \/ Truncate(p) \/ Fill(p) \/ Finish(p)

ServerStep == Receive \/ Work(Server)

Next ==
  \/ \E p \in Shells, steps \in Commands : Type(p, steps)
  \/ \E line \in Line : Send(line)
  \/ Receive
  \/ \E p \in Processes : Work(p) \/ Die(p)

\* The server is not asked to stop: as long as its process lives and there is
\* something to do, it goes on.  Nothing is said of the shells.
Spec == Init /\ [][Next]_vars /\ WF_vars(ServerStep)

-----------------------------------------------------------------------------
(* Properties.                                                             *)

TypeOK ==
  /\ disk \in [Paths -> Content]
  /\ job \in [Processes -> Job]
  /\ lines \in Seq(Line) /\ Len(lines) <= MaxRequests
  /\ next \in 1 .. (Len(lines) + 1)
  /\ answers \in Seq(0 .. MaxRequests)
  /\ deaths \in 0 .. MaxDeaths
  /\ reports \subseteq Report
  /\ fresh \subseteq Authors /\ late \subseteq Authors

\* Whoever looks at a contract, a ledger, photonic.toml or a rendered recipe finds
\* all of it or no file, while any number of processes write it and whenever one
\* of them is killed (atomic_write_text, atomic_create_text).
WholeOrAbsent == \A f \in AtomicFiles : disk[f].whole

\* A request that was refused and had one contract or artifact to write has left
\* nothing, what is there now was written by another request or before; unless
\* something failed after the file had its name: to remove it or its temporary
\* file, to take its digest, to tell of the result.
RefusalLeavesNothing ==
  \A r \in reports :
    (r.why # "ok" /\ ~r.spoilt /\ Single(r.due)) => \A f \in Paths : disk[f].by # r.by

\* What a request reported as written is on the disk: by that request or by a
\* later writer, and an artifact that is created and never replaced by that
\* request for good, so that of two renderings of one file one is refused.
ReportsAreTrue ==
  \A r \in reports : r.why = "ok" =>
    \A f \in r.due :
      \/ disk[f].by = r.by
      \/ f \notin Receipts /\ disk[f] # Absent /\ disk[f].by # Nobody

\* If one init only has passed the check for photonic.toml, and it reported
\* success, the files of the project are there, whole, and all of them its own.
\* (Two that pass it together may leave files of both.)
LoneScaffoldIsWhole ==
  \A r \in reports : (r.why = "ok" /\ Config \in r.due /\ fresh = {r.by}) =>
    \A f \in r.due : disk[f].whole /\ disk[f].by = r.by

\* An init that begins when there is a photonic.toml writes nothing.  So nothing
\* of a project is overwritten, and a scaffold whose process died after its
\* first file stays as it is: no later init completes it.
ProjectsAreSpared == \A f \in Paths : disk[f].by \notin late

\* The lines dealt with that ask for an answer; the place of a line among them is
\* the place of its answer.
Asked == {k \in 1 .. (next - 1) : lines[k].kind # "notice"}
Place(k) == Cardinality({j \in Asked : j <= k})

\* The server answers line by line: every line that is no notification has its
\* answer at its place, with the id of that line or with null.
AnswersInOrder ==
  /\ Len(answers) = Cardinality(Asked)
  /\ \A k \in Asked : answers[Place(k)] \in {0, k}

\* Every line sent is dealt with, unless the server has died or was ended by
\* bytes that are not UTF-8.
EveryRequestIsAnswered ==
  (next <= Len(lines)) ~> (next > Len(lines) \/ job[Server].state = "dead")

\* "The stdio server speaks JSON-RPC 2.0": the answer to a request that has an id
\* names it.
\* (The code answers a call that is refused with a ValueError, which includes
\* InvalidInputError and AssemblyError, as a parse error with the id null.)
AnswersNameRequests ==
  \A k \in Asked : (lines[k].kind = "call" /\ lines[k].named) => answers[Place(k)] # 0
=============================================================================
