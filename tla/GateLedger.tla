------------------------------ MODULE GateLedger ------------------------------
(***************************************************************************)
(* The gate ledger of gates/service.py: verification/gates.json, the calls *)
(* that update one gate of it, and the summary that decides which of the   *)
(* recorded gates still rest on the evidence they were accepted on.        *)
(*                                                                         *)
(* Calls come from processes that know nothing of each other (`photonic    *)
(* gate update`, the MCP server, the library); nothing locks the ledger or *)
(* the evidence.  A look at an evidence file (is it there, is it empty),   *)
(* the reading of it, and every access to the ledger are steps.  A call    *)
(* may stop between any of them, by an exception or with its process: it   *)
(* leaves the ledger as it is, because one save replaces the whole file.   *)
(* A dry run takes the steps of an update that stops before its first save.*)
(*                                                                         *)
(* The SHA-256 of an evidence file is modelled by its content.             *)
(***************************************************************************)
EXTENDS Naturals, FiniteSets

CONSTANTS
  Gates,       \* the gates of the ledger
  Requires,    \* Requires[g]: the evidence checks a pass of g has to map
  AllowsNA,    \* the gates that may be marked not_applicable
  Files,       \* the paths of evidence files
  Contents,    \* what an evidence file may contain, if it is not empty
  Writers,     \* the processes that update the ledger
  MaxEdits,    \* bound: changes of evidence files
  MaxUpdates   \* bound: update calls

ASSUME GatesAssumption ==
  /\ AllowsNA \subseteq Gates
  /\ \A g \in Gates : Requires[g] # {}
ASSUME ContentsAssumption == Contents \cap {"empty", "missing", "none"} = {}
ASSUME LedgerBounds == MaxEdits \in Nat /\ MaxUpdates \in Nat

VARIABLES
  content,     \* content[f]: the content of the file, "empty" or "missing"
  ledger,      \* gates.json: a record per gate, or NoLedger
  calls,       \* calls[w]: the update under way in process w
  survey,      \* the summary under way: what it has loaded and read
  held,        \* history: the contents each file has ever had
  held_now,    \* history: the contents each file has had since the survey began
  wanted,      \* history: the record each gate was last updated to
  overlapped,  \* history: two updates have been under way at once
  edits,       \* bound counter
  updates      \* bound counter

vars == <<content, ledger, calls, survey, held, held_now, wanted,
          overlapped, edits, updates>>

-----------------------------------------------------------------------------
(* Records and their evidence.                                             *)

GateStatus == {"pass", "fail", "blocked", "not_applicable"}
AcceptedStatuses == {"pass", "not_applicable"}

Checks == (UNION {Requires[g] : g \in Gates}) \cup {"applicability"}

\* What may be read from a file that is there.
Texts == Contents \cup {"empty"}

\* One `CHECK=sha256:DIGEST:PATH`; `CHECK=PATH` has no digest yet.
Item == [check : Checks, file : Files, digest : Texts \cup {"none"}]

\* The evidence of a record is mapped to checks, or it is of the kind older
\* versions wrote, a list of paths; only mapped evidence has items here.
Record == [status : GateStatus, mapped : BOOLEAN, items : SUBSET Item]

Default == [status |-> "blocked", mapped |-> FALSE, items |-> {}]

\* A ledger of an older version: its gates were passed without any mapping.
Legacy == [status |-> "pass", mapped |-> FALSE, items |-> {}]

NoLedger == [g \in {} |-> Default]

Expected(gate, status) ==
  IF status = "not_applicable" THEN {"applicability"} ELSE Requires[gate]

\* What _canonicalize_accepted_evidence asks of the list of items: the checks
\* the gate requires, all of them, each of them once.
WellMapped(gate, status, items) ==
  /\ status = "not_applicable" => gate \in AllowsNA
  /\ {i.check : i \in items} = Expected(gate, status)
  /\ \A i, j \in items : i.check = j.check => i = j

\* Mutant: every item hashes its file again.
FreshDigest(cache, file) == content[file]

\* Every call hashes a file once and remembers the digest.
Digest(cache, file) == IF file \in DOMAIN cache THEN cache[file] ELSE content[file]

Remember(cache, file) ==
  [f \in DOMAIN cache \cup {file} |-> Digest(cache, f)]

\* What a look at the file of an item asks, each time it is named: it is there
\* and not empty.
Present(item) == content[item.file] \in Contents

\* Mutant: a digest that was given is not compared.
ResolvesAnyDigest(item, cache) == Digest(cache, item.file) \in Texts

\* The file, looked at before, can be read now or has been read already, and
\* has the digest of the item if it has one.
Resolves(item, cache) ==
  /\ Digest(cache, item.file) \in Texts
  /\ item.digest \in {"none", Digest(cache, item.file)}

NothingRead == [f \in {} |-> "none"]

-----------------------------------------------------------------------------
(* update.                                                                 *)

\* `todo` is the evidence still to be checked, `seen` holds the item of it
\* whose file has been looked at and is read next, `items` is the canonical form
\* of what has been checked.
NoCall == [step |-> "idle", gate |-> "none", status |-> "none", todo |-> {},
           seen |-> {}, items |-> {}, cache |-> NothingRead, loaded |-> NoLedger]

NoSurvey == [step |-> "idle", records |-> NoLedger, todo |-> {}, seen |-> {},
             cache |-> NothingRead, broken |-> {}]

Working(w) == calls[w].step # "idle"

Init ==
  /\ content \in [Files -> Texts \cup {"missing"}]
  /\ ledger \in {NoLedger} \cup {[g \in Gates |-> r] : r \in {Default, Legacy}}
  /\ calls = [w \in Writers |-> NoCall]
  /\ survey = NoSurvey
  /\ held = [f \in Files |-> {content[f]}]
  /\ held_now = [f \in Files |-> {}]
  /\ wanted = ledger
  /\ overlapped = FALSE
  /\ edits = 0 /\ updates = 0

Call(w, call) ==
  calls' = [calls EXCEPT ![w] = call]

Stop(w) ==
  /\ Working(w)
  /\ Call(w, NoCall)
  /\ UNCHANGED <<content, ledger, survey, held, held_now, wanted,
                 overlapped, edits, updates>>

\* An accepted status goes through its evidence before the ledger is opened,
\* any other one keeps whatever evidence it was given, unread.
Update(w, gate, status, items) ==
  /\ ~ Working(w) /\ updates < MaxUpdates
  /\ IF status \in AcceptedStatuses THEN WellMapped(gate, status, items) ELSE items = {}
  /\ Call(w, [step |-> IF items = {} THEN "load" ELSE "hash", gate |-> gate,
              status |-> status, todo |-> items, seen |-> {}, items |-> {},
              cache |-> NothingRead, loaded |-> NoLedger])
  /\ overlapped' = (overlapped \/ \E v \in Writers : Working(v))
  /\ updates' = updates + 1
  /\ UNCHANGED <<content, ledger, survey, held, held_now, wanted, edits>>

\* The next item of the evidence: a file that is not there, or empty, ends the
\* call.
Look(w, item) ==
  LET call == calls[w]
  IN  /\ call.step = "hash" /\ call.seen = {} /\ item \in call.todo
      /\ Call(w, IF Present(item) THEN [call EXCEPT !.seen = {item}] ELSE NoCall)
      /\ UNCHANGED <<content, ledger, survey, held, held_now, wanted,
                     overlapped, edits, updates>>

\* The call with one item more checked, in the form it will be recorded in.
Checked(call, item, canonical) ==
  LET rest == call.todo \ {item}
  IN  [call EXCEPT !.todo = rest,
                   !.seen = {},
                   !.items = @ \cup {canonical},
                   !.cache = Remember(@, item.file),
                   !.step = IF rest = {} THEN "load" ELSE "hash"]

\* Mutant: a digest that was given is taken over.
HashTrusting(w, item) ==
  LET call == calls[w]
      canonical == IF item.digest # "none" THEN item
                   ELSE [item EXCEPT !.digest = Digest(call.cache, item.file)]
  IN  /\ call.step = "hash" /\ item \in call.seen
      /\ Digest(call.cache, item.file) \in Texts
      /\ Call(w, Checked(call, item, canonical))
      /\ UNCHANGED <<content, ledger, survey, held, held_now, wanted,
                     overlapped, edits, updates>>

\* The file of the item is read, unless the call has read it before.  A file
\* that has vanished since the look at it, or has another digest than the one
\* given, ends the call.
Hash(w, item) ==
  LET call == calls[w]
      canonical == [item EXCEPT !.digest = Digest(call.cache, item.file)]
  IN  /\ call.step = "hash" /\ item \in call.seen
      /\ Call(w, IF Resolves(item, call.cache)
                   THEN Checked(call, item, canonical) ELSE NoCall)
      /\ UNCHANGED <<content, ledger, survey, held, held_now, wanted,
                     overlapped, edits, updates>>

\* Mutant: the ledger is created without looking whether it is there.
LoadCreating(w) ==
  /\ calls[w].step = "load"
  /\ Call(w, [calls[w] EXCEPT !.step = "create",
                              !.loaded = [g \in Gates |-> Default]])
  /\ UNCHANGED <<content, ledger, survey, held, held_now, wanted,
                 overlapped, edits, updates>>

\* load(create_if_missing=True): a missing ledger is created with the defaults,
\* which the call then updates.
Load(w) ==
  /\ calls[w].step = "load"
  /\ Call(w, IF ledger = NoLedger
               THEN [calls[w] EXCEPT !.step = "create",
                                     !.loaded = [g \in Gates |-> Default]]
               ELSE [calls[w] EXCEPT !.step = "save", !.loaded = ledger])
  /\ UNCHANGED <<content, ledger, survey, held, held_now, wanted,
                 overlapped, edits, updates>>

Create(w) ==
  /\ calls[w].step = "create"
  /\ ledger' = calls[w].loaded
  /\ Call(w, [calls[w] EXCEPT !.step = "save"])
  /\ wanted' = IF wanted = NoLedger THEN calls[w].loaded ELSE wanted
  /\ UNCHANGED <<content, survey, held, held_now, overlapped, edits, updates>>

Save(w) ==
  LET call == calls[w]
      updated == [status |-> call.status,
                  mapped |-> call.status \in AcceptedStatuses, items |-> call.items]
  IN  /\ call.step = "save"
      /\ ledger' = [call.loaded EXCEPT ![call.gate] = updated]
      /\ wanted' = [wanted EXCEPT ![call.gate] = updated]
      /\ Call(w, NoCall)
      /\ UNCHANGED <<content, survey, held, held_now, overlapped,
                     edits, updates>>

\* Somebody changes, empties or removes an evidence file.
Edit(file, text) ==
  /\ edits < MaxEdits /\ text # content[file]
  /\ content' = [content EXCEPT ![file] = text]
  /\ held' = [held EXCEPT ![file] = @ \cup {text}]
  /\ held_now' = IF survey = NoSurvey THEN held_now
                 ELSE [held_now EXCEPT ![file] = @ \cup {text}]
  /\ edits' = edits + 1
  /\ UNCHANGED <<ledger, calls, survey, wanted, overlapped, updates>>

-----------------------------------------------------------------------------
(* summary.                                                                *)

\* The evidence a summary will read: that of the accepted, mapped records.
ToRead(records) ==
  LET accepted == {g \in Gates : /\ records[g].status \in AcceptedStatuses
                                 /\ records[g].mapped}
  IN  UNION {{<<g, i>> : i \in records[g].items} : g \in accepted}

\* The ledger is loaded once; a missing one is all defaults and not created.
Survey ==
  LET records == IF ledger = NoLedger THEN [g \in Gates |-> Default] ELSE ledger
  IN  /\ survey.step = "idle"
      /\ survey' = [step |-> "read", records |-> records, todo |-> ToRead(records),
                    seen |-> {}, cache |-> NothingRead, broken |-> {}]
      /\ held_now' = [f \in Files |-> {content[f]}]
      /\ UNCHANGED <<content, ledger, calls, held, wanted, overlapped, edits, updates>>

\* The records are evaluated one after the other.
Turn(gate) ==
  \A g \in Gates \ {gate} :
    {t[2] : t \in {u \in survey.todo : u[1] = g}} \in {{}, survey.records[g].items}

\* The first item that does not resolve blocks its gate; the rest of its
\* evidence is not looked at.
Blocked(gate) ==
  [survey EXCEPT !.todo = {t \in @ : t[1] # gate}, !.seen = {},
                 !.broken = @ \cup {gate}]

LookAtItem(gate, item) ==
  /\ survey.seen = {} /\ <<gate, item>> \in survey.todo /\ Turn(gate)
  /\ survey' = IF Present(item) THEN [survey EXCEPT !.seen = {<<gate, item>>}]
               ELSE Blocked(gate)
  /\ UNCHANGED <<content, ledger, calls, held, held_now, wanted,
                 overlapped, edits, updates>>

\* A file that is read is remembered for every other gate that names it, its
\* digest may be the expected one or not.
ReadItem(gate, item) ==
  /\ <<gate, item>> \in survey.seen
  /\ Digest(survey.cache, item.file) \in Texts
  /\ survey' =
       [IF Resolves(item, survey.cache)
          THEN [survey EXCEPT !.todo = @ \ survey.seen, !.seen = {}]
          ELSE Blocked(gate)
        EXCEPT !.cache = Remember(@, item.file)]
  /\ UNCHANGED <<content, ledger, calls, held, held_now, wanted,
                 overlapped, edits, updates>>

\* A file that has vanished since the look at it: the OSError is not one of the
\* errors a record is blocked for, and ends the summary.
FailToRead(gate, item) ==
  /\ <<gate, item>> \in survey.seen
  /\ Digest(survey.cache, item.file) \notin Texts
  /\ survey' = NoSurvey
  /\ held_now' = [f \in Files |-> {}]
  /\ UNCHANGED <<content, ledger, calls, held, wanted, overlapped, edits, updates>>

\* Mutant: broken evidence does not change the status of the record.
EffectiveAsRecorded(gate) ==
  LET record == survey.records[gate]
  IN  IF record.status \notin AcceptedStatuses THEN record.status
      ELSE IF ~ record.mapped THEN "unverified"
      ELSE record.status

Effective(gate) ==
  LET record == survey.records[gate]
  IN  IF record.status \notin AcceptedStatuses THEN record.status
      ELSE IF ~ record.mapped THEN "unverified"
      ELSE IF gate \in survey.broken THEN "blocked"
      ELSE record.status

\* What the summary returns once everything is read.
Complete == survey.step = "read" /\ survey.todo = {}

Verified(gate) == Complete /\ Effective(gate) \in AcceptedStatuses

Report ==
  /\ Complete
  /\ survey' = NoSurvey
  /\ held_now' = [f \in Files |-> {}]
  /\ UNCHANGED <<content, ledger, calls, held, wanted, overlapped, edits, updates>>

-----------------------------------------------------------------------------
\* The evidence a caller maps: each check to a file and perhaps the digest of
\* it.  A call that maps other checks than those expected leaves no trace.
Evidence(gate, status) ==
  LET mappings == [Expected(gate, status) ->
                     [file : Files, digest : Contents \cup {"none"}]]
  IN  IF status \in AcceptedStatuses
        THEN {{[check |-> k, file |-> m[k].file, digest |-> m[k].digest] :
                 k \in DOMAIN m} : m \in mappings}
        ELSE {{}}

WriterStep(w) ==
  \/ \E g \in Gates, s \in GateStatus :
       \E items \in Evidence(g, s) : Update(w, g, s, items)
  \/ \E item \in calls[w].todo : Look(w, item)
  \/ \E item \in calls[w].seen : Hash(w, item)
  \/ Load(w)
  \/ Create(w)
  \/ Save(w)
  \/ Stop(w)

Summary ==
  \/ Survey
  \/ \E t \in survey.todo : LookAtItem(t[1], t[2])
  \/ \E t \in survey.seen : ReadItem(t[1], t[2]) \/ FailToRead(t[1], t[2])
  \/ Report

Next ==
  \/ \E w \in Writers : WriterStep(w)
  \/ Summary
  \/ \E f \in Files, text \in Texts \cup {"missing"} : Edit(f, text)

Spec == Init /\ [][Next]_vars

-----------------------------------------------------------------------------
(* Properties.                                                             *)

Cache == UNION {[files -> Texts] : files \in SUBSET Files}
Ledgers == [Gates -> Record] \cup {NoLedger}

CallState ==
  [step : {"idle", "hash", "load", "create", "save"},
   gate : Gates \cup {"none"}, status : GateStatus \cup {"none"},
   todo : SUBSET Item, seen : SUBSET Item, items : SUBSET Item,
   cache : Cache, loaded : Ledgers]

SurveyState ==
  [step : {"idle", "read"}, records : Ledgers, todo : SUBSET (Gates \X Item),
   seen : SUBSET (Gates \X Item), cache : Cache, broken : SUBSET Gates]

\* The type invariant.  A digest is remembered only of a file that was there.
TypeOK ==
  /\ content \in [Files -> Texts \cup {"missing"}]
  /\ ledger \in Ledgers /\ wanted \in Ledgers
  /\ calls \in [Writers -> CallState]
  /\ \A w \in Writers :
       Working(w) => calls[w].gate \in Gates /\ calls[w].status \in GateStatus
  /\ survey \in SurveyState
  /\ held \in [Files -> SUBSET (Texts \cup {"missing"})]
  /\ held_now \in [Files -> SUBSET (Texts \cup {"missing"})]
  /\ overlapped \in BOOLEAN
  /\ edits \in 0 .. MaxEdits /\ updates \in 0 .. MaxUpdates

\* A record that says its evidence is mapped maps what its gate requires, and
\* every file it names once was there and not empty, and once had the recorded
\* digest (not always at the same time, see Look and Hash): whatever updates
\* overlap, lose each other's work, or stop half way.
EvidenceWasThere ==
  \A g \in DOMAIN ledger : ledger[g].mapped =>
    /\ WellMapped(g, ledger[g].status, ledger[g].items)
    /\ \A i \in ledger[g].items :
         i.digest \in held[i.file] /\ held[i.file] \cap Contents # {}

\* While no two updates overlap, nothing of what they recorded is lost, the
\* creation of the ledger and the updates that stopped half way included.
SerialUpdatesAreKept == ~ overlapped => ledger = wanted

\* A gate that a summary calls passed (or not applicable) maps all its checks
\* to files that were there and not empty at some time during the summary, and
\* had the recorded content at some time during it.
VerifiedEvidenceWasSeen ==
  \A g \in Gates : Verified(g) =>
    LET record == survey.records[g]
    IN  /\ WellMapped(g, record.status, record.items)
        /\ \A i \in record.items :
             i.digest \in held_now[i.file] /\ held_now[i.file] \cap Contents # {}

\* One summary relies on one content of a file, however many gates name the
\* file and whoever changes it in between.
OneContentPerSummary ==
  \A g, h \in Gates : Verified(g) /\ Verified(h) =>
    \A i \in survey.records[g].items, j \in survey.records[h].items :
      i.file = j.file => i.digest = j.digest

\* If no evidence changes while a summary runs, it verifies exactly the mapped
\* records whose evidence is there, unchanged.
QuietSummaryIsExact ==
  Complete /\ (\A f \in Files : held_now[f] = {content[f]})
    => \A g \in Gates :
         LET record == survey.records[g]
         IN  Effective(g) \in AcceptedStatuses <=>
               /\ record.status \in AcceptedStatuses /\ record.mapped
               /\ \A i \in record.items : Present(i) /\ content[i.file] = i.digest
=============================================================================
