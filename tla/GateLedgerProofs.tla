--------------------------- MODULE GateLedgerProofs ---------------------------
(***************************************************************************)
(* What GateLedger guarantees for every set of gates, evidence files and   *)
(* writers, and for every bound.                                           *)
(***************************************************************************)
EXTENDS GateLedger, TLAPS

-----------------------------------------------------------------------------
(* The records of the calls.                                               *)

\* Nothing under way.
LEMMA NoCallType == NoCall \in CallState /\ NoSurvey \in SurveyState
<1>1. NothingRead \in [{} -> Texts]
  BY DEF NothingRead
<1>2. NothingRead \in Cache
  BY <1>1 DEF Cache
<1>3. NoLedger \in Ledgers
  BY DEF Ledgers
<1>4. QED
  BY <1>2, <1>3 DEF NoCall, NoSurvey, CallState, SurveyState

LEMMA DefaultsType ==
  /\ Default \in Record /\ Legacy \in Record
  /\ [g \in Gates |-> Default] \in Ledgers
  /\ [g \in Gates |-> Legacy] \in Ledgers
<1>1. Default \in Record /\ Legacy \in Record
  BY DEF Default, Legacy, Record, GateStatus
<1>2. QED
  BY <1>1 DEF Ledgers

\* The cache after the file was read, or found in it.
LEMMA RememberType ==
  ASSUME NEW cache \in Cache, NEW file \in Files, Digest(cache, file) \in Texts
  PROVE  /\ Remember(cache, file) \in Cache
         /\ DOMAIN Remember(cache, file) = DOMAIN cache \cup {file}
         /\ \A f \in DOMAIN cache : Remember(cache, file)[f] = cache[f]
         /\ Remember(cache, file)[file] = Digest(cache, file)
<1>1. PICK files \in SUBSET Files : cache \in [files -> Texts]
  BY DEF Cache
<1>2. DOMAIN cache = files
  BY <1>1
<1>3. \A f \in files : Digest(cache, f) = cache[f]
  BY <1>2 DEF Digest
<1>4. Remember(cache, file) = [f \in files \cup {file} |-> Digest(cache, f)]
  BY <1>2 DEF Remember
<1>5. Remember(cache, file) \in [files \cup {file} -> Texts]
  BY <1>1, <1>3, <1>4
<1>6. files \cup {file} \in SUBSET Files
  OBVIOUS
<1>7. Remember(cache, file) \in Cache
  BY <1>5, <1>6 DEF Cache
<1>8. QED
  BY <1>2, <1>3, <1>4, <1>7

\* An item whose file was read, in its canonical form.
LEMMA CanonicalType ==
  ASSUME NEW item \in Item, NEW digest \in Texts
  PROVE  /\ [item EXCEPT !.digest = digest] \in Item
         /\ [item EXCEPT !.digest = digest].check = item.check
         /\ [item EXCEPT !.digest = digest].file = item.file
         /\ [item EXCEPT !.digest = digest].digest = digest
BY DEF Item

\* A call with one item more checked.
LEMMA CheckedType ==
  ASSUME NEW call \in CallState, NEW item \in Item, NEW canonical \in Item,
         Digest(call.cache, item.file) \in Texts
  PROVE  /\ Checked(call, item, canonical) \in CallState
         /\ Checked(call, item, canonical).gate = call.gate
         /\ Checked(call, item, canonical).status = call.status
         /\ Checked(call, item, canonical).todo = call.todo \ {item}
         /\ Checked(call, item, canonical).seen = {}
         /\ Checked(call, item, canonical).items = call.items \cup {canonical}
         /\ Checked(call, item, canonical).cache = Remember(call.cache, item.file)
         /\ Checked(call, item, canonical).loaded = call.loaded
         /\ Checked(call, item, canonical).step =
              IF call.todo \ {item} = {} THEN "load" ELSE "hash"
<1>1. item.file \in Files /\ call.cache \in Cache
  BY DEF Item, CallState
<1>2. Remember(call.cache, item.file) \in Cache
  BY <1>1, RememberType
<1>3. QED
  BY <1>2 DEF Checked, CallState

-----------------------------------------------------------------------------
(* The type invariant.                                                     *)

LEMMA TypeInitially == Init => TypeOK
<1> SUFFICES ASSUME Init PROVE TypeOK
  OBVIOUS
<1>1. ledger \in Ledgers /\ wanted \in Ledgers
  BY DefaultsType DEF Init, Ledgers
<1>2. calls \in [Writers -> CallState] /\ \A w \in Writers : ~ Working(w)
  BY NoCallType DEF Init, Working, NoCall
<1>3. survey \in SurveyState
  BY NoCallType DEF Init
<1>4. content \in [Files -> Texts \cup {"missing"}]
  BY DEF Init
<1>5. /\ held \in [Files -> SUBSET (Texts \cup {"missing"})]
      /\ held_now \in [Files -> SUBSET (Texts \cup {"missing"})]
  BY <1>4 DEF Init
<1>6. edits \in 0 .. MaxEdits /\ updates \in 0 .. MaxUpdates
  BY LedgerBounds DEF Init
<1>7. overlapped \in BOOLEAN
  BY DEF Init
<1>8. QED
  BY <1>1, <1>2, <1>3, <1>4, <1>5, <1>6, <1>7 DEF TypeOK

\* A step of one call that leaves everything else alone.
LEMMA CallType ==
  ASSUME TypeOK, NEW w \in Writers, NEW call \in CallState, Call(w, call),
         call.step = "idle" \/ (call.gate \in Gates /\ call.status \in GateStatus)
  PROVE  /\ calls' \in [Writers -> CallState]
         /\ \A v \in Writers :
              Working(v)' => calls'[v].gate \in Gates /\ calls'[v].status \in GateStatus
<1>1. calls' = [calls EXCEPT ![w] = call] /\ calls \in [Writers -> CallState]
  BY DEF Call, TypeOK
<1>2. calls' \in [Writers -> CallState]
  BY <1>1
<1>3. \A v \in Writers :
        Working(v)' => calls'[v].gate \in Gates /\ calls'[v].status \in GateStatus
  <2> SUFFICES ASSUME NEW v \in Writers, calls'[v].step # "idle"
               PROVE  calls'[v].gate \in Gates /\ calls'[v].status \in GateStatus
    BY DEF Working
  <2>1. CASE v = w
    BY <1>1, <2>1
  <2>2. CASE v # w
    BY <1>1, <2>2 DEF TypeOK, Working
  <2>3. QED
    BY <2>1, <2>2
<1>4. QED
  BY <1>2, <1>3

LEMMA UpdateType ==
  ASSUME TypeOK, NEW w \in Writers, NEW g \in Gates, NEW s \in GateStatus,
         NEW items \in SUBSET Item, Update(w, g, s, items)
  PROVE  TypeOK'
<1> DEFINE call == [step |-> IF items = {} THEN "load" ELSE "hash", gate |-> g,
                    status |-> s, todo |-> items, seen |-> {}, items |-> {},
                    cache |-> NothingRead, loaded |-> NoLedger]
<1>1. call \in CallState
  BY NoCallType DEF NoCall, CallState
<1>2. Call(w, call) /\ call.gate = g /\ call.status = s
  BY DEF Update
<1> HIDE DEF call
<1>3. /\ calls' \in [Writers -> CallState]
      /\ \A v \in Writers :
           Working(v)' => calls'[v].gate \in Gates /\ calls'[v].status \in GateStatus
  BY <1>1, <1>2, CallType
<1>4. updates' \in 0 .. MaxUpdates
  BY LedgerBounds DEF Update, TypeOK
<1>5. overlapped' \in BOOLEAN
  BY DEF Update, TypeOK
<1>6. UNCHANGED <<content, ledger, survey, held, held_now, wanted, edits>>
  BY DEF Update
<1>7. QED
  BY <1>3, <1>4, <1>5, <1>6 DEF TypeOK

\* The evidence a caller maps is made of items.
LEMMA EvidenceType ==
  ASSUME NEW g \in Gates, NEW s \in GateStatus, NEW items \in Evidence(g, s)
  PROVE  items \in SUBSET Item
<1>1. Expected(g, s) \subseteq Checks
  BY DEF Expected, Checks
<1>2. CASE s \notin AcceptedStatuses
  BY <1>2 DEF Evidence
<1>3. CASE s \in AcceptedStatuses
  <2>1. PICK m \in [Expected(g, s) -> [file : Files, digest : Contents \cup {"none"}]] :
          items = {[check |-> k, file |-> m[k].file, digest |-> m[k].digest] :
                     k \in DOMAIN m}
    BY <1>3 DEF Evidence
  <2>2. \A k \in Expected(g, s) : m[k].file \in Files /\ m[k].digest \in Contents \cup {"none"}
    OBVIOUS
  <2>3. ASSUME NEW i \in items PROVE i \in Item
    <3>1. PICK k \in Expected(g, s) :
            i = [check |-> k, file |-> m[k].file, digest |-> m[k].digest]
      BY <2>1, <2>3
    <3>2. QED
      BY <1>1, <2>2, <3>1 DEF Item, Texts
  <2>4. QED
    BY <2>3
<1>4. QED
  BY <1>2, <1>3

LEMMA LookType ==
  ASSUME TypeOK, NEW w \in Writers, NEW item \in calls[w].todo, Look(w, item)
  PROVE  TypeOK'
<1> DEFINE call == IF Present(item) THEN [calls[w] EXCEPT !.seen = {item}] ELSE NoCall
<1>1. calls[w] \in CallState /\ item \in Item
  BY DEF TypeOK, CallState
<1>2. call \in CallState
  BY <1>1, NoCallType DEF CallState
<1>3. call.step = "idle" \/ (call.gate \in Gates /\ call.status \in GateStatus)
  BY <1>1 DEF TypeOK, Working, Look, NoCall, CallState
<1>4. Call(w, call) /\ UNCHANGED <<content, ledger, survey, held, held_now, wanted,
                                  overlapped, edits, updates>>
  BY DEF Look
<1> HIDE DEF call
<1>5. /\ calls' \in [Writers -> CallState]
      /\ \A v \in Writers :
           Working(v)' => calls'[v].gate \in Gates /\ calls'[v].status \in GateStatus
  BY <1>2, <1>3, <1>4, CallType
<1>6. QED
  BY <1>4, <1>5 DEF TypeOK

LEMMA HashType ==
  ASSUME TypeOK, NEW w \in Writers, NEW item \in calls[w].seen, Hash(w, item)
  PROVE  TypeOK'
<1> DEFINE digest == Digest(calls[w].cache, item.file)
           canonical == [item EXCEPT !.digest = digest]
           call == IF Resolves(item, calls[w].cache)
                     THEN Checked(calls[w], item, canonical) ELSE NoCall
<1>1. calls[w] \in CallState /\ item \in Item
  BY DEF TypeOK, CallState
<1>2. Call(w, call) /\ UNCHANGED <<content, ledger, survey, held, held_now, wanted,
                                  overlapped, edits, updates>>
  BY DEF Hash
<1>3. CASE Resolves(item, calls[w].cache)
  <2>1. digest \in Texts
    BY <1>3 DEF Resolves
  <2>2. canonical \in Item
    BY <1>1, <2>1, CanonicalType
  <2> HIDE DEF canonical
  <2>3. call = Checked(calls[w], item, canonical)
    BY <1>3
  <2>4. /\ call \in CallState
        /\ call.gate = calls[w].gate /\ call.status = calls[w].status
    BY <1>1, <2>1, <2>2, <2>3, CheckedType
  <2>5. calls[w].gate \in Gates /\ calls[w].status \in GateStatus
    BY DEF TypeOK, Working, Hash
  <2> HIDE DEF call
  <2>6. /\ calls' \in [Writers -> CallState]
        /\ \A v \in Writers :
             Working(v)' => calls'[v].gate \in Gates /\ calls'[v].status \in GateStatus
    BY <1>2, <2>4, <2>5, CallType
  <2>7. QED
    BY <1>2, <2>6 DEF TypeOK
<1>4. CASE ~ Resolves(item, calls[w].cache)
  <2>1. call = NoCall /\ NoCall.step = "idle"
    BY <1>4 DEF NoCall
  <2> HIDE DEF call
  <2>2. /\ calls' \in [Writers -> CallState]
        /\ \A v \in Writers :
             Working(v)' => calls'[v].gate \in Gates /\ calls'[v].status \in GateStatus
    BY <1>2, <2>1, NoCallType, CallType
  <2>3. QED
    BY <1>2, <2>2 DEF TypeOK
<1>5. QED
  BY <1>3, <1>4

LEMMA StopType ==
  ASSUME TypeOK, NEW w \in Writers, Stop(w)
  PROVE  TypeOK'
<1>1. Call(w, NoCall) /\ NoCall.step = "idle"
  BY DEF Stop, NoCall
<1>2. /\ calls' \in [Writers -> CallState]
      /\ \A v \in Writers :
           Working(v)' => calls'[v].gate \in Gates /\ calls'[v].status \in GateStatus
  BY <1>1, NoCallType, CallType
<1>3. QED
  BY <1>2 DEF TypeOK, Stop

LEMMA LoadType ==
  ASSUME TypeOK, NEW w \in Writers, Load(w)
  PROVE  TypeOK'
<1> DEFINE call == IF ledger = NoLedger
                     THEN [calls[w] EXCEPT !.step = "create",
                                           !.loaded = [g \in Gates |-> Default]]
                     ELSE [calls[w] EXCEPT !.step = "save", !.loaded = ledger]
<1>1. calls[w] \in CallState /\ ledger \in Ledgers
  BY DEF TypeOK
<1>2. /\ call \in CallState
      /\ call.gate = calls[w].gate /\ call.status = calls[w].status
  BY <1>1, DefaultsType DEF CallState
<1>3. calls[w].gate \in Gates /\ calls[w].status \in GateStatus
  BY DEF TypeOK, Working, Load
<1>4. Call(w, call) /\ UNCHANGED <<content, ledger, survey, held, held_now, wanted,
                                  overlapped, edits, updates>>
  BY DEF Load
<1> HIDE DEF call
<1>5. /\ calls' \in [Writers -> CallState]
      /\ \A v \in Writers :
           Working(v)' => calls'[v].gate \in Gates /\ calls'[v].status \in GateStatus
  BY <1>2, <1>3, <1>4, CallType
<1>6. QED
  BY <1>4, <1>5 DEF TypeOK

LEMMA CreateType ==
  ASSUME TypeOK, NEW w \in Writers, Create(w)
  PROVE  TypeOK'
<1> DEFINE call == [calls[w] EXCEPT !.step = "save"]
<1>1. calls[w] \in CallState
  BY DEF TypeOK
<1>2. /\ call \in CallState /\ calls[w].loaded \in Ledgers
      /\ call.gate = calls[w].gate /\ call.status = calls[w].status
  BY <1>1 DEF CallState
<1>3. calls[w].gate \in Gates /\ calls[w].status \in GateStatus
  BY DEF TypeOK, Working, Create
<1>4. Call(w, call)
  BY DEF Create
<1> HIDE DEF call
<1>5. /\ calls' \in [Writers -> CallState]
      /\ \A v \in Writers :
           Working(v)' => calls'[v].gate \in Gates /\ calls'[v].status \in GateStatus
  BY <1>2, <1>3, <1>4, CallType
<1>6. ledger' \in Ledgers /\ wanted' \in Ledgers
  BY <1>2 DEF Create, TypeOK
<1>7. QED
  BY <1>5, <1>6 DEF TypeOK, Create

\* The record an update saves.
LEMMA SavedType ==
  ASSUME NEW records \in Ledgers, NEW g \in Gates, NEW r \in Record
  PROVE  [records EXCEPT ![g] = r] \in Ledgers
<1>1. CASE records \in [Gates -> Record]
  BY <1>1 DEF Ledgers
<1>2. CASE records = NoLedger
  <2>1. [NoLedger EXCEPT ![g] = r] = NoLedger
    BY DEF NoLedger
  <2>2. QED
    BY <1>2, <2>1 DEF Ledgers
<1>3. QED
  BY <1>1, <1>2 DEF Ledgers

LEMMA SaveType ==
  ASSUME TypeOK, NEW w \in Writers, Save(w)
  PROVE  TypeOK'
<1> DEFINE updated == [status |-> calls[w].status,
                       mapped |-> calls[w].status \in AcceptedStatuses,
                       items |-> calls[w].items]
<1>1. calls[w] \in CallState /\ wanted \in Ledgers
  BY DEF TypeOK
<1>2. calls[w].loaded \in Ledgers /\ calls[w].items \in SUBSET Item
  BY <1>1 DEF CallState
<1>3. calls[w].gate \in Gates /\ calls[w].status \in GateStatus
  BY DEF TypeOK, Working, Save
<1>4. updated \in Record
  BY <1>2, <1>3 DEF Record
<1>5. /\ ledger' = [calls[w].loaded EXCEPT ![calls[w].gate] = updated]
      /\ wanted' = [wanted EXCEPT ![calls[w].gate] = updated]
      /\ Call(w, NoCall) /\ NoCall.step = "idle"
  BY DEF Save, NoCall
<1> HIDE DEF updated
<1>6. ledger' \in Ledgers /\ wanted' \in Ledgers
  BY <1>1, <1>2, <1>3, <1>4, <1>5, SavedType
<1>7. /\ calls' \in [Writers -> CallState]
      /\ \A v \in Writers :
           Working(v)' => calls'[v].gate \in Gates /\ calls'[v].status \in GateStatus
  BY <1>5, NoCallType, CallType
<1>8. QED
  BY <1>6, <1>7 DEF TypeOK, Save

\* One summary step that leaves everything else alone.
LEMMA SurveyStateType ==
  ASSUME TypeOK, survey' \in SurveyState,
         held_now' \in [Files -> SUBSET (Texts \cup {"missing"})],
         UNCHANGED <<content, ledger, calls, held, wanted, overlapped, edits, updates>>
  PROVE  TypeOK'
BY DEF TypeOK, Working

LEMMA SurveyType ==
  ASSUME TypeOK, Survey
  PROVE  TypeOK'
<1> DEFINE records == IF ledger = NoLedger THEN [g \in Gates |-> Default] ELSE ledger
<1>1. records \in [Gates -> Record]
  BY DefaultsType DEF TypeOK, Ledgers
<1> HIDE DEF records
<1>2. ToRead(records) \in SUBSET (Gates \X Item)
  BY <1>1 DEF ToRead, Record
<1>3. survey' = [step |-> "read", records |-> records, todo |-> ToRead(records),
                 seen |-> {}, cache |-> NothingRead, broken |-> {}]
  BY DEF Survey, records
<1>4. survey' \in SurveyState
  BY <1>1, <1>2, <1>3, NoCallType DEF SurveyState, NoSurvey, Ledgers
<1>5. held_now' \in [Files -> SUBSET (Texts \cup {"missing"})]
  BY DEF Survey, TypeOK
<1>6. QED
  BY <1>4, <1>5, SurveyStateType DEF Survey

LEMMA BlockedType ==
  ASSUME TypeOK, NEW g \in Gates
  PROVE  Blocked(g) \in SurveyState
BY ZenonT(60) DEF Blocked, TypeOK, SurveyState

LEMMA LookAtItemType ==
  ASSUME TypeOK, NEW t \in survey.todo, LookAtItem(t[1], t[2])
  PROVE  TypeOK'
<1>1. survey \in SurveyState
  BY DEF TypeOK
<1>2. t[1] \in Gates /\ t = <<t[1], t[2]>> /\ {t} \subseteq survey.todo
  BY <1>1 DEF SurveyState
<1>3. [survey EXCEPT !.seen = {t}] \in SurveyState
  BY <1>1, <1>2 DEF SurveyState
<1>4. Blocked(t[1]) \in SurveyState
  BY <1>2, BlockedType
<1>5. survey' = IF Present(t[2]) THEN [survey EXCEPT !.seen = {t}] ELSE Blocked(t[1])
  BY <1>2 DEF LookAtItem
<1>6. QED
  BY <1>3, <1>4, <1>5, SurveyStateType DEF LookAtItem, TypeOK

LEMMA ReadItemType ==
  ASSUME TypeOK, NEW t \in survey.seen, ReadItem(t[1], t[2])
  PROVE  TypeOK'
<1> DEFINE next == IF Resolves(t[2], survey.cache)
                     THEN [survey EXCEPT !.todo = @ \ survey.seen, !.seen = {}]
                     ELSE Blocked(t[1])
<1>1. survey \in SurveyState
  BY DEF TypeOK
<1>2. t[1] \in Gates /\ t[2].file \in Files /\ survey.cache \in Cache
  BY <1>1 DEF SurveyState, Item
<1>3. next \in SurveyState /\ next.cache = survey.cache
  <2>1. [survey EXCEPT !.todo = @ \ survey.seen, !.seen = {}] \in SurveyState
    BY <1>1 DEF SurveyState
  <2>2. Blocked(t[1]) \in SurveyState
    BY <1>2, BlockedType
  <2>3. next.cache = survey.cache
    BY <1>1 DEF Blocked, SurveyState
  <2>4. QED
    BY <2>1, <2>2, <2>3
<1>4. survey' = [next EXCEPT !.cache = Remember(@, t[2].file)]
  BY DEF ReadItem
<1> HIDE DEF next
<1>5. Remember(survey.cache, t[2].file) \in Cache
  BY <1>2, RememberType DEF ReadItem
<1>6. survey' \in SurveyState
  BY <1>3, <1>4, <1>5 DEF SurveyState
<1>7. QED
  BY <1>6, SurveyStateType DEF ReadItem, TypeOK

LEMMA ReportType ==
  ASSUME TypeOK, survey' = NoSurvey, held_now' = [f \in Files |-> {}],
         UNCHANGED <<content, ledger, calls, held, wanted, overlapped, edits, updates>>
  PROVE  TypeOK'
BY NoCallType, SurveyStateType

LEMMA EditType ==
  ASSUME TypeOK, NEW f \in Files, NEW text \in Texts \cup {"missing"}, Edit(f, text)
  PROVE  TypeOK'
<1>1. content' \in [Files -> Texts \cup {"missing"}]
  BY DEF Edit, TypeOK
<1>2. held' \in [Files -> SUBSET (Texts \cup {"missing"})]
  BY DEF Edit, TypeOK
<1>3. held_now' \in [Files -> SUBSET (Texts \cup {"missing"})]
  BY DEF Edit, TypeOK
<1>4. edits' \in 0 .. MaxEdits
  BY LedgerBounds DEF Edit, TypeOK
<1>5. QED
  BY <1>1, <1>2, <1>3, <1>4 DEF Edit, TypeOK, Working

LEMMA TypeStep == TypeOK /\ [Next]_vars => TypeOK'
<1> SUFFICES ASSUME TypeOK, [Next]_vars PROVE TypeOK'
  OBVIOUS
<1>1. ASSUME NEW w \in Writers, WriterStep(w) PROVE TypeOK'
  <2>1. ASSUME NEW g \in Gates, NEW s \in GateStatus, NEW items \in Evidence(g, s),
               Update(w, g, s, items)
        PROVE  TypeOK'
    <3>1. items \in SUBSET Item
      BY EvidenceType
    <3>2. QED
      BY <2>1, <3>1, UpdateType
  <2>2. QED
    BY <1>1, <2>1, LookType, HashType, LoadType, CreateType, SaveType, StopType
       DEF WriterStep
<1>2. ASSUME Summary PROVE TypeOK'
  <2>1. CASE Survey
    BY <2>1, SurveyType
  <2>2. CASE \E t \in survey.todo : LookAtItem(t[1], t[2])
    BY <2>2, LookAtItemType
  <2>3. CASE \E t \in survey.seen : ReadItem(t[1], t[2])
    BY <2>3, ReadItemType
  <2>4. CASE \E t \in survey.seen : FailToRead(t[1], t[2])
    BY <2>4, ReportType DEF FailToRead
  <2>5. CASE Report
    BY <2>5, ReportType DEF Report
  <2>6. QED
    BY <1>2, <2>1, <2>2, <2>3, <2>4, <2>5 DEF Summary
<1>3. ASSUME NEW f \in Files, NEW text \in Texts \cup {"missing"}, Edit(f, text)
      PROVE  TypeOK'
  BY <1>3, EditType
<1>4. CASE UNCHANGED vars
  BY <1>4 DEF vars, TypeOK, Working
<1>5. QED
  BY <1>1, <1>2, <1>3, <1>4 DEF Next

\* Whatever updates and summaries overlap, the ledger stays one that `load`
\* accepts, and no digest is remembered of a file that was not there.
THEOREM LedgerTypeCorrect == Spec => []TypeOK
<1>1. QED
  BY TypeInitially, TypeStep, PTL DEF Spec

-----------------------------------------------------------------------------
(* Evidence.                                                               *)

\* The file of the item was there, and had the digest, at some time.
Was(item, past) ==
  item.digest \in past[item.file] /\ past[item.file] \cap Contents # {}

\* EvidenceWasThere, of any ledger: the stored one, or one a call has loaded.
Sound(records) ==
  \A g \in DOMAIN records : records[g].mapped =>
    /\ WellMapped(g, records[g].status, records[g].items)
    /\ \A i \in records[g].items : Was(i, held)

\* A call that is checking evidence: the items checked and those still to be
\* checked are together what the gate requires, the checked ones were there.
SoundCall(call) ==
  /\ call.status \in AcceptedStatuses =>
       WellMapped(call.gate, call.status, call.items \cup call.todo)
  /\ \A i, j \in call.todo : i.check = j.check => i = j
  /\ \A i \in call.items, j \in call.todo : i.check # j.check
  /\ \A i \in call.items : Was(i, held)
  /\ call.seen \subseteq call.todo
  /\ \A i \in call.seen : held[i.file] \cap Contents # {}
  /\ \A f \in DOMAIN call.cache : call.cache[f] \in held[f]
  /\ call.step \in {"load", "create", "save"} => call.todo = {}
  /\ Sound(call.loaded)

\* The inductive invariant: what is stored and what is on the way there.
EvidenceInv ==
  /\ \A f \in Files : content[f] \in held[f]
  /\ Sound(ledger)
  /\ \A w \in Writers : SoundCall(calls[w])

LEMMA NothingIsSound ==
  /\ Sound(NoLedger) /\ Sound([g \in Gates |-> Default])
  /\ Sound([g \in Gates |-> Legacy])
  /\ SoundCall(NoCall)
<1>1. Sound(NoLedger) /\ Sound([g \in Gates |-> Default]) /\ Sound([g \in Gates |-> Legacy])
  BY DEF Sound, NoLedger, Default, Legacy
<1>2. SoundCall(NoCall)
  BY <1>1 DEF SoundCall, NoCall, NothingRead, AcceptedStatuses
<1>3. QED
  BY <1>1, <1>2

LEMMA EvidenceInitially == Init => EvidenceInv
<1> SUFFICES ASSUME Init PROVE EvidenceInv
  OBVIOUS
<1>1. Sound(ledger)
  BY NothingIsSound DEF Init
<1>2. \A w \in Writers : SoundCall(calls[w])
  BY NothingIsSound DEF Init
<1>3. \A f \in Files : content[f] \in held[f]
  BY DEF Init
<1>4. QED
  BY <1>1, <1>2, <1>3 DEF EvidenceInv

\* A step that takes one call from a sound state to a sound state.
LEMMA CallSound ==
  ASSUME TypeOK, EvidenceInv, NEW w \in Writers, NEW call, SoundCall(call), Call(w, call),
         UNCHANGED <<content, held>>, Sound(ledger')
  PROVE  EvidenceInv'
<1>1. \A v \in Writers : calls'[v] = call \/ calls'[v] = calls[v]
  BY DEF Call, TypeOK
<1>2. \A v \in Writers : SoundCall(calls'[v])
  BY <1>1 DEF EvidenceInv
<1>3. (\A v \in Writers : SoundCall(calls[v]))'
  BY <1>2 DEF SoundCall, Sound, Was
<1>4. Sound(ledger)'
  BY DEF Sound, Was
<1>5. QED
  BY <1>3, <1>4 DEF EvidenceInv

LEMMA UpdateSound ==
  ASSUME TypeOK, EvidenceInv, NEW w \in Writers, NEW g \in Gates, NEW s \in GateStatus,
         NEW items \in SUBSET Item, Update(w, g, s, items)
  PROVE  EvidenceInv'
<1> DEFINE call == [step |-> IF items = {} THEN "load" ELSE "hash", gate |-> g,
                    status |-> s, todo |-> items, seen |-> {}, items |-> {},
                    cache |-> NothingRead, loaded |-> NoLedger]
<1>1. s \in AcceptedStatuses => WellMapped(g, s, {} \cup items)
  BY DEF Update
<1>2. SoundCall(call)
  <2>1. \A i, j \in items : i.check = j.check => i = j
    BY <1>1 DEF Update, WellMapped
  <2>2. QED
    BY <1>1, <2>1, NothingIsSound DEF SoundCall, NothingRead
<1>3. Call(w, call) /\ UNCHANGED <<content, held, ledger>>
  BY DEF Update
<1> HIDE DEF call
<1>4. QED
  BY <1>2, <1>3, CallSound DEF EvidenceInv

LEMMA LookSound ==
  ASSUME TypeOK, EvidenceInv, NEW w \in Writers, NEW item \in calls[w].todo, Look(w, item)
  PROVE  EvidenceInv'
<1> DEFINE call == IF Present(item) THEN [calls[w] EXCEPT !.seen = {item}] ELSE NoCall
<1>1. calls[w] \in CallState /\ item \in Item /\ SoundCall(calls[w])
  BY DEF TypeOK, CallState, EvidenceInv
<1>2. ASSUME Present(item) PROVE SoundCall([calls[w] EXCEPT !.seen = {item}])
  <2>1. item.file \in Files
    BY <1>1 DEF Item
  <2>2. held[item.file] \cap Contents # {}
    BY <1>2, <2>1 DEF Present, EvidenceInv
  <2>3. QED
    BY <1>1, <2>2 DEF SoundCall, CallState
<1>3. SoundCall(call)
  BY <1>2, NothingIsSound
<1>4. Call(w, call) /\ UNCHANGED <<content, held, ledger>>
  BY DEF Look
<1> HIDE DEF call
<1>5. QED
  BY <1>3, <1>4, CallSound DEF EvidenceInv

\* The digest a call uses is that of a text the file has had.
LEMMA DigestWas ==
  ASSUME NEW cache \in Cache, NEW file \in Files, NEW past,
         content[file] \in past[file], \A f \in DOMAIN cache : cache[f] \in past[f],
         Digest(cache, file) \in Texts
  PROVE  /\ Digest(cache, file) \in past[file]
         /\ \A f \in DOMAIN Remember(cache, file) : Remember(cache, file)[f] \in past[f]
<1>1. Digest(cache, file) \in past[file]
  BY DEF Digest
<1>2. /\ DOMAIN Remember(cache, file) = DOMAIN cache \cup {file}
      /\ \A f \in DOMAIN cache : Remember(cache, file)[f] = cache[f]
      /\ Remember(cache, file)[file] = Digest(cache, file)
  BY RememberType
<1>3. ASSUME NEW f \in DOMAIN Remember(cache, file)
      PROVE  Remember(cache, file)[f] \in past[f]
  <2>1. CASE f = file
    BY <1>1, <1>2, <2>1
  <2>2. CASE f \in DOMAIN cache
    BY <1>2, <2>2
  <2>3. QED
    BY <1>2, <2>1, <2>2
<1>4. QED
  BY <1>1, <1>3

LEMMA HashSound ==
  ASSUME TypeOK, EvidenceInv, NEW w \in Writers, NEW item \in calls[w].seen, Hash(w, item)
  PROVE  EvidenceInv'
<1> DEFINE digest == Digest(calls[w].cache, item.file)
           canonical == [item EXCEPT !.digest = digest]
           checked == Checked(calls[w], item, canonical)
           call == IF Resolves(item, calls[w].cache) THEN checked ELSE NoCall
<1>1. calls[w] \in CallState /\ item \in Item /\ SoundCall(calls[w])
  BY DEF TypeOK, CallState, EvidenceInv
<1>2. Call(w, call) /\ UNCHANGED <<content, held, ledger>>
  BY DEF Hash
<1>3. ASSUME Resolves(item, calls[w].cache) PROVE SoundCall(checked)
  <2>1. /\ digest \in Texts /\ item.file \in Files /\ calls[w].cache \in Cache
        /\ content[item.file] \in held[item.file]
    BY <1>1, <1>3 DEF Resolves, Item, CallState, EvidenceInv
  <2>2. /\ digest \in held[item.file]
        /\ \A f \in DOMAIN Remember(calls[w].cache, item.file) :
             Remember(calls[w].cache, item.file)[f] \in held[f]
    BY <1>1, <2>1, DigestWas DEF SoundCall
  <2>3. /\ canonical \in Item /\ canonical.check = item.check
        /\ canonical.file = item.file /\ canonical.digest = digest
    BY <1>1, <2>1, CanonicalType
  <2> HIDE DEF canonical
  <2>4. /\ checked.gate = calls[w].gate /\ checked.status = calls[w].status
        /\ checked.todo = calls[w].todo \ {item} /\ checked.seen = {}
        /\ checked.items = calls[w].items \cup {canonical}
        /\ checked.cache = Remember(calls[w].cache, item.file)
        /\ checked.loaded = calls[w].loaded
        /\ checked.step = IF calls[w].todo \ {item} = {} THEN "load" ELSE "hash"
    BY <1>1, <2>1, <2>3, CheckedType
  <2> HIDE DEF checked, digest
  <2>5. item \in calls[w].todo
    BY <1>1 DEF SoundCall
  <2>6. ASSUME calls[w].status \in AcceptedStatuses
        PROVE  WellMapped(calls[w].gate, calls[w].status, checked.items \cup checked.todo)
    <3>1. WellMapped(calls[w].gate, calls[w].status, calls[w].items \cup calls[w].todo)
      BY <1>1, <2>6 DEF SoundCall
    <3>2. {i.check : i \in checked.items \cup checked.todo}
            = {i.check : i \in calls[w].items \cup calls[w].todo}
      BY <2>3, <2>4, <2>5
    <3>3. \A i, j \in checked.items \cup checked.todo : i.check = j.check => i = j
      BY <1>1, <2>3, <2>4, <2>5, <3>1 DEF WellMapped, SoundCall
    <3>4. QED
      BY <3>1, <3>2, <3>3 DEF WellMapped
  <2>7. \A i \in checked.items, j \in checked.todo : i.check # j.check
    <3> SUFFICES ASSUME NEW i \in checked.items, NEW j \in checked.todo
                 PROVE  i.check # j.check
      OBVIOUS
    <3>1. CASE i \in calls[w].items
      BY <1>1, <2>4, <3>1 DEF SoundCall
    <3>2. CASE i = canonical
      BY <1>1, <2>3, <2>4, <2>5, <3>2 DEF SoundCall
    <3>3. QED
      BY <2>4, <3>1, <3>2
  <2>8. \A i \in checked.items : Was(i, held)
    BY <1>1, <2>2, <2>3, <2>4 DEF SoundCall, Was
  <2>9. \A i, j \in checked.todo : i.check = j.check => i = j
    BY <1>1, <2>4 DEF SoundCall
  <2>10. checked.step \in {"load", "create", "save"} => checked.todo = {}
    BY <2>4
  <2>11. QED
    BY <1>1, <2>2, <2>4, <2>6, <2>7, <2>8, <2>9, <2>10 DEF SoundCall
<1>4. SoundCall(call)
  BY <1>3, NothingIsSound
<1> HIDE DEF call
<1>5. QED
  BY <1>2, <1>4, CallSound DEF EvidenceInv

LEMMA StopSound ==
  ASSUME TypeOK, EvidenceInv, NEW w \in Writers, Stop(w)
  PROVE  EvidenceInv'
BY NothingIsSound, CallSound DEF Stop, EvidenceInv

LEMMA LoadSound ==
  ASSUME TypeOK, EvidenceInv, NEW w \in Writers, Load(w)
  PROVE  EvidenceInv'
<1> DEFINE call == IF ledger = NoLedger
                     THEN [calls[w] EXCEPT !.step = "create",
                                           !.loaded = [g \in Gates |-> Default]]
                     ELSE [calls[w] EXCEPT !.step = "save", !.loaded = ledger]
<1>1. calls[w] \in CallState /\ SoundCall(calls[w]) /\ Sound(ledger)
  BY DEF TypeOK, EvidenceInv
<1>2. calls[w].todo = {}
  BY <1>1 DEF SoundCall, Load
<1>3. SoundCall(call)
  BY <1>1, <1>2, NothingIsSound DEF SoundCall, CallState
<1>4. Call(w, call) /\ UNCHANGED <<content, held, ledger>>
  BY DEF Load
<1> HIDE DEF call
<1>5. QED
  BY <1>1, <1>3, <1>4, CallSound

LEMMA CreateSound ==
  ASSUME TypeOK, EvidenceInv, NEW w \in Writers, Create(w)
  PROVE  EvidenceInv'
<1> DEFINE call == [calls[w] EXCEPT !.step = "save"]
<1>1. calls[w] \in CallState /\ SoundCall(calls[w])
  BY DEF TypeOK, EvidenceInv
<1>2. SoundCall(call)
  BY <1>1 DEF SoundCall, CallState, Create
<1>3. /\ Call(w, call) /\ UNCHANGED <<content, held>>
      /\ ledger' = calls[w].loaded /\ Sound(calls[w].loaded)
  BY <1>1 DEF Create, SoundCall
<1> HIDE DEF call
<1>4. QED
  BY <1>2, <1>3, CallSound

LEMMA SaveSound ==
  ASSUME TypeOK, EvidenceInv, NEW w \in Writers, Save(w)
  PROVE  EvidenceInv'
<1> DEFINE updated == [status |-> calls[w].status,
                       mapped |-> calls[w].status \in AcceptedStatuses,
                       items |-> calls[w].items]
<1>1. calls[w] \in CallState /\ SoundCall(calls[w])
  BY DEF TypeOK, EvidenceInv
<1>2. calls[w].todo = {}
  BY <1>1 DEF SoundCall, Save
<1>3. ledger' = [calls[w].loaded EXCEPT ![calls[w].gate] = updated]
  BY DEF Save
<1>4. updated.mapped =>
        /\ WellMapped(calls[w].gate, updated.status, updated.items)
        /\ \A i \in updated.items : Was(i, held)
  <2>1. calls[w].items \cup calls[w].todo = calls[w].items
    BY <1>2
  <2>2. QED
    BY <1>1, <2>1 DEF SoundCall
<1> HIDE DEF updated
<1>5. Sound(ledger')
  <2> SUFFICES ASSUME NEW g \in DOMAIN ledger', ledger'[g].mapped
               PROVE  /\ WellMapped(g, ledger'[g].status, ledger'[g].items)
                      /\ \A i \in ledger'[g].items : Was(i, held)
    BY DEF Sound
  <2>1. g \in DOMAIN calls[w].loaded
    BY <1>3
  <2>2. CASE g = calls[w].gate
    BY <1>3, <1>4, <2>1, <2>2
  <2>3. CASE g # calls[w].gate
    BY <1>1, <1>3, <2>1, <2>3 DEF SoundCall, Sound
  <2>4. QED
    BY <2>2, <2>3
<1>6. QED
  BY <1>5, NothingIsSound, CallSound DEF Save

\* What a file has had, it has had for good.
LEMMA PastGrows ==
  ASSUME NEW past, NEW f \in Files, NEW text,
         past \in [Files -> SUBSET (Texts \cup {"missing"})],
         NEW item \in Item, Was(item, past)
  PROVE  Was(item, [past EXCEPT ![f] = @ \cup {text}])
<1>1. item.file \in Files
  BY DEF Item
<1>2. past[item.file] \subseteq [past EXCEPT ![f] = @ \cup {text}][item.file]
  BY <1>1
<1>3. QED
  BY <1>2 DEF Was

LEMMA EditSound ==
  ASSUME TypeOK, EvidenceInv, NEW f \in Files, NEW text \in Texts \cup {"missing"},
         Edit(f, text)
  PROVE  EvidenceInv'
<1> USE DEF TypeOK
<1>1. held' = [held EXCEPT ![f] = @ \cup {text}] /\ content' = [content EXCEPT ![f] = text]
  BY DEF Edit
<1>2. \A h \in Files : held[h] \subseteq held'[h]
  BY <1>1
<1>3. \A i \in Item : Was(i, held) => Was(i, held')
  BY <1>1, PastGrows
<1>4. ASSUME NEW records \in Ledgers, Sound(records)
      PROVE  \A g \in DOMAIN records : records[g].mapped =>
               /\ WellMapped(g, records[g].status, records[g].items)
               /\ \A i \in records[g].items : Was(i, held')
  <2>1. \A g \in DOMAIN records : records[g].items \subseteq Item
    <3>1. CASE records \in [Gates -> Record]
      BY <3>1 DEF Record
    <3>2. CASE records = NoLedger
      BY <3>2 DEF NoLedger
    <3>3. QED
      BY <3>1, <3>2 DEF Ledgers
  <2>2. QED
    BY <1>3, <1>4, <2>1 DEF Sound
<1>5. Sound(ledger)'
  BY <1>4 DEF Edit, EvidenceInv, Sound
<1>6. ASSUME NEW w \in Writers PROVE SoundCall(calls[w])'
  <2>1. calls' = calls /\ calls[w] \in CallState /\ SoundCall(calls[w])
    BY DEF Edit, EvidenceInv
  <2>2. Sound(calls[w].loaded)'
    BY <1>4, <2>1 DEF CallState, SoundCall, Sound
  <2>3. /\ \A i \in calls[w].items : Was(i, held')
        /\ \A i \in calls[w].seen : held'[i.file] \cap Contents # {}
    BY <1>2, <1>3, <2>1 DEF CallState, SoundCall, Item
  <2>4. DOMAIN calls[w].cache \subseteq Files
    BY <2>1 DEF CallState, Cache
  <2>5. \A h \in DOMAIN calls[w].cache : calls[w].cache[h] \in held'[h]
    BY <1>2, <2>1, <2>4 DEF SoundCall
  <2>6. QED
    BY <2>1, <2>2, <2>3, <2>5 DEF SoundCall
<1>7. (\A h \in Files : content[h] \in held[h])'
  BY <1>1 DEF EvidenceInv
<1>8. QED
  BY <1>5, <1>6, <1>7 DEF EvidenceInv

\* A step that concerns neither the calls nor the files.
LEMMA OthersSound ==
  ASSUME EvidenceInv, UNCHANGED <<content, ledger, calls, held>>
  PROVE  EvidenceInv'
BY DEF EvidenceInv, SoundCall, Sound, Was

LEMMA EvidenceStep == TypeOK /\ EvidenceInv /\ [Next]_vars => EvidenceInv'
<1> SUFFICES ASSUME TypeOK, EvidenceInv, [Next]_vars PROVE EvidenceInv'
  OBVIOUS
<1>1. ASSUME NEW w \in Writers, WriterStep(w) PROVE EvidenceInv'
  <2>1. ASSUME NEW g \in Gates, NEW s \in GateStatus, NEW items \in Evidence(g, s),
               Update(w, g, s, items)
        PROVE  EvidenceInv'
    <3>1. items \in SUBSET Item
      BY EvidenceType
    <3>2. QED
      BY <2>1, <3>1, UpdateSound
  <2>2. QED
    BY <1>1, <2>1, LookSound, HashSound, LoadSound, CreateSound, SaveSound, StopSound
       DEF WriterStep
<1>2. CASE Summary
  BY <1>2, OthersSound DEF Summary, Survey, LookAtItem, ReadItem, FailToRead, Report
<1>3. ASSUME NEW f \in Files, NEW text \in Texts \cup {"missing"}, Edit(f, text)
      PROVE  EvidenceInv'
  BY <1>3, EditSound
<1>4. CASE UNCHANGED vars
  BY <1>4, OthersSound DEF vars
<1>5. QED
  BY <1>1, <1>2, <1>3, <1>4 DEF Next

\* No interleaving of updates, with each other and with changes of the
\* evidence, leaves a mapped record that does not map its gate's checks to files
\* that were once there and once had the recorded digest.
THEOREM MappedEvidenceWasThere == Spec => []EvidenceWasThere
<1>1. EvidenceInv => EvidenceWasThere
  BY DEF EvidenceInv, Sound, Was, EvidenceWasThere
<1>2. QED
  BY <1>1, EvidenceInitially, EvidenceStep, LedgerTypeCorrect, PTL DEF Spec

-----------------------------------------------------------------------------
(* The summary.                                                            *)

\* What the summary has read of the file is the digest of the item.
Confirmed(item) ==
  /\ item.file \in DOMAIN survey.cache
  /\ survey.cache[item.file] = item.digest
  /\ Was(item, held_now)

\* Some evidence of the gate was not as recorded at some time of the summary.
Refuted(gate) ==
  \E i \in survey.records[gate].items : \E text \in held_now[i.file] :
    text \notin Contents \/ text # i.digest

WellMappedRecords(records) ==
  \A g \in Gates : records[g].mapped =>
    /\ WellMapped(g, records[g].status, records[g].items)
    /\ \A i \in records[g].items : i.digest # "none"

\* The inductive invariant of a summary under way: the evidence that is no
\* longer to be read is confirmed or its gate is blocked, for a reason.
UnderWay ==
  /\ survey.step = "read"
  /\ survey.records \in [Gates -> Record] /\ WellMappedRecords(survey.records)
  /\ \A f \in Files : content[f] \in held_now[f]
  /\ \A f \in DOMAIN survey.cache : survey.cache[f] \in held_now[f]
  /\ survey.seen \subseteq survey.todo
  /\ \A t, u \in survey.seen : t = u
  /\ survey.todo \subseteq ToRead(survey.records)
  /\ \A t \in survey.seen : held_now[t[2].file] \cap Contents # {}
  /\ \A t \in ToRead(survey.records) \ survey.todo :
       t[1] \in survey.broken \/ Confirmed(t[2])
  /\ \A g \in survey.broken : Refuted(g)

SurveyInv == survey = NoSurvey \/ UnderWay

LEMMA ToReadElements ==
  ASSUME NEW records \in [Gates -> Record]
  PROVE  /\ \A t \in ToRead(records) :
              /\ t[1] \in Gates /\ t[2] \in Item /\ t = <<t[1], t[2]>>
              /\ records[t[1]].mapped /\ t[2] \in records[t[1]].items
         /\ \A g \in Gates : \A i \in records[g].items :
              records[g].status \in AcceptedStatuses /\ records[g].mapped
                => <<g, i>> \in ToRead(records)
BY DEF ToRead, Record

\* What is stored is well mapped, and has digests.
LEMMA SoundIsWellMapped ==
  ASSUME TypeOK, NEW records \in [Gates -> Record], Sound(records)
  PROVE  WellMappedRecords(records)
<1> SUFFICES ASSUME NEW g \in Gates, records[g].mapped, NEW i \in records[g].items
             PROVE  i.digest # "none"
  BY DEF WellMappedRecords, Sound
<1>1. i.digest \in held[i.file]
  BY DEF Sound, Was
<1>2. i.file \in Files
  BY DEF Record, Item
<1>3. i.digest \in Texts \cup {"missing"}
  BY <1>1, <1>2 DEF TypeOK
<1>4. QED
  BY <1>3, ContentsAssumption DEF Texts

LEMMA SurveyStart ==
  ASSUME TypeOK, EvidenceInv, Survey
  PROVE  SurveyInv'
<1> DEFINE records == IF ledger = NoLedger THEN [g \in Gates |-> Default] ELSE ledger
<1>1. records \in [Gates -> Record] /\ Sound(records)
  BY DefaultsType, NothingIsSound DEF TypeOK, Ledgers, EvidenceInv
<1>2. survey' = [step |-> "read", records |-> records, todo |-> ToRead(records),
                 seen |-> {}, cache |-> NothingRead, broken |-> {}]
  BY DEF Survey
<1> HIDE DEF records
<1>3. WellMappedRecords(records)
  BY <1>1, SoundIsWellMapped
<1>4. (\A f \in Files : content[f] \in held_now[f])'
  BY DEF Survey
<1>5. DOMAIN NothingRead = {}
  BY DEF NothingRead
<1>6. WellMappedRecords(survey.records)'
  BY <1>2, <1>3 DEF WellMappedRecords
<1>7. ToRead(survey.records)' = ToRead(records)
  BY <1>2 DEF ToRead
<1>8. UnderWay'
  BY <1>1, <1>2, <1>4, <1>5, <1>6, <1>7 DEF UnderWay
<1>9. QED
  BY <1>8 DEF SurveyInv

\* A summary step that reads on: the records stay, so does what was confirmed.
LEMMA BlockedUnderWay ==
  ASSUME TypeOK, UnderWay, NEW g \in Gates, Refuted(g), NEW cache \in Cache,
         \A f \in DOMAIN cache : cache[f] \in held_now[f],
         \A f \in DOMAIN survey.cache : f \in DOMAIN cache /\ cache[f] = survey.cache[f],
         survey' = [Blocked(g) EXCEPT !.cache = cache],
         UNCHANGED <<content, held_now>>
  PROVE  UnderWay'
<1>1. survey \in SurveyState
  BY DEF TypeOK
<1>2. /\ survey'.step = survey.step /\ survey'.records = survey.records
      /\ survey'.todo = {t \in survey.todo : t[1] # g} /\ survey'.seen = {}
      /\ survey'.broken = survey.broken \cup {g} /\ survey'.cache = cache
  BY <1>1 DEF Blocked, SurveyState
<1>3. ToRead(survey.records)' = ToRead(survey.records)
  BY <1>2 DEF ToRead
<1>4. (WellMappedRecords(survey.records))'
  BY <1>2 DEF UnderWay, WellMappedRecords
<1>5. ASSUME NEW t \in ToRead(survey.records) \ survey'.todo
      PROVE  t[1] \in survey'.broken \/ Confirmed(t[2])'
  BY <1>2, <1>5 DEF UnderWay, Confirmed, Was
<1>6. \A h \in survey'.broken : Refuted(h)'
  BY <1>2 DEF UnderWay, Refuted
<1>7. QED
  BY <1>2, <1>3, <1>4, <1>5, <1>6 DEF UnderWay

LEMMA LookUnderWay ==
  ASSUME TypeOK, UnderWay, NEW t \in survey.todo, LookAtItem(t[1], t[2])
  PROVE  UnderWay'
<1>1. survey \in SurveyState /\ survey.records \in [Gates -> Record]
  BY DEF TypeOK, UnderWay
<1>2. /\ t[1] \in Gates /\ t[2] \in Item /\ t = <<t[1], t[2]>>
      /\ t[2] \in survey.records[t[1]].items
  BY <1>1, ToReadElements DEF UnderWay
<1>3. t[2].file \in Files
  BY <1>2 DEF Item
<1>4. CASE Present(t[2])
  <2>1. survey' = [survey EXCEPT !.seen = {t}]
    BY <1>2, <1>4 DEF LookAtItem
  <2>2. /\ survey'.step = survey.step /\ survey'.records = survey.records
        /\ survey'.todo = survey.todo /\ survey'.seen = {t}
        /\ survey'.broken = survey.broken /\ survey'.cache = survey.cache
    BY <1>1, <2>1 DEF SurveyState
  <2>3. ToRead(survey.records)' = ToRead(survey.records)
    BY <2>2 DEF ToRead
  <2>4. (WellMappedRecords(survey.records))'
    BY <2>2 DEF UnderWay, WellMappedRecords
  <2>5. UNCHANGED <<content, held_now>>
    BY DEF LookAtItem
  <2>6. held_now[t[2].file] \cap Contents # {}
    BY <1>3, <1>4 DEF Present, UnderWay
  <2>7. \A i : Confirmed(i) => Confirmed(i)'
    BY <2>2, <2>5 DEF Confirmed, Was
  <2>8. \A h \in survey'.broken : Refuted(h)'
    BY <2>2, <2>5 DEF UnderWay, Refuted
  <2>9. QED
    BY <2>2, <2>3, <2>4, <2>5, <2>6, <2>7, <2>8 DEF UnderWay
<1>5. CASE ~ Present(t[2])
  <2>1. survey' = Blocked(t[1]) /\ UNCHANGED <<content, held_now>>
    BY <1>5 DEF LookAtItem
  <2>2. Refuted(t[1])
    BY <1>2, <1>3, <1>5 DEF Refuted, Present, UnderWay
  <2>3. Blocked(t[1]) \in SurveyState /\ survey.cache \in Cache
    BY <1>1, <1>2, BlockedType DEF SurveyState
  <2>4. Blocked(t[1]).cache = survey.cache
    BY <1>1 DEF Blocked, SurveyState
  <2>5. survey' = [Blocked(t[1]) EXCEPT !.cache = survey.cache]
    BY <2>1, <2>3, <2>4 DEF SurveyState
  <2>6. \A f \in DOMAIN survey.cache : survey.cache[f] \in held_now[f]
    BY DEF UnderWay
  <2>7. QED
    BY <1>2, <2>1, <2>2, <2>3, <2>5, <2>6, BlockedUnderWay
<1>6. QED
  BY <1>4, <1>5

LEMMA ReadUnderWay ==
  ASSUME TypeOK, UnderWay, NEW t \in survey.seen, ReadItem(t[1], t[2])
  PROVE  UnderWay'
<1> DEFINE cache == Remember(survey.cache, t[2].file)
           digest == Digest(survey.cache, t[2].file)
<1>1. /\ survey \in SurveyState /\ survey.records \in [Gates -> Record]
      /\ UNCHANGED <<content, held_now>> /\ digest \in Texts
  BY DEF TypeOK, UnderWay, ReadItem
<1>2. t \in survey.todo /\ t \in ToRead(survey.records)
  BY DEF UnderWay
<1>3. /\ t[1] \in Gates /\ t[2] \in Item /\ t = <<t[1], t[2]>>
      /\ survey.records[t[1]].mapped /\ t[2] \in survey.records[t[1]].items
  BY <1>1, <1>2, ToReadElements
<1>4. /\ t[2].file \in Files /\ survey.cache \in Cache
      /\ content[t[2].file] \in held_now[t[2].file]
  BY <1>1, <1>3 DEF Item, SurveyState, UnderWay
<1>5. /\ cache \in Cache
      /\ \A f \in DOMAIN survey.cache : f \in DOMAIN cache /\ cache[f] = survey.cache[f]
      /\ t[2].file \in DOMAIN cache /\ cache[t[2].file] = digest
  <2>1. /\ cache \in Cache
        /\ DOMAIN cache = DOMAIN survey.cache \cup {t[2].file}
        /\ \A f \in DOMAIN survey.cache : cache[f] = survey.cache[f]
        /\ cache[t[2].file] = digest
    BY <1>1, <1>4, RememberType
  <2> HIDE DEF cache
  <2>2. QED
    BY <2>1
<1>6. /\ digest \in held_now[t[2].file]
      /\ \A f \in DOMAIN cache : cache[f] \in held_now[f]
  BY <1>1, <1>4, DigestWas DEF UnderWay
<1>7. t[2].digest # "none"
  BY <1>3 DEF UnderWay, WellMappedRecords
<1>8. CASE Resolves(t[2], survey.cache)
  <2>1. t[2].digest = digest
    BY <1>7, <1>8 DEF Resolves
  <2>2. survey' = [[survey EXCEPT !.todo = @ \ survey.seen, !.seen = {}]
                     EXCEPT !.cache = Remember(@, t[2].file)]
    BY <1>8 DEF ReadItem
  <2>3. /\ survey'.step = survey.step /\ survey'.records = survey.records
        /\ survey'.todo = survey.todo \ survey.seen /\ survey'.seen = {}
        /\ survey'.broken = survey.broken /\ survey'.cache = cache
    BY <1>1, <2>2 DEF SurveyState
  <2> HIDE DEF cache, digest
  <2>4. ToRead(survey.records)' = ToRead(survey.records)
    BY <2>3 DEF ToRead
  <2>5. (WellMappedRecords(survey.records))'
    BY <2>3 DEF UnderWay, WellMappedRecords
  <2>6. \A i : Confirmed(i) => Confirmed(i)'
    BY <1>1, <1>5, <2>3 DEF Confirmed, Was
  <2>7. held_now[t[2].file] \cap Contents # {}
    BY DEF UnderWay
  <2>8. Confirmed(t[2])'
    BY <1>1, <1>5, <1>6, <2>1, <2>3, <2>7 DEF Confirmed, Was
  <2>9. survey.seen = {t}
    BY DEF UnderWay
  <2>10. \A h \in survey'.broken : Refuted(h)'
    BY <1>1, <2>3 DEF UnderWay, Refuted
  <2>11. \A u \in ToRead(survey.records)' \ survey'.todo :
           u[1] \in survey'.broken \/ Confirmed(u[2])'
    BY <2>3, <2>4, <2>6, <2>8, <2>9 DEF UnderWay
  <2>12. QED
    BY <1>1, <1>6, <2>3, <2>4, <2>5, <2>10, <2>11 DEF UnderWay
<1>9. CASE ~ Resolves(t[2], survey.cache)
  <2>1. t[2].digest # digest
    BY <1>1, <1>9 DEF Resolves
  <2>2. Refuted(t[1])
    BY <1>3, <1>6, <2>1 DEF Refuted
  <2>3. Blocked(t[1]).cache = survey.cache /\ Blocked(t[1]) \in SurveyState
    BY <1>1, <1>3, BlockedType DEF Blocked, SurveyState
  <2>4. survey' = [Blocked(t[1]) EXCEPT !.cache = cache]
    BY <1>9, <2>3 DEF ReadItem, SurveyState
  <2> HIDE DEF cache, digest
  <2>5. QED
    BY <1>1, <1>3, <1>5, <1>6, <2>2, <2>4, BlockedUnderWay
<1>10. QED
  BY <1>8, <1>9

LEMMA EditUnderWay ==
  ASSUME TypeOK, UnderWay, NEW f \in Files, NEW text \in Texts \cup {"missing"},
         Edit(f, text)
  PROVE  UnderWay'
<1>1. survey \in SurveyState /\ survey.records \in [Gates -> Record] /\ survey' = survey
  BY DEF TypeOK, UnderWay, Edit
<1>2. survey # NoSurvey
  BY DEF UnderWay, NoSurvey
<1>3. /\ held_now' = [held_now EXCEPT ![f] = @ \cup {text}]
      /\ content' = [content EXCEPT ![f] = text]
      /\ held_now \in [Files -> SUBSET (Texts \cup {"missing"})]
      /\ content \in [Files -> Texts \cup {"missing"}]
  BY <1>2 DEF Edit, TypeOK
<1>4. \A h \in Files : held_now[h] \subseteq held_now'[h]
  BY <1>3
<1>5. (\A h \in Files : content[h] \in held_now[h])'
  BY <1>3 DEF UnderWay
<1>6. DOMAIN survey.cache \subseteq Files
  BY <1>1 DEF SurveyState, Cache
<1>7. \A h \in DOMAIN survey.cache : survey.cache[h] \in held_now'[h]
  BY <1>4, <1>6 DEF UnderWay
<1>8. \A t \in ToRead(survey.records) : t[2] \in Item /\ t[2].file \in Files
  BY <1>1, ToReadElements DEF Item
<1>9. \A t \in survey.seen : held_now'[t[2].file] \cap Contents # {}
  BY <1>4, <1>8 DEF UnderWay
<1>10. \A t \in ToRead(survey.records) : Confirmed(t[2]) => Confirmed(t[2])'
  BY <1>1, <1>3, <1>8, PastGrows DEF Confirmed
<1>11. survey.broken \subseteq Gates
  BY <1>1 DEF SurveyState
<1>12. \A g \in survey.broken : Refuted(g)'
  <2> SUFFICES ASSUME NEW g \in survey.broken PROVE Refuted(g)'
    OBVIOUS
  <2>1. PICK i \in survey.records[g].items : \E old \in held_now[i.file] :
          old \notin Contents \/ old # i.digest
    BY DEF UnderWay, Refuted
  <2>2. i.file \in Files
    BY <1>1, <1>11 DEF Record, Item
  <2>3. QED
    BY <1>1, <1>4, <2>1, <2>2 DEF Refuted
<1>13. ToRead(survey.records)' = ToRead(survey.records)
  BY <1>1 DEF ToRead
<1>14. (WellMappedRecords(survey.records))'
  BY <1>1 DEF UnderWay, WellMappedRecords
<1>15. QED
  BY <1>1, <1>5, <1>7, <1>9, <1>10, <1>12, <1>13, <1>14 DEF UnderWay

\* A step that concerns neither the summary nor the files.
LEMMA OthersUnderWay ==
  ASSUME SurveyInv, UNCHANGED <<content, survey, held_now>>
  PROVE  SurveyInv'
BY DEF SurveyInv, UnderWay, WellMappedRecords, ToRead, Confirmed, Refuted, Was

LEMMA SurveyStep == TypeOK /\ EvidenceInv /\ SurveyInv /\ [Next]_vars => SurveyInv'
<1> SUFFICES ASSUME TypeOK, EvidenceInv, SurveyInv, [Next]_vars PROVE SurveyInv'
  OBVIOUS
<1>1. CASE \E w \in Writers : WriterStep(w)
  BY <1>1, OthersUnderWay
     DEF WriterStep, Update, Look, Hash, Load, Create, Save, Stop
<1>2. CASE Survey
  BY <1>2, SurveyStart
<1>3. ASSUME NEW t \in survey.todo, LookAtItem(t[1], t[2]) PROVE SurveyInv'
  BY <1>3, LookUnderWay DEF SurveyInv, NoSurvey
<1>4. ASSUME NEW t \in survey.seen, ReadItem(t[1], t[2]) PROVE SurveyInv'
  BY <1>4, ReadUnderWay DEF SurveyInv, NoSurvey
<1>5. ASSUME NEW t \in survey.seen, FailToRead(t[1], t[2]) PROVE SurveyInv'
  BY <1>5 DEF SurveyInv, NoSurvey, FailToRead
<1>6. CASE Report
  BY <1>6 DEF SurveyInv, NoSurvey, Report
<1>7. ASSUME NEW f \in Files, NEW text \in Texts \cup {"missing"}, Edit(f, text)
      PROVE  SurveyInv'
  <2>1. CASE survey = NoSurvey
    BY <1>7, <2>1 DEF Edit, SurveyInv, NoSurvey
  <2>2. CASE UnderWay
    BY <1>7, <2>2, EditUnderWay DEF SurveyInv
  <2>3. QED
    BY <2>1, <2>2 DEF SurveyInv
<1>8. CASE UNCHANGED vars
  BY <1>8, OthersUnderWay DEF vars
<1>9. QED
  BY <1>1, <1>2, <1>3, <1>4, <1>5, <1>6, <1>7, <1>8 DEF Next, Summary

THEOREM SurveyInvariant == Spec => [](TypeOK /\ SurveyInv)
<1>1. Init => SurveyInv
  BY DEF Init, SurveyInv
<1>2. QED
  BY <1>1, EvidenceInitially, EvidenceStep, SurveyStep, LedgerTypeCorrect, PTL DEF Spec

LEMMA VerifiedIsConfirmed ==
  ASSUME TypeOK, SurveyInv, NEW g \in Gates, Verified(g)
  PROVE  /\ UnderWay
         /\ survey.records[g].status \in AcceptedStatuses /\ survey.records[g].mapped
         /\ \A i \in survey.records[g].items : Confirmed(i)
<1>1. UnderWay /\ survey.todo = {}
  BY DEF Verified, Complete, SurveyInv, NoSurvey
<1>2. /\ survey.records[g].status \in AcceptedStatuses /\ survey.records[g].mapped
      /\ g \notin survey.broken
  BY DEF Verified, Effective, AcceptedStatuses
<1>3. \A i \in survey.records[g].items : <<g, i>> \in ToRead(survey.records)
  BY <1>1, <1>2, ToReadElements DEF UnderWay
<1>4. ASSUME NEW i \in survey.records[g].items PROVE Confirmed(i)
  <2>1. <<g, i>>[1] = g /\ <<g, i>>[2] = i
    OBVIOUS
  <2>2. <<g, i>>[1] \in survey.broken \/ Confirmed(<<g, i>>[2])
    BY <1>1, <1>3 DEF UnderWay
  <2>3. QED
    BY <1>2, <2>1, <2>2
<1>5. QED
  BY <1>1, <1>2, <1>4

\* What a summary verifies it has seen, while it ran: every check of the gate
\* mapped, every file there and with the recorded digest.
THEOREM SummaryHasSeen == Spec => []VerifiedEvidenceWasSeen
<1>1. TypeOK /\ SurveyInv => VerifiedEvidenceWasSeen
  BY VerifiedIsConfirmed
     DEF VerifiedEvidenceWasSeen, UnderWay, WellMappedRecords, Confirmed, Was
<1>2. QED
  BY <1>1, SurveyInvariant, PTL

\* Two gates a summary verifies do not rest on two contents of one file.
THEOREM SummaryReadsOnce == Spec => []OneContentPerSummary
<1>1. TypeOK /\ SurveyInv => OneContentPerSummary
  BY VerifiedIsConfirmed DEF OneContentPerSummary, Confirmed
<1>2. QED
  BY <1>1, SurveyInvariant, PTL

\* Without a change meanwhile, the summary verifies what is there, no more and
\* no less.
THEOREM QuietSummary == Spec => []QuietSummaryIsExact
<1>1. ASSUME TypeOK, SurveyInv, Complete, \A f \in Files : held_now[f] = {content[f]},
             NEW g \in Gates
      PROVE  Effective(g) \in AcceptedStatuses <=>
               /\ survey.records[g].status \in AcceptedStatuses /\ survey.records[g].mapped
               /\ \A i \in survey.records[g].items : Present(i) /\ content[i.file] = i.digest
  <2>1. UnderWay /\ survey.records \in [Gates -> Record]
    BY <1>1 DEF Complete, SurveyInv, NoSurvey, UnderWay
  <2>2. \A i \in survey.records[g].items : i.file \in Files
    BY <2>1 DEF Record, Item
  <2>3. ASSUME Effective(g) \in AcceptedStatuses
        PROVE  /\ survey.records[g].status \in AcceptedStatuses /\ survey.records[g].mapped
               /\ \A i \in survey.records[g].items : Present(i) /\ content[i.file] = i.digest
    <3>1. /\ survey.records[g].status \in AcceptedStatuses /\ survey.records[g].mapped
          /\ \A i \in survey.records[g].items : Confirmed(i)
      BY <1>1, <2>3, VerifiedIsConfirmed DEF Verified
    <3>2. QED
      BY <1>1, <2>2, <3>1 DEF Confirmed, Was, Present
  <2>4. ASSUME survey.records[g].status \in AcceptedStatuses, survey.records[g].mapped,
               \A i \in survey.records[g].items : Present(i) /\ content[i.file] = i.digest
        PROVE  Effective(g) \in AcceptedStatuses
    <3>1. ~ Refuted(g)
      BY <1>1, <2>2, <2>4 DEF Refuted, Present
    <3>2. g \notin survey.broken
      BY <2>1, <3>1 DEF UnderWay
    <3>3. QED
      BY <2>4, <3>2 DEF Effective
  <2>5. QED
    BY <2>3, <2>4
<1>2. TypeOK /\ SurveyInv => QuietSummaryIsExact
  BY <1>1 DEF QuietSummaryIsExact
<1>3. QED
  BY <1>2, SurveyInvariant, PTL
-----------------------------------------------------------------------------
(* Updates that do not overlap.                                            *)

\* As long as no two updates have overlapped, one at most is under way; what it
\* has loaded is the ledger, and it creates a ledger only where there is none.
SerialInv ==
  ~ overlapped =>
    /\ ledger = wanted
    /\ \A v, w \in Writers : Working(v) /\ Working(w) => v = w
    /\ \A w \in Writers :
         /\ calls[w].step = "create" => ledger = NoLedger
         /\ calls[w].step = "save" => calls[w].loaded = ledger

LEMMA SerialInitially == Init => SerialInv
BY DEF Init, SerialInv, Working, NoCall

\* A step of the one call under way that writes nothing.
LEMMA CallSerial ==
  ASSUME TypeOK, SerialInv, NEW w \in Writers, NEW call, Call(w, call),
         UNCHANGED <<ledger, wanted>>, overlapped' = overlapped,
         Working(w), call.step = "create" => ledger = NoLedger,
         call.step = "save" => call.loaded = ledger
  PROVE  SerialInv'
<1>1. calls' = [calls EXCEPT ![w] = call] /\ calls \in [Writers -> CallState]
  BY DEF Call, TypeOK
<1>2. calls'[w] = call /\ \A v \in Writers : v # w => calls'[v] = calls[v]
  BY <1>1
<1>3. \A v \in Writers : Working(v)' => Working(v)
  BY <1>2 DEF Working
<1>4. QED
  BY <1>2, <1>3 DEF SerialInv

LEMMA UpdateSerial ==
  ASSUME TypeOK, SerialInv, NEW w \in Writers, NEW g \in Gates, NEW s \in GateStatus,
         NEW items, Update(w, g, s, items)
  PROVE  SerialInv'
<1> DEFINE call == [step |-> IF items = {} THEN "load" ELSE "hash", gate |-> g,
                    status |-> s, todo |-> items, seen |-> {}, items |-> {},
                    cache |-> NothingRead, loaded |-> NoLedger]
<1>1. /\ calls' = [calls EXCEPT ![w] = call] /\ calls \in [Writers -> CallState]
      /\ UNCHANGED <<ledger, wanted>> /\ ~ Working(w)
      /\ overlapped' = (overlapped \/ \E v \in Writers : Working(v))
  BY DEF Update, Call, TypeOK
<1>2. call.step \in {"load", "hash"}
  OBVIOUS
<1> HIDE DEF call
<1>3. calls'[w] = call /\ \A v \in Writers : v # w => calls'[v] = calls[v]
  BY <1>1
<1>4. ASSUME ~ overlapped'
      PROVE  ~ overlapped /\ \A v \in Writers : ~ Working(v)
  BY <1>1, <1>4
<1>5. QED
  BY <1>1, <1>2, <1>3, <1>4 DEF SerialInv, Working

LEMMA LoadSerial ==
  ASSUME TypeOK, SerialInv, NEW w \in Writers, Load(w)
  PROVE  SerialInv'
<1> DEFINE created == [calls[w] EXCEPT !.step = "create",
                                       !.loaded = [g \in Gates |-> Default]]
           opened  == [calls[w] EXCEPT !.step = "save", !.loaded = ledger]
<1>1. calls[w] \in CallState /\ Working(w)
  BY DEF TypeOK, Load, Working
<1>2. created.step = "create" /\ opened.step = "save" /\ opened.loaded = ledger
  BY <1>1 DEF CallState
<1>3. /\ Call(w, IF ledger = NoLedger THEN created ELSE opened)
      /\ UNCHANGED <<ledger, wanted>> /\ overlapped' = overlapped
  BY DEF Load
<1> HIDE DEF created, opened
<1>4. QED
  BY <1>1, <1>2, <1>3, CallSerial

LEMMA CreateSerial ==
  ASSUME TypeOK, SerialInv, NEW w \in Writers, Create(w)
  PROVE  SerialInv'
<1> DEFINE call == [calls[w] EXCEPT !.step = "save"]
<1>1. /\ calls[w] \in CallState /\ Working(w) /\ calls \in [Writers -> CallState]
  BY DEF TypeOK, Create, Working
<1>2. call.step = "save" /\ call.loaded = calls[w].loaded
  BY <1>1 DEF CallState
<1>3. /\ calls' = [calls EXCEPT ![w] = call] /\ overlapped' = overlapped
      /\ ledger' = calls[w].loaded
      /\ wanted' = IF wanted = NoLedger THEN calls[w].loaded ELSE wanted
  BY DEF Create, Call
<1> HIDE DEF call
<1>4. calls'[w] = call /\ \A v \in Writers : v # w => calls'[v] = calls[v]
  BY <1>1, <1>3
<1>5. ASSUME ~ overlapped
      PROVE  /\ ledger' = wanted' /\ \A v \in Writers : v # w => ~ Working(v)
  BY <1>1, <1>3, <1>5 DEF SerialInv, Create
<1>6. QED
  BY <1>2, <1>3, <1>4, <1>5 DEF SerialInv, Working

LEMMA SaveSerial ==
  ASSUME TypeOK, SerialInv, NEW w \in Writers, Save(w)
  PROVE  SerialInv'
<1>1. /\ Working(w) /\ calls \in [Writers -> CallState]
      /\ calls' = [calls EXCEPT ![w] = NoCall] /\ overlapped' = overlapped
  BY DEF TypeOK, Save, Working, Call
<1>2. calls'[w].step = "idle" /\ \A v \in Writers : v # w => calls'[v] = calls[v]
  BY <1>1 DEF NoCall
<1>3. ASSUME ~ overlapped
      PROVE  ledger' = wanted' /\ \A v \in Writers : v # w => ~ Working(v)
  <2>1. calls[w].loaded = wanted /\ \A v \in Writers : v # w => ~ Working(v)
    BY <1>1, <1>3 DEF SerialInv, Save
  <2>2. QED
    BY <2>1 DEF Save
<1>4. QED
  BY <1>1, <1>2, <1>3 DEF SerialInv, Working

LEMMA SerialStep == TypeOK /\ SerialInv /\ [Next]_vars => SerialInv'
<1> SUFFICES ASSUME TypeOK, SerialInv, [Next]_vars PROVE SerialInv'
  OBVIOUS
<1>1. ASSUME UNCHANGED <<ledger, wanted, overlapped, calls>> PROVE SerialInv'
  BY <1>1 DEF SerialInv, Working
<1>2. ASSUME NEW w \in Writers, WriterStep(w) PROVE SerialInv'
  <2>1. ASSUME NEW g \in Gates, NEW s \in GateStatus, NEW items, Update(w, g, s, items)
        PROVE  SerialInv'
    BY <2>1, UpdateSerial
  <2>2. ASSUME NEW item \in calls[w].todo, Look(w, item) PROVE SerialInv'
    <3>1. calls[w] \in CallState /\ Working(w) /\ calls[w].step = "hash"
      BY <2>2 DEF TypeOK, Look, Working
    <3>2. [calls[w] EXCEPT !.seen = {item}].step = "hash" /\ NoCall.step = "idle"
      BY <3>1 DEF CallState, NoCall
    <3>3. QED
      BY <2>2, <3>1, <3>2, CallSerial DEF Look
  <2>3. ASSUME NEW item \in calls[w].seen, Hash(w, item) PROVE SerialInv'
    <3> DEFINE canonical == [item EXCEPT !.digest = Digest(calls[w].cache, item.file)]
    <3>1. calls[w] \in CallState /\ Working(w) /\ calls[w].step = "hash"
      BY <2>3 DEF TypeOK, Hash, Working
    <3>2. Checked(calls[w], item, canonical).step \in {"load", "hash"} /\ NoCall.step = "idle"
      BY <3>1 DEF CallState, NoCall, Checked
    <3>3. /\ Call(w, IF Resolves(item, calls[w].cache)
                      THEN Checked(calls[w], item, canonical) ELSE NoCall)
          /\ UNCHANGED <<ledger, wanted>> /\ overlapped' = overlapped
      BY <2>3 DEF Hash
    <3> HIDE DEF canonical
    <3>4. QED
      BY <3>1, <3>2, <3>3, CallSerial
  <2>4. ASSUME Stop(w) PROVE SerialInv'
    <3>1. NoCall.step = "idle"
      BY DEF NoCall
    <3>2. QED
      BY <2>4, <3>1, CallSerial DEF Stop
  <2>5. QED
    BY <1>2, <2>1, <2>2, <2>3, <2>4, LoadSerial, CreateSerial, SaveSerial DEF WriterStep
<1>3. CASE Summary
  BY <1>1, <1>3 DEF Summary, Survey, LookAtItem, ReadItem, FailToRead, Report
<1>4. ASSUME NEW f \in Files, NEW text, Edit(f, text) PROVE SerialInv'
  BY <1>1, <1>4 DEF Edit
<1>5. CASE UNCHANGED vars
  BY <1>1, <1>5 DEF vars
<1>6. QED
  BY <1>2, <1>3, <1>4, <1>5 DEF Next

\* Nothing of what updates recorded is lost while no two of them overlap, the
\* creation of the ledger and updates that stop anywhere included.
THEOREM SerialUpdates == Spec => []SerialUpdatesAreKept
<1>1. SerialInv => SerialUpdatesAreKept
  BY DEF SerialInv, SerialUpdatesAreKept
<1>2. QED
  BY <1>1, LedgerTypeCorrect, SerialInitially, SerialStep, PTL DEF Spec
=============================================================================
