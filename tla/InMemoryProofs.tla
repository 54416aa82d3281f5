---------------------------- MODULE InMemoryProofs ----------------------------
(***************************************************************************)
(* What the parts without files guarantee: the search, for every set of    *)
(* points and failure classes, every budget and reserve; the registry of   *)
(* adapters, for all batches and all that may be installed; the evidence   *)
(* of a training, for all stages, wavelengths and logs; the migrations,    *)
(* for all versions and steps; the thresholds, for every resolution and    *)
(* all that may be measured.                                               *)
(***************************************************************************)
EXTENDS Search, AdapterRegistry, Migrations, Thresholds, Training,
        SequenceTheorems, FiniteSetTheorems, WellFoundedInduction, TLAPS

-----------------------------------------------------------------------------
(* The search.  Each answer is computed from the history alone; the        *)
(* invariant says what an answer still knows when somebody acts on it, and *)
(* that only the last trial of the history may be running, so that what a  *)
(* suggestion rested on does not change afterwards.                        *)

Actions == {"none", "refuse", "wait_for_pending", "stop_search_preserve_validation",
            "diagnose_repeated_failure", "candidate_pool_exhausted", "evaluate_candidate"}

TypeOKSearch ==
  /\ trials \in Seq(Trial)
  /\ answer \in [action : Actions, point : Points]

\* Nothing but the last trial is under way.
OneAtATime ==
  \A i \in DOMAIN trials : trials[i].status = "running" => i = Len(trials)

\* What a suggestion rested on when it was made.
Sound(history, point) ==
  /\ Len(history) + Reserve < Budget
  /\ ~ Some(history, "running")
  /\ point \notin Tried(history)
  /\ ~ RepeatedFailure(history)

AnswerIsSound ==
  answer.action = "evaluate_candidate" => Sound(trials, answer.point)

SearchInv == TypeOKSearch /\ OneAtATime /\ AnswerIsSound /\ SearchIsFrugal

-----------------------------------------------------------------------------
\* A history begins like the history it was appended to.
LEMMA PrefixOfAppend ==
  ASSUME NEW S, NEW s \in Seq(S), NEW e \in S, NEW n \in 0 .. Len(s)
  PROVE  SubSeq(Append(s, e), 1, n) = SubSeq(s, 1, n)
<1>1. /\ Append(s, e) \in Seq(S) /\ Len(Append(s, e)) = Len(s) + 1
      /\ \A i \in 1 .. Len(s) : Append(s, e)[i] = s[i]
  OBVIOUS
<1>2. SubSeq(Append(s, e), 1, n) \in Seq(S) /\ SubSeq(s, 1, n) \in Seq(S)
  BY <1>1
<1>3. Len(SubSeq(Append(s, e), 1, n)) = n /\ Len(SubSeq(s, 1, n)) = n
  BY <1>1
<1>4. \A i \in 1 .. n : SubSeq(Append(s, e), 1, n)[i] = SubSeq(s, 1, n)[i]
  BY <1>1
<1>5. QED
  BY <1>2, <1>3, <1>4, SeqEqual

\* A history begins as before when its last trial has changed.
LEMMA PrefixOfUpdate ==
  ASSUME NEW S, NEW s \in Seq(S), NEW t \in Seq(S), Len(t) = Len(s),
         NEW n \in 0 .. Len(s), \A i \in 1 .. n : t[i] = s[i]
  PROVE  SubSeq(t, 1, n) = SubSeq(s, 1, n)
<1>1. SubSeq(t, 1, n) \in Seq(S) /\ SubSeq(s, 1, n) \in Seq(S)
  OBVIOUS
<1>2. Len(SubSeq(t, 1, n)) = n /\ Len(SubSeq(s, 1, n)) = n
  OBVIOUS
<1>3. \A i \in 1 .. n : SubSeq(t, 1, n)[i] = SubSeq(s, 1, n)[i]
  OBVIOUS
<1>4. QED
  BY <1>1, <1>2, <1>3, SeqEqual

LEMMA WholePrefix ==
  ASSUME NEW S, NEW s \in Seq(S), NEW e \in S
  PROVE  SubSeq(Append(s, e), 1, Len(s)) = s
<1>1. SubSeq(Append(s, e), 1, Len(s)) \in Seq(S) /\ Len(SubSeq(Append(s, e), 1, Len(s))) = Len(s)
  OBVIOUS
<1>2. \A i \in 1 .. Len(s) : SubSeq(Append(s, e), 1, Len(s))[i] = s[i]
  OBVIOUS
<1>3. QED
  BY <1>1, <1>2, SeqEqual

-----------------------------------------------------------------------------
\* suggest_candidate offers a point only for reasons the history gives.
LEMMA SuggestionsAreSound ==
  ASSUME NEW pool \in SUBSET Points, NEW history \in Seq(Trial),
         NEW a \in Suggestions(history, pool)
  PROVE  /\ a \in [action : Actions, point : Points]
         /\ a.action = "evaluate_candidate" => Sound(history, a.point)
<1> DEFINE untried == Candidates(history, pool)
<1>1. untried \subseteq Points
  BY CentreAssumption DEF Candidates, Available
<1>2. \A p \in untried : p \notin Tried(history)
  <2>1. CASE history = <<>>
    BY <2>1 DEF Tried
  <2>2. CASE history # <<>>
    BY <2>2 DEF Candidates, Available
  <2>3. QED
    BY <2>1, <2>2
<1>3. Slots(history) # 0 => Len(history) + Reserve < Budget
  BY DEF Slots
<1> HIDE DEF untried
<1>4. \/ a \in [action : Actions \ {"evaluate_candidate"}, point : {Centre}]
      \/ /\ ~ Some(history, "running") /\ Slots(history) # 0 /\ ~ RepeatedFailure(history)
         /\ \E p \in untried : a = [action |-> "evaluate_candidate", point |-> p]
  BY DEF Suggestions, Actions, untried
<1>5. CASE a \in [action : Actions \ {"evaluate_candidate"}, point : {Centre}]
  BY <1>5, CentreAssumption DEF Actions
<1>6. ASSUME ~ Some(history, "running"), Slots(history) # 0, ~ RepeatedFailure(history),
             NEW p \in untried, a = [action |-> "evaluate_candidate", point |-> p]
      PROVE  a \in [action : Actions, point : Points] /\ Sound(history, a.point)
  BY <1>1, <1>2, <1>3, <1>6 DEF Sound, Actions
<1>7. QED
  BY <1>4, <1>5, <1>6

\* What recording a trial adds to the history.
LEMMA AppendKeeps ==
  ASSUME SearchInv, NEW t \in Trial, ~ Some(trials, "running"),
         t.suggested => Sound(trials, t.point),
         trials' = Append(trials, t), t.status = "running"
  PROVE  trials' \in Seq(Trial) /\ OneAtATime' /\ SearchIsFrugal'
<1>1. trials \in Seq(Trial)
  BY DEF SearchInv, TypeOKSearch
<1>2. /\ trials' \in Seq(Trial) /\ Len(trials') = Len(trials) + 1
      /\ trials'[Len(trials) + 1] = t /\ \A i \in 1 .. Len(trials) : trials'[i] = trials[i]
  BY <1>1
<1>3. \A i \in DOMAIN trials : trials[i].status # "running"
  BY DEF Some
<1>4. OneAtATime'
  BY <1>1, <1>2, <1>3 DEF OneAtATime
<1>5. ASSUME NEW i \in DOMAIN trials', trials'[i].suggested
      PROVE  /\ i <= Budget - Reserve
             /\ \A j \in 1 .. (i - 1) :
                  trials'[j].point # trials'[i].point
                  /\ ~ (trials'[j].suggested /\ trials'[j].status = "running")
             /\ ~ RepeatedFailure(SubSeq(trials', 1, i - 1))
  <2>1. i \in 1 .. Len(trials) \/ i = Len(trials) + 1
    BY <1>1, <1>2
  <2>2. CASE i \in 1 .. Len(trials)
    <3>1. /\ i <= Budget - Reserve
          /\ \A j \in 1 .. (i - 1) : trials[j].point # trials[i].point
          /\ ~ RepeatedFailure(SubSeq(trials, 1, i - 1))
      BY <1>1, <1>2, <1>5, <2>2 DEF SearchInv, SearchIsFrugal
    <3>2. SubSeq(trials', 1, i - 1) = SubSeq(trials, 1, i - 1)
      <4>1. i - 1 \in 0 .. Len(trials)
        BY <1>1, <2>2
      <4>2. QED
        BY <1>1, <4>1, PrefixOfAppend
    <3>3. \A j \in 1 .. (i - 1) :
            j \in DOMAIN trials /\ trials'[j] = trials[j] /\ trials'[i] = trials[i]
      BY <1>1, <1>2, <2>2
    <3>4. QED
      BY <1>3, <3>1, <3>2, <3>3, Zenon
  <2>3. CASE i = Len(trials) + 1
    <3>1. Sound(trials, t.point)
      BY <1>2, <1>5, <2>3
    <3>2. SubSeq(trials', 1, i - 1) = trials
      <4>1. i - 1 = Len(trials)
        BY <1>1, <2>3
      <4>2. QED
        BY <1>1, <4>1, WholePrefix
    <3>3. i <= Budget - Reserve
      BY <1>1, <2>3, <3>1, ConfigurationAssumption DEF Sound
    <3>4. \A j \in 1 .. Len(trials) : trials[j].point # t.point
      BY <1>1, <3>1 DEF Sound, Tried
    <3>5. ~ RepeatedFailure(SubSeq(trials', 1, i - 1))
      BY <3>1, <3>2 DEF Sound
    <3>6. \A j \in 1 .. (i - 1) :
            j \in DOMAIN trials /\ trials'[j] = trials[j]
            /\ trials[j].point # t.point /\ trials'[i] = t
      BY <1>1, <1>2, <2>3, <3>4
    <3>7. QED
      BY <1>3, <3>3, <3>5, <3>6, Zenon
  <2>4. QED
    BY <2>1, <2>2, <2>3
<1>6. QED
  BY <1>2, <1>4, <1>5 DEF SearchIsFrugal

-----------------------------------------------------------------------------
LEMMA SearchInitially == SearchInit => SearchInv
BY CentreAssumption DEF SearchInit, SearchInv, TypeOKSearch, OneAtATime, AnswerIsSound,
     SearchIsFrugal, Unanswered, Actions

LEMMA SearchStep == SearchInv /\ [SearchNext]_searchVars => SearchInv'
<1> SUFFICES ASSUME SearchInv, [SearchNext]_searchVars PROVE SearchInv'
  OBVIOUS
<1>1. /\ trials \in Seq(Trial) /\ answer \in [action : Actions, point : Points]
      /\ OneAtATime /\ AnswerIsSound /\ SearchIsFrugal
  BY DEF SearchInv, TypeOKSearch
<1>2. CASE Ask
  <2>1. PICK pool \in SUBSET Points : answer' \in Suggestions(trials, pool)
    BY <1>2 DEF Ask
  <2>2. /\ answer' \in [action : Actions, point : Points]
        /\ answer'.action = "evaluate_candidate" => Sound(trials, answer'.point)
    BY <1>1, <2>1, SuggestionsAreSound
  <2>3. trials' = trials
    BY <1>2 DEF Ask
  <2>4. QED
    BY <1>1, <2>2, <2>3 DEF SearchInv, TypeOKSearch, OneAtATime, AnswerIsSound, SearchIsFrugal
<1>3. CASE Act
  <2>1. answer' = Unanswered /\ Unanswered \in [action : Actions, point : Points]
        /\ Unanswered.action # "evaluate_candidate"
    BY <1>3, CentreAssumption DEF Act, Unanswered, Actions
  <2>2. CASE answer.action = "evaluate_candidate"
    <3> DEFINE t == [point |-> answer.point, status |-> "running",
                     cause |-> "none", suggested |-> TRUE]
    <3>1. t \in Trial /\ t.point = answer.point /\ t.status = "running"
      BY <1>1 DEF Trial
    <3>2. trials' = Append(trials, t)
      BY <1>3, <2>2 DEF Act
    <3>3. Sound(trials, answer.point)
      BY <1>1, <2>2 DEF AnswerIsSound
    <3> HIDE DEF t
    <3>4. trials' \in Seq(Trial) /\ OneAtATime' /\ SearchIsFrugal'
      BY <3>1, <3>2, <3>3, AppendKeeps DEF Sound
    <3>5. QED
      BY <2>1, <3>4 DEF SearchInv, TypeOKSearch, AnswerIsSound
  <2>3. CASE answer.action # "evaluate_candidate"
    <3>1. trials' = trials
      BY <1>3, <2>3 DEF Act
    <3>2. QED
      BY <1>1, <2>1, <3>1 DEF SearchInv, TypeOKSearch, OneAtATime, AnswerIsSound, SearchIsFrugal
  <2>4. QED
    BY <2>2, <2>3
<1>4. CASE Validation
  <2>1. answer' = Unanswered /\ Unanswered \in [action : Actions, point : Points]
        /\ Unanswered.action # "evaluate_candidate"
    BY <1>4, CentreAssumption DEF Validation, Unanswered, Actions
  <2>2. PICK p \in Points : trials' = Append(trials,
          [point |-> p, status |-> "running", cause |-> "none", suggested |-> FALSE])
    BY <1>4 DEF Validation
  <2> DEFINE t == [point |-> p, status |-> "running", cause |-> "none", suggested |-> FALSE]
  <2>3. t \in Trial /\ t.status = "running" /\ ~ t.suggested
    BY DEF Trial
  <2>4. trials' = Append(trials, t)
    BY <2>2
  <2> HIDE DEF t
  <2>5. ~ Some(trials, "running")
    BY <1>4 DEF Validation
  <2>6. trials' \in Seq(Trial) /\ OneAtATime' /\ SearchIsFrugal'
    BY <2>3, <2>4, <2>5, AppendKeeps
  <2>7. QED
    BY <2>1, <2>6 DEF SearchInv, TypeOKSearch, AnswerIsSound
<1>5. CASE Finished
  <2>1. PICK k \in DOMAIN trials :
          /\ trials[k].status = "running"
          /\ \/ \E s \in {"succeeded", "inconsistent"} : trials' = [trials EXCEPT ![k].status = s]
             \/ \E c \in Causes :
                  trials' = [trials EXCEPT ![k].status = "failed", ![k].cause = c]
    BY <1>5 DEF Finished
  <2>2. k = Len(trials) /\ answer' = answer
    BY <1>1, <1>5, <2>1 DEF OneAtATime, Finished
  <2>3. /\ trials' \in Seq(Trial) /\ Len(trials') = Len(trials)
        /\ \A i \in DOMAIN trials : i # k => trials'[i] = trials[i]
        /\ trials'[k].point = trials[k].point /\ trials'[k].suggested = trials[k].suggested
        /\ trials'[k].status # "running"
    <3>1. trials[k] \in Trial /\ k \in 1 .. Len(trials) /\ DOMAIN trials = 1 .. Len(trials)
      <4>1. trials \in Seq(Trial)
        BY <1>1
      <4>2. DOMAIN trials = 1 .. Len(trials)
        BY <4>1
      <4>3. k \in 1 .. Len(trials)
        BY <2>1, <4>2
      <4>4. QED
        BY <4>1, <4>2, <4>3
    <3>2. CASE \E s \in {"succeeded", "inconsistent"} : trials' = [trials EXCEPT ![k].status = s]
      <4>1. PICK s \in {"succeeded", "inconsistent"} : trials' = [trials EXCEPT ![k].status = s]
        BY <3>2
      <4> DEFINE t == [trials[k] EXCEPT !.status = s]
      <4>2. t \in Trial /\ t.point = trials[k].point /\ t.suggested = trials[k].suggested
            /\ t.status # "running"
        BY <3>1, <4>1 DEF Trial
      <4>3. trials' = [trials EXCEPT ![k] = t]
        BY <4>1
      <4> HIDE DEF t
      <4>4. trials \in Seq(Trial)
        BY <1>1
      <4>5. trials' \in Seq(Trial) /\ Len(trials') = Len(trials) /\ trials'[k] = t
        BY <3>1, <4>2, <4>3, <4>4
      <4>6. \A i \in DOMAIN trials : i # k => trials'[i] = trials[i]
        BY <3>1, <4>3, <4>4
      <4>7. QED
        BY <4>2, <4>5, <4>6
    <3>3. CASE \E c \in Causes :
                 trials' = [trials EXCEPT ![k].status = "failed", ![k].cause = c]
      <4>1. PICK c \in Causes :
              trials' = [trials EXCEPT ![k].status = "failed", ![k].cause = c]
        BY <3>3
      <4> DEFINE t == [trials[k] EXCEPT !.status = "failed", !.cause = c]
      <4>2. t \in Trial /\ t.point = trials[k].point /\ t.suggested = trials[k].suggested
            /\ t.status # "running"
        BY <3>1, <4>1 DEF Trial
      <4>3. trials' = [trials EXCEPT ![k] = t]
        BY <1>1, <2>1, <4>1
      <4> HIDE DEF t
      <4>4. trials \in Seq(Trial)
        BY <1>1
      <4>5. trials' \in Seq(Trial) /\ Len(trials') = Len(trials) /\ trials'[k] = t
        BY <3>1, <4>2, <4>3, <4>4
      <4>6. \A i \in DOMAIN trials : i # k => trials'[i] = trials[i]
        BY <3>1, <4>3, <4>4
      <4>7. QED
        BY <4>2, <4>5, <4>6
    <3>4. QED
      BY <2>1, <3>2, <3>3
  <2>4. OneAtATime'
    BY <1>1, <2>2, <2>3 DEF OneAtATime
  <2>5. answer.action # "evaluate_candidate"
    BY <1>1, <2>1 DEF AnswerIsSound, Sound, Some
  <2>6. ASSUME NEW i \in DOMAIN trials', trials'[i].suggested
        PROVE  /\ i <= Budget - Reserve
               /\ \A j \in 1 .. (i - 1) :
                    trials'[j].point # trials'[i].point
                    /\ ~ (trials'[j].suggested /\ trials'[j].status = "running")
               /\ ~ RepeatedFailure(SubSeq(trials', 1, i - 1))
    <3>1. i \in DOMAIN trials /\ i \in 1 .. Len(trials) /\ trials[i].suggested
      BY <1>1, <2>3, <2>6
    <3>2. /\ i <= Budget - Reserve
          /\ \A j \in 1 .. (i - 1) :
               trials[j].point # trials[i].point
               /\ ~ (trials[j].suggested /\ trials[j].status = "running")
          /\ ~ RepeatedFailure(SubSeq(trials, 1, i - 1))
      BY <1>1, <3>1 DEF SearchIsFrugal
    <3>3. \A j \in 1 .. (i - 1) : j \in DOMAIN trials /\ j # k /\ trials'[j] = trials[j]
      BY <1>1, <2>2, <2>3, <3>1
    <3>4. SubSeq(trials', 1, i - 1) = SubSeq(trials, 1, i - 1)
      <4>1. i - 1 \in 0 .. Len(trials)
        BY <1>1, <3>1
      <4>2. QED
        BY <1>1, <2>3, <3>3, <4>1, PrefixOfUpdate
    <3>5. trials'[i].point = trials[i].point
      BY <1>1, <2>3, <3>1
    <3>6. QED
      BY <3>2, <3>3, <3>4, <3>5
  <2>7. QED
    BY <1>1, <2>2, <2>3, <2>4, <2>5, <2>6 DEF SearchInv, TypeOKSearch, AnswerIsSound, SearchIsFrugal
<1>6. CASE UNCHANGED searchVars
  BY <1>1, <1>6 DEF searchVars, SearchInv, TypeOKSearch, OneAtATime, AnswerIsSound, SearchIsFrugal
<1>7. QED
  BY <1>2, <1>3, <1>4, <1>5, <1>6 DEF SearchNext

\* No suggestion repeats a point, spends the reserve, overlaps another one that
\* is under way, or follows three failures of one class (suggest_candidate).
THEOREM SuggestionsAreFrugal == SearchSpec => []SearchIsFrugal
<1>1. SearchInv => SearchIsFrugal
  BY DEF SearchInv
<1>2. QED
  BY <1>1, SearchInitially, SearchStep, PTL DEF SearchSpec

-----------------------------------------------------------------------------
(* The registry of adapters.                                               *)

Offers == Batches \cup {BuiltIn} \cup {Supplies(Chosen(allowed)) : allowed \in Allowances}
Descriptors == [Adapters -> Registration \cup {NoRegistration}]

TypeOKRegistry ==
  /\ descriptors \in Descriptors
  /\ factories \subseteq Adapters
  /\ accepted \in Seq(Offers)

\* A factory came with the registration that the adapter has.
FactoriesAreOwn ==
  \A a \in factories : descriptors[a] # NoRegistration /\ descriptors[a].factory

\* BatchIsWhole, part by part.
Accounted ==
  \A a \in Adapters : descriptors[a] # NoRegistration =>
    \E n \in DOMAIN accepted : \E k \in DOMAIN accepted[n] :
      accepted[n][k] = descriptors[a] /\ accepted[n][k].adapter = a
OneEach ==
  \A m, n \in DOMAIN accepted :
    \A j \in DOMAIN accepted[m], k \in DOMAIN accepted[n] :
      accepted[m][j].adapter = accepted[n][k].adapter => m = n /\ j = k
Standing ==
  \A n \in DOMAIN accepted : \A k \in DOMAIN accepted[n] :
    /\ accepted[n][k] \in Registration /\ accepted[n][k].fits
    /\ descriptors[accepted[n][k].adapter] = accepted[n][k]
Loaded ==
  \A e \in EntryPoints : e.name \in providers =>
    \A k \in DOMAIN e.supplied :
      /\ e.supplied[k].adapter \in Adapters /\ ~e.supplied[k].factory
      /\ descriptors[e.supplied[k].adapter] = e.supplied[k] /\ e.supplied[k].fits

RegistryInv ==
  TypeOKRegistry /\ FactoriesAreOwn /\ Accounted /\ OneEach /\ Standing /\ Loaded

LEMMA InvIsWhole == RegistryInv => BatchIsWhole
<1> SUFFICES ASSUME RegistryInv PROVE BatchIsWhole
  OBVIOUS
<1>1. \A a \in Adapters : Creatable(a) => descriptors[a].factory
  BY DEF RegistryInv, FactoriesAreOwn, Creatable
<1>2. \A e \in EntryPoints : e.name \in providers =>
        \A k \in DOMAIN e.supplied :
          descriptors[e.supplied[k].adapter] = e.supplied[k]
          /\ ~Creatable(e.supplied[k].adapter)
  BY DEF RegistryInv, Loaded, FactoriesAreOwn, Creatable
<1>3. /\ \A a \in Adapters : descriptors[a] # NoRegistration =>
           \E n \in DOMAIN accepted : \E k \in DOMAIN accepted[n] :
             accepted[n][k] = descriptors[a] /\ accepted[n][k].adapter = a
      /\ \A m, n \in DOMAIN accepted :
           \A j \in DOMAIN accepted[m], k \in DOMAIN accepted[n] :
             accepted[m][j].adapter = accepted[n][k].adapter => m = n /\ j = k
  BY DEF RegistryInv, Accounted, OneEach
<1>4. \A n \in DOMAIN accepted : \A k \in DOMAIN accepted[n] :
        descriptors[accepted[n][k].adapter] = accepted[n][k]
  BY DEF RegistryInv, Standing
<1>5. QED
  BY <1>1, <1>2, <1>3, <1>4 DEF BatchIsWhole

\* A batch that can be registered is there whole, and nothing else has changed.
LEMMA PutFacts ==
  ASSUME NEW old, old.descriptors \in Descriptors, old.factories \subseteq Adapters,
         NEW batch, IsBatch(batch), Registrable(old, batch),
         NEW new, new = Put(old, batch, DOMAIN batch)
  PROVE  /\ new.descriptors \in Descriptors /\ new.factories \subseteq Adapters
         /\ \A k \in DOMAIN batch :
              /\ batch[k] \in Registration /\ batch[k].adapter \in Adapters /\ batch[k].fits
              /\ old.descriptors[batch[k].adapter] = NoRegistration
              /\ new.descriptors[batch[k].adapter] = batch[k]
         /\ \A j, k \in DOMAIN batch : batch[j].adapter = batch[k].adapter => j = k
         /\ \A a \in Adapters :
              \/ new.descriptors[a] = old.descriptors[a]
              \/ \E k \in DOMAIN batch : batch[k].adapter = a /\ new.descriptors[a] = batch[k]
         /\ \A a \in new.factories :
              \/ a \in old.factories
              \/ \E k \in DOMAIN batch : batch[k].adapter = a /\ batch[k].factory
<1> DEFINE at(a) == {k \in DOMAIN batch : batch[k].adapter = a}
<1>1. /\ new.descriptors = [a \in Adapters |->
           IF at(a) # {} THEN batch[CHOOSE k \in at(a) : TRUE] ELSE old.descriptors[a]]
      /\ new.factories = old.factories
           \cup {batch[k].adapter : k \in {j \in DOMAIN batch : batch[j].factory}}
  BY DEF Put
<1>2. \A k \in DOMAIN batch :
        /\ batch[k] \in Registration /\ batch[k].adapter \in Adapters /\ batch[k].fits
        /\ old.descriptors[batch[k].adapter] = NoRegistration
        /\ \A j \in DOMAIN batch \ {k} : batch[j].adapter # batch[k].adapter
  BY DEF IsBatch, Registrable, Fits, Registration
<1>3. \A j, k \in DOMAIN batch : batch[j].adapter = batch[k].adapter => j = k
  BY <1>2
<1>4. \A a \in Adapters : at(a) # {} =>
        /\ (CHOOSE k \in at(a) : TRUE) \in at(a)
        /\ new.descriptors[a] = batch[CHOOSE k \in at(a) : TRUE]
  BY <1>1
<1>5. \A a \in Adapters : at(a) = {} => new.descriptors[a] = old.descriptors[a]
  BY <1>1
<1>6. \A a \in Adapters :
        \/ new.descriptors[a] = old.descriptors[a]
        \/ \E k \in DOMAIN batch : batch[k].adapter = a /\ new.descriptors[a] = batch[k]
  BY <1>4, <1>5
<1>7. \A k \in DOMAIN batch : new.descriptors[batch[k].adapter] = batch[k]
  <2> TAKE k \in DOMAIN batch
  <2>1. k \in at(batch[k].adapter) /\ batch[k].adapter \in Adapters
    BY <1>2
  <2>2. PICK j \in at(batch[k].adapter) : new.descriptors[batch[k].adapter] = batch[j]
    BY <1>4, <2>1
  <2>3. j = k
    BY <1>3, <2>2
  <2>4. QED
    BY <2>2, <2>3
<1>8. new.descriptors \in Descriptors
  <2>1. \A a \in Adapters : new.descriptors[a] \in Registration \cup {NoRegistration}
    BY <1>2, <1>6 DEF Descriptors
  <2>2. DOMAIN new.descriptors = Adapters /\ new.descriptors = [a \in Adapters |-> new.descriptors[a]]
    BY <1>1
  <2>3. QED
    BY <2>1, <2>2 DEF Descriptors
<1>9. new.factories \subseteq Adapters
  BY <1>1, <1>2
<1>10. \A a \in new.factories :
         \/ a \in old.factories
         \/ \E k \in DOMAIN batch : batch[k].adapter = a /\ batch[k].factory
  BY <1>1
<1>11. QED
  BY <1>2, <1>3, <1>6, <1>7, <1>8, <1>9, <1>10

LEMMA NoFit == NoRegistration.fits = FALSE
BY DEF NoRegistration

\* What a batch that is accepted leaves in order.
LEMMA AcceptedIsWhole ==
  ASSUME RegistryInv, NEW batch \in Offers, IsBatch(batch), Registrable(Here, batch),
         Leave(Registered(Here, batch), batch)
  PROVE  /\ TypeOKRegistry' /\ FactoriesAreOwn' /\ Accounted' /\ OneEach' /\ Standing'
         /\ \A a \in Adapters : descriptors[a] # NoRegistration => descriptors'[a] = descriptors[a]
         /\ \A k \in DOMAIN batch :
              batch[k].fits /\ descriptors'[batch[k].adapter] = batch[k]
<1> DEFINE new == Put(Here, batch, DOMAIN batch)
<1>1. Here.descriptors = descriptors /\ Here.factories = factories
  BY DEF Here
<1>2. /\ descriptors' = new.descriptors /\ factories' = new.factories
      /\ accepted' = Append(accepted, batch)
  BY DEF Leave, Registered
<1> HIDE DEF new
<1>3. /\ descriptors' \in Descriptors /\ factories' \subseteq Adapters
      /\ \A k \in DOMAIN batch :
           /\ batch[k] \in Registration /\ batch[k].adapter \in Adapters /\ batch[k].fits
           /\ descriptors[batch[k].adapter] = NoRegistration
           /\ descriptors'[batch[k].adapter] = batch[k]
      /\ \A j, k \in DOMAIN batch : batch[j].adapter = batch[k].adapter => j = k
      /\ \A a \in Adapters :
           \/ descriptors'[a] = descriptors[a]
           \/ \E k \in DOMAIN batch : batch[k].adapter = a /\ descriptors'[a] = batch[k]
      /\ \A a \in factories' :
           \/ a \in factories
           \/ \E k \in DOMAIN batch : batch[k].adapter = a /\ batch[k].factory
  <2>1. Here.descriptors \in Descriptors /\ Here.factories \subseteq Adapters
    BY <1>1 DEF RegistryInv, TypeOKRegistry
  <2>2. new = Put(Here, batch, DOMAIN batch)
    BY DEF new
  <2>3. QED
    BY <1>1, <1>2, <2>1, <2>2, PutFacts
<1>4. accepted \in Seq(Offers)
  BY DEF RegistryInv, TypeOKRegistry
<1>5. /\ accepted' \in Seq(Offers) /\ Len(accepted) \in Nat
      /\ DOMAIN accepted = 1 .. Len(accepted)
      /\ DOMAIN accepted' = DOMAIN accepted \cup {Len(accepted) + 1}
      /\ Len(accepted) + 1 \notin DOMAIN accepted
      /\ \A n \in DOMAIN accepted : accepted'[n] = accepted[n]
      /\ accepted'[Len(accepted) + 1] = batch
  BY <1>2, <1>4
<1>6. \A a \in Adapters : descriptors[a] # NoRegistration => descriptors'[a] = descriptors[a]
  BY <1>3
<1>7. \A n \in DOMAIN accepted : \A k \in DOMAIN accepted[n] :
        /\ accepted[n][k] \in Registration /\ accepted[n][k].fits
        /\ accepted[n][k].adapter \in Adapters
        /\ descriptors[accepted[n][k].adapter] = accepted[n][k]
        /\ descriptors[accepted[n][k].adapter] # NoRegistration
  BY NoFit DEF RegistryInv, Standing, Registration
<1>8. TypeOKRegistry'
  BY <1>3, <1>5 DEF TypeOKRegistry, Offers, Descriptors
<1>9. FactoriesAreOwn'
  BY <1>3, <1>6, NoFit DEF RegistryInv, TypeOKRegistry, FactoriesAreOwn
<1>10. Standing'
  BY <1>3, <1>5, <1>6, <1>7 DEF Standing
<1>11. OneEach'
  <2> SUFFICES ASSUME NEW m \in DOMAIN accepted', NEW n \in DOMAIN accepted',
                      NEW j \in DOMAIN accepted'[m], NEW k \in DOMAIN accepted'[n],
                      accepted'[m][j].adapter = accepted'[n][k].adapter
               PROVE  m = n /\ j = k
    BY DEF OneEach
  <2>1. CASE m \in DOMAIN accepted /\ n \in DOMAIN accepted
    BY <1>5, <2>1 DEF RegistryInv, OneEach
  <2>2. CASE m = Len(accepted) + 1 /\ n = Len(accepted) + 1
    BY <1>3, <1>5, <2>2
  <2>3. CASE m \in DOMAIN accepted /\ n = Len(accepted) + 1
    BY <1>3, <1>5, <1>7, <2>3
  <2>4. CASE m = Len(accepted) + 1 /\ n \in DOMAIN accepted
    BY <1>3, <1>5, <1>7, <2>4
  <2>5. QED
    BY <1>5, <2>1, <2>2, <2>3, <2>4
<1>12. Accounted'
  <2> SUFFICES ASSUME NEW a \in Adapters, descriptors'[a] # NoRegistration
               PROVE  \E n \in DOMAIN accepted' : \E k \in DOMAIN accepted'[n] :
                        accepted'[n][k] = descriptors'[a] /\ accepted'[n][k].adapter = a
    BY DEF Accounted
  <2>1. CASE descriptors'[a] = descriptors[a]
    <3>1. PICK n \in DOMAIN accepted : \E k \in DOMAIN accepted[n] :
            accepted[n][k] = descriptors[a] /\ accepted[n][k].adapter = a
      BY <2>1 DEF RegistryInv, Accounted
    <3>2. n \in DOMAIN accepted' /\ accepted'[n] = accepted[n]
      BY <1>5, <3>1
    <3>3. QED
      BY <2>1, <3>1, <3>2
  <2>2. CASE \E k \in DOMAIN batch : batch[k].adapter = a /\ descriptors'[a] = batch[k]
    <3>1. Len(accepted) + 1 \in DOMAIN accepted' /\ accepted'[Len(accepted) + 1] = batch
      BY <1>5
    <3>2. QED
      BY <2>2, <3>1
  <2>3. QED
    BY <1>3, <2>1, <2>2
<1>13. QED
  BY <1>3, <1>6, <1>8, <1>9, <1>10, <1>11, <1>12

\* What was loaded stays loaded.
LEMMA LoadedStays ==
  ASSUME RegistryInv,
         \A a \in Adapters : descriptors[a] # NoRegistration => descriptors'[a] = descriptors[a],
         NEW e \in EntryPoints, e.name \in providers, NEW k \in DOMAIN e.supplied
  PROVE  /\ e.supplied[k].adapter \in Adapters /\ ~e.supplied[k].factory
         /\ descriptors'[e.supplied[k].adapter] = e.supplied[k] /\ e.supplied[k].fits
BY NoFit DEF RegistryInv, Loaded

LEMMA RegistryBegins == RegistryInit => RegistryInv
<1> SUFFICES ASSUME RegistryInit PROVE RegistryInv
  OBVIOUS
<1> DEFINE new == Put(Empty, BuiltIn, DOMAIN BuiltIn)
<1>1. descriptors = new.descriptors /\ factories = new.factories /\ providers = {}
      /\ accepted = <<BuiltIn>>
  BY BuiltInAssumption DEF RegistryInit, Default, Registered
<1>2. Empty.descriptors \in Descriptors /\ Empty.factories = {}
      /\ \A a \in Adapters : Empty.descriptors[a] = NoRegistration
  BY DEF Empty, Descriptors
<1>3. new = Put(Empty, BuiltIn, DOMAIN BuiltIn)
  OBVIOUS
<1> HIDE DEF new
<1>4. /\ descriptors \in Descriptors /\ factories \subseteq Adapters
      /\ \A k \in DOMAIN BuiltIn :
           /\ BuiltIn[k] \in Registration /\ BuiltIn[k].adapter \in Adapters /\ BuiltIn[k].fits
           /\ descriptors[BuiltIn[k].adapter] = BuiltIn[k]
      /\ \A j, k \in DOMAIN BuiltIn : BuiltIn[j].adapter = BuiltIn[k].adapter => j = k
      /\ \A a \in Adapters :
           \/ descriptors[a] = Empty.descriptors[a]
           \/ \E k \in DOMAIN BuiltIn : BuiltIn[k].adapter = a /\ descriptors[a] = BuiltIn[k]
      /\ \A a \in factories :
           \/ a \in Empty.factories
           \/ \E k \in DOMAIN BuiltIn : BuiltIn[k].adapter = a /\ BuiltIn[k].factory
  BY <1>1, <1>2, <1>3, BuiltInAssumption, PutFacts
<1>5. /\ accepted \in Seq(Offers) /\ DOMAIN accepted = {1} /\ accepted[1] = BuiltIn
  BY <1>1 DEF Offers
<1>6. TypeOKRegistry
  BY <1>4, <1>5 DEF TypeOKRegistry
<1>7. FactoriesAreOwn
  BY <1>2, <1>4, NoFit DEF FactoriesAreOwn
<1>8. Accounted
  BY <1>2, <1>4, <1>5 DEF Accounted
<1>9. OneEach /\ Standing
  BY <1>4, <1>5 DEF OneEach, Standing
<1>10. Loaded
  BY <1>1 DEF Loaded
<1>11. QED
  BY <1>6, <1>7, <1>8, <1>9, <1>10 DEF RegistryInv

\* A batch that is refused leaves the registry as it was.
LEMMA RefusedLeaves ==
  ASSUME NEW batch, ~Registrable(Here, batch), Leave(Registered(Here, batch), batch)
  PROVE  UNCHANGED <<descriptors, factories, accepted>>
BY DEF Leave, Registered, Here

LEMMA RegistryKept ==
  ASSUME RegistryInv, UNCHANGED <<descriptors, factories, providers, accepted>>
  PROVE  RegistryInv'
BY DEF RegistryInv, TypeOKRegistry, FactoriesAreOwn, Accounted, OneEach, Standing, Loaded,
       Offers, Descriptors

LEMMA RegisterKeeps ==
  ASSUME RegistryInv, NEW batch \in Batches, Register(batch)
  PROVE  RegistryInv'
<1>1. Leave(Registered(Here, batch), batch) /\ UNCHANGED providers
  BY DEF Register
<1>2. batch \in Offers /\ IsBatch(batch)
  BY BatchesAssumption DEF Offers
<1>3. CASE Registrable(Here, batch)
  <2>1. /\ TypeOKRegistry' /\ FactoriesAreOwn' /\ Accounted' /\ OneEach' /\ Standing'
        /\ \A a \in Adapters : descriptors[a] # NoRegistration => descriptors'[a] = descriptors[a]
    BY <1>1, <1>2, <1>3, AcceptedIsWhole
  <2>2. Loaded'
    BY <1>1, <2>1, LoadedStays DEF Loaded
  <2>3. QED
    BY <2>1, <2>2 DEF RegistryInv
<1>4. CASE ~Registrable(Here, batch)
  BY <1>1, <1>4, RefusedLeaves, RegistryKept
<1>5. QED
  BY <1>3, <1>4

\* The batch of some providers holds all that each of them supplies.
LEMMA SuppliesFacts ==
  ASSUME NEW allowed, \A e \in Chosen(allowed) : Supplied(e)
  PROVE  /\ IsBatch(Supplies(Chosen(allowed)))
         /\ \A e \in Chosen(allowed) : \A k \in DOMAIN e.supplied :
              /\ <<e, k>> \in DOMAIN Supplies(Chosen(allowed))
              /\ Supplies(Chosen(allowed))[<<e, k>>] = e.supplied[k]
              /\ e.supplied[k].adapter \in Adapters /\ ~e.supplied[k].factory
<1> DEFINE chosen == Chosen(allowed)
           keys == UNION {{e} \X DOMAIN e.supplied : e \in chosen}
<1>1. Supplies(chosen) = [x \in keys |-> x[1].supplied[x[2]]]
  BY DEF Supplies
<1>2. \A e \in chosen : e \in EntryPoints /\ e.supplied \in Seq(Registration)
  BY EntryPointsAssumption DEF Chosen
<1>3. \A e \in chosen : \A k \in DOMAIN e.supplied : e.supplied[k] \in Registration
  BY <1>2
<1>4. \A x \in keys : x[1] \in chosen /\ x[2] \in DOMAIN x[1].supplied
  OBVIOUS
<1>5. \A x \in keys : x[1].supplied[x[2]] \in Registration
  BY <1>3, <1>4
<1>6. IsBatch(Supplies(chosen))
  BY <1>1, <1>5 DEF IsBatch
<1>7. \A e \in chosen : \A k \in DOMAIN e.supplied : <<e, k>> \in keys
  OBVIOUS
<1>8. \A e \in chosen : \A k \in DOMAIN e.supplied :
        /\ <<e, k>> \in DOMAIN Supplies(chosen)
        /\ Supplies(chosen)[<<e, k>>] = e.supplied[k]
  BY <1>1, <1>7
<1>9. \A e \in chosen : \A k \in DOMAIN e.supplied :
        e.supplied[k].adapter \in Adapters /\ ~e.supplied[k].factory
  BY <1>3 DEF Registration, Supplied
<1>10. QED
  BY <1>6, <1>8, <1>9

LEMMA LoadKeeps ==
  ASSUME RegistryInv, NEW allowed \in Allowances, LoadEntryPoints(allowed)
  PROVE  RegistryInv'
<1> DEFINE batch == Supplies(Chosen(allowed))
<1>1. CASE UNCHANGED <<descriptors, factories, providers, accepted>>
  BY <1>1, RegistryKept
<1>2. CASE /\ \A e \in Chosen(allowed) : Supplied(e)
           /\ Leave(Registered(Here, batch), batch)
           /\ providers' = IF Registrable(Here, batch)
                             THEN providers \cup allowed ELSE providers
  <2>1. batch \in Offers /\ IsBatch(batch)
    BY <1>2, SuppliesFacts DEF Offers
  <2>2. CASE Registrable(Here, batch)
    <3>1. /\ TypeOKRegistry' /\ FactoriesAreOwn' /\ Accounted' /\ OneEach' /\ Standing'
          /\ \A a \in Adapters : descriptors[a] # NoRegistration => descriptors'[a] = descriptors[a]
          /\ \A x \in DOMAIN batch : batch[x].fits /\ descriptors'[batch[x].adapter] = batch[x]
      <4> HIDE DEF batch
      <4> QED  BY <1>2, <2>1, <2>2, AcceptedIsWhole
    <3>2. ASSUME NEW e \in EntryPoints, e.name \in providers', NEW k \in DOMAIN e.supplied
          PROVE  /\ e.supplied[k].adapter \in Adapters /\ ~e.supplied[k].factory
                 /\ descriptors'[e.supplied[k].adapter] = e.supplied[k] /\ e.supplied[k].fits
      <4>1. CASE e.name \in providers
        BY <3>1, <3>2, <4>1, LoadedStays
      <4>2. CASE e.name \in allowed
        <5>1. e \in Chosen(allowed)
          BY <4>2 DEF Chosen
        <5>2. /\ <<e, k>> \in DOMAIN batch /\ batch[<<e, k>>] = e.supplied[k]
              /\ e.supplied[k].adapter \in Adapters /\ ~e.supplied[k].factory
          BY <1>2, <5>1, SuppliesFacts
        <5>3. QED
          <6> HIDE DEF batch
          <6> QED  BY <3>1, <5>2
      <4>3. QED
        BY <1>2, <2>2, <3>2, <4>1, <4>2
    <3>3. Loaded'
      BY <3>2 DEF Loaded
    <3>4. QED
      BY <3>1, <3>3 DEF RegistryInv
  <2>3. CASE ~Registrable(Here, batch)
    <3>1. UNCHANGED <<descriptors, factories, accepted>>
      <4> HIDE DEF batch
      <4> QED  BY <1>2, <2>3, RefusedLeaves
    <3>2. QED
      BY <1>2, <2>3, <3>1, RegistryKept
  <2>4. QED
    BY <2>2, <2>3
<1>3. QED
  BY <1>1, <1>2 DEF LoadEntryPoints

LEMMA RegistryStep == RegistryInv /\ [RegistryNext]_registryVars => RegistryInv'
<1> SUFFICES ASSUME RegistryInv, [RegistryNext]_registryVars PROVE RegistryInv'
  OBVIOUS
<1>1. CASE \E batch \in Batches : Register(batch)
  BY <1>1, RegisterKeeps
<1>2. CASE \E allowed \in Allowances : LoadEntryPoints(allowed)
  BY <1>2, LoadKeeps
<1>3. CASE UNCHANGED registryVars
  BY <1>3, RegistryKept DEF registryVars
<1>4. QED
  BY <1>1, <1>2, <1>3 DEF RegistryNext

\* Whatever batches are refused and whatever providers fail, the registry is that of
\* the accepted batches, each of them whole, and what providers supply has no factory
\* (register_many, load_entrypoint_adapters).
THEOREM BatchesAreWhole == RegistrySpec => []BatchIsWhole
<1>1. QED
  BY RegistryBegins, RegistryStep, InvIsWhole, PTL DEF RegistrySpec

-----------------------------------------------------------------------------
(* The evidence of a training.  The check goes through the amplitudes one  *)
(* after the other and compares a count at the end; that the count is that *)
(* of the points, and the points are one for each wavelength, makes the    *)
(* derived objectives those of the whole band.                             *)

Logged == logged \in Logs /\ ObservationsVerified(logged)

TrainingInv ==
  /\ phase \in {"components", "legacy", "verified"} => Logged
  /\ phase = "verified" => modal \in ModalLogs /\ ComponentsVerified(modal)

\* The observations of a stage are as many as the wavelengths, and one for each.
LEMMA PointPerWavelength ==
  ASSUME NEW lines \in Seq(Observation), NEW stage, StageVerified(lines, stage)
  PROVE  LET points == PointsAt(lines, stage)
         IN /\ \A i \in points : lines[i].wavelength \in Wavelengths
            /\ \A w \in Wavelengths : \E i \in points : lines[i].wavelength = w
            /\ \A i, j \in points : lines[i].wavelength = lines[j].wavelength => i = j
            /\ Cardinality(points) = Cardinality(Wavelengths)
<1> DEFINE points == PointsAt(lines, stage)
           band == [i \in points |-> lines[i].wavelength]
<1>1. {lines[i].wavelength : i \in points} = Wavelengths /\ Cardinality(points) = Cardinality(Wavelengths)
  BY DEF StageVerified
<1>2. IsFiniteSet(points)
  <2>1. IsFiniteSet(1 .. Len(lines)) /\ DOMAIN lines = 1 .. Len(lines)
    BY FS_Interval
  <2>2. points \in SUBSET (1 .. Len(lines))
    BY <2>1 DEF PointsAt, Told
  <2>3. QED
    BY <2>1, <2>2, FS_Subset
<1>3. band \in Surjection(points, Wavelengths)
  <2>1. band \in [points -> Wavelengths]
    BY <1>1
  <2>2. \A w \in Wavelengths : \E i \in points : band[i] = w
    BY <1>1
  <2>3. QED
    BY <2>1, <2>2 DEF Surjection
<1>4. band \in Injection(points, Wavelengths)
  BY <1>1, <1>2, <1>3, FS_SurjSameCardinalityImpliesInj
<1>5. \A i, j \in points : lines[i].wavelength = lines[j].wavelength => i = j
  BY <1>4 DEF Injection, IsInjective
<1>6. QED
  BY <1>1, <1>5

\* Amplitudes of a wavelength that another line already told are refused, so those
\* of a stage have different wavelengths, each that of a point with the same value.
LEMMA DerivedFromPoints ==
  ASSUME NEW lines \in Seq(Amplitudes), ComponentsVerified(lines), NEW stage
  PROVE  LET derived == DerivedOf(lines, stage)
         IN /\ \A i \in derived : \E k \in PointsAt(logged, stage) :
                 logged[k].wavelength = lines[i].wavelength /\ logged[k].value = Rescored(lines[i])
            /\ \A i, j \in derived : lines[i].wavelength = lines[j].wavelength => i = j
<1> DEFINE derived == DerivedOf(lines, stage)
<1>1. DOMAIN lines = 1 .. Len(lines) /\ derived \subseteq DOMAIN lines
  BY DEF DerivedOf
<1>2. \A i \in derived : Derivable(lines, i) /\ lines[i].stage = stage
  BY DEF ComponentsVerified, DerivedOf
<1>3. ASSUME NEW i \in derived, NEW j \in derived, lines[i].wavelength = lines[j].wavelength
      PROVE  ~(i < j)
  <2>1. i < j => i \in 1 .. (j - 1)
    BY <1>1
  <2>2. QED
    BY <1>2, <1>3, <2>1 DEF Derivable
<1>4. \A i, j \in derived : lines[i].wavelength = lines[j].wavelength => i = j
  <2>1. \A i, j \in derived : i \in Int /\ j \in Int
    BY <1>1
  <2>2. QED
    BY <1>3, <2>1
<1>5. QED
  BY <1>2, <1>4 DEF Derivable

\* With as many derived objectives as points, none is missing.
LEMMA WholeBand ==
  ASSUME Logged, modal \in Seq(Amplitudes), ComponentsVerified(modal), NEW stage \in Stages
  PROVE  \A w \in Wavelengths : \E i \in DerivedOf(modal, stage) : modal[i].wavelength = w
<1> DEFINE derived == DerivedOf(modal, stage)
           points == PointsAt(logged, stage)
           band == [i \in derived |-> modal[i].wavelength]
<1>1. /\ \A k \in points : logged[k].wavelength \in Wavelengths
      /\ Cardinality(points) = Cardinality(Wavelengths)
  BY TrainingAssumption, PointPerWavelength DEF Logged, ObservationsVerified
<1>2. /\ \A i \in derived : \E k \in points : logged[k].wavelength = modal[i].wavelength
      /\ \A i, j \in derived : modal[i].wavelength = modal[j].wavelength => i = j
  BY DerivedFromPoints
<1>3. Cardinality(derived) = Cardinality(Wavelengths)
  BY <1>1 DEF ComponentsVerified
<1>4. band \in Injection(derived, Wavelengths)
  <2>1. band \in [derived -> Wavelengths]
    BY <1>1, <1>2
  <2>2. QED
    BY <1>2, <2>1 DEF Injection, IsInjective
<1>5. band \in Surjection(derived, Wavelengths)
  BY <1>3, <1>4, TrainingAssumption, FS_Injection
<1>6. QED
  BY <1>5 DEF Surjection

LEMMA VerifiedIsNative == TrainingInv => RescoredMinimumIsNative
<1> SUFFICES ASSUME TrainingInv, phase = "verified", NEW stage \in Stages
             PROVE  LET derived == DerivedOf(modal, stage)
                    IN /\ {modal[i].wavelength : i \in derived} = Wavelengths
                       /\ Smallest({Rescored(modal[i]) : i \in derived})
                            = MinimumOf(logged, stage).value
  BY DEF RescoredMinimumIsNative
<1> DEFINE derived == DerivedOf(modal, stage)
           points == PointsAt(logged, stage)
<1>1. /\ Logged /\ logged \in Seq(Observation) /\ StageVerified(logged, stage)
      /\ modal \in Seq(Amplitudes) /\ ComponentsVerified(modal)
  BY TrainingAssumption DEF TrainingInv, Logged, ObservationsVerified
<1>2. /\ \A k \in points : logged[k].wavelength \in Wavelengths
      /\ \A k, l \in points : logged[k].wavelength = logged[l].wavelength => k = l
  BY <1>1, PointPerWavelength
<1>3. \A i \in derived : \E k \in points :
        logged[k].wavelength = modal[i].wavelength /\ logged[k].value = Rescored(modal[i])
  BY <1>1, DerivedFromPoints
<1>4. \A w \in Wavelengths : \E i \in derived : modal[i].wavelength = w
  BY <1>1, WholeBand
<1>5. {modal[i].wavelength : i \in derived} = Wavelengths
  BY <1>2, <1>3, <1>4
<1>6. \A k \in points : \E i \in derived : Rescored(modal[i]) = logged[k].value
  <2> TAKE k \in points
  <2>1. PICK i \in derived : modal[i].wavelength = logged[k].wavelength
    BY <1>2, <1>4
  <2>2. PICK l \in points : logged[l].wavelength = modal[i].wavelength
                            /\ logged[l].value = Rescored(modal[i])
    BY <1>3
  <2>3. l = k
    BY <1>2, <2>1, <2>2
  <2>4. QED
    BY <2>2, <2>3
<1>7. {Rescored(modal[i]) : i \in derived} = {logged[k].value : k \in points}
  <2>1. \A i \in derived : \E k \in points : logged[k].value = Rescored(modal[i])
    BY <1>3
  <2> HIDE DEF derived, points
  <2> QED  BY <1>6, <2>1
<1>8. MinimumOf(logged, stage).value = Smallest({logged[k].value : k \in points})
  BY <1>1 DEF StageVerified
<1>9. QED
  BY <1>5, <1>7, <1>8

LEMMA TrainingStep == TrainingInv /\ [TrainingNext]_trainingVars => TrainingInv'
<1> SUFFICES ASSUME TrainingInv, [TrainingNext]_trainingVars PROVE TrainingInv'
  OBVIOUS
<1>1. ASSUME logged' = logged, Logged PROVE Logged'
  BY <1>1 DEF Logged
<1>2. CASE CheckReadback
  BY <1>2 DEF CheckReadback, TrainingInv
<1>3. CASE CheckObservations
  BY <1>3 DEF CheckObservations, TrainingInv, Logged
<1>4. CASE CheckComponents
  <2>1. Logged /\ logged' = logged /\ profile' = profile
    BY <1>4 DEF CheckComponents, TrainingInv
  <2>2. phase' = "verified" => modal' \in ModalLogs /\ ComponentsVerified(modal')
    BY <1>4 DEF CheckComponents
  <2>3. ComponentsVerified(modal') => ComponentsVerified(modal)'
    BY <2>1 DEF ComponentsVerified, Derivable, DerivedOf, PointsAt, Told, Rescored
  <2>4. QED
    BY <1>1, <2>1, <2>2, <2>3 DEF TrainingInv
<1>5. CASE UNCHANGED trainingVars
  <2>1. UNCHANGED <<phase, profile, logged, modal>>
    BY <1>5 DEF trainingVars
  <2>2. ComponentsVerified(modal) => ComponentsVerified(modal)'
    BY <2>1 DEF ComponentsVerified, Derivable, DerivedOf, PointsAt, Told, Rescored
  <2>3. QED
    BY <1>1, <2>1, <2>2 DEF TrainingInv
<1>6. QED
  BY <1>2, <1>3, <1>4, <1>5 DEF TrainingNext

\* Whatever was logged, the minimum that the driver derives from amplitudes it has
\* accepted is the one that the native program has logged, over the whole band
\* (optimization_prechecks, training_components).
THEOREM RescoringIsNative == TrainingSpec => []RescoredMinimumIsNative
<1>1. TrainingInit => TrainingInv
  BY DEF TrainingInit, TrainingInv
<1>2. QED
  BY <1>1, TrainingStep, VerifiedIsNative, PTL DEF TrainingSpec

-----------------------------------------------------------------------------
(* The migrations.  Steps are only ever added, so the way a contract was   *)
(* migrated stays the way from its version; the loop that reads another    *)
(* one of that version cannot leave it, which is an invariant of its       *)
(* rounds: it has come along that way, and stands where it goes on.        *)

Reading == [runs : BOOLEAN, source : Versions, at : Versions,
            visited : Seq(Versions), applied : Seq(Ids)]
Migrated == [source : Versions, through : Seq(Versions), markers : Seq(Ids)]

TypeOKMigrations ==
  /\ steps \in [Versions -> MigrationStep \cup {NoStep}]
  /\ taken \subseteq Ids
  /\ reading \in Reading /\ migrated \in Seq(Migrated)

\* A registered step is one from its version, and its id is that of no other.
StepsAreOwn ==
  /\ \A v \in Versions : steps[v] # NoStep => steps[v].from = v /\ steps[v].id \in taken
  /\ \A u, v \in Versions :
       steps[u] # NoStep /\ steps[v] # NoStep /\ steps[u].id = steps[v].id => u = v

\* The registered steps lead from `source` over the versions `through` to `at`.
Leads(source, at, through, markers) ==
  /\ Len(markers) = Len(through)
  /\ through = <<>> => at = source
  /\ through # <<>> => through[1] = source
  /\ \A i \in DOMAIN through :
       /\ through[i] # Current
       /\ steps[through[i]] # NoStep
       /\ steps[through[i]].id = markers[i]
       /\ steps[through[i]].to = IF i = Len(through) THEN at ELSE through[i + 1]
  /\ \A i, j \in DOMAIN through : through[i] = through[j] => i = j

\* One who has come `at` a version over `through` is on the way that m went.
OnTheWay(m, at, through) ==
  /\ Len(through) <= Len(m.through)
  /\ \A i \in DOMAIN through : through[i] = m.through[i]
  /\ at = IF Len(through) = Len(m.through) THEN Current ELSE m.through[Len(through) + 1]

Way == /\ Leads(reading.source, reading.at, reading.visited, reading.applied)
       /\ ~reading.runs => reading = NotReading
Ways == \A k \in DOMAIN migrated :
  Leads(migrated[k].source, Current, migrated[k].through, migrated[k].markers)
SameWay == reading.runs =>
  \A k \in DOMAIN migrated :
    migrated[k].source = reading.source => OnTheWay(migrated[k], reading.at, reading.visited)
SameMarkers == \A k, l \in DOMAIN migrated :
  migrated[k].source = migrated[l].source => migrated[k].markers = migrated[l].markers

MigrationsInv == TypeOKMigrations /\ StepsAreOwn /\ Way /\ Ways /\ SameWay /\ SameMarkers

\* No way is longer than there are versions.
LEMMA WaysAreShort ==
  ASSUME NEW through \in Seq(Versions),
         \A i, j \in DOMAIN through : through[i] = through[j] => i = j
  PROVE  Len(through) <= Cardinality(Versions)
<1>1. through \in [1 .. Len(through) -> Versions] /\ DOMAIN through = 1 .. Len(through)
  OBVIOUS
<1>2. through \in Injection(1 .. Len(through), Versions)
  BY <1>1 DEF Injection, IsInjective
<1>3. Cardinality(1 .. Len(through)) = Len(through)
  <2>1. Len(through) \in Nat
    OBVIOUS
  <2>2. QED
    BY <2>1, FS_Interval, SMTT(30)
<1>4. QED
  BY <1>2, <1>3, MigrationsAssumption, FS_Injection

LEMMA StableWhenOwn == MigrationsInv => MigrationsAreStable
<1> SUFFICES ASSUME MigrationsInv PROVE MigrationsAreStable
  OBVIOUS
<1> USE DEF MigrationsInv
<1>1. reading \in Reading /\ \A k \in DOMAIN migrated : migrated[k] \in Migrated
  BY DEF TypeOKMigrations
<1>2. Len(reading.applied) <= Cardinality(Versions)
  <2>1. reading.visited \in Seq(Versions)
    BY <1>1 DEF Reading
  <2>2. /\ Len(reading.applied) = Len(reading.visited)
        /\ \A i, j \in DOMAIN reading.visited : reading.visited[i] = reading.visited[j] => i = j
    BY DEF Way, Leads
  <2>3. QED
    BY <2>1, <2>2, WaysAreShort
<1>3. ASSUME NEW k \in DOMAIN migrated,
             NEW i \in DOMAIN migrated[k].markers, NEW j \in DOMAIN migrated[k].markers,
             migrated[k].markers[i] = migrated[k].markers[j]
      PROVE  i = j
  <2> DEFINE m == migrated[k]
  <2>1. m.through \in Seq(Versions) /\ m.markers \in Seq(Ids)
    BY <1>1 DEF Migrated
  <2>2. Leads(m.source, Current, m.through, m.markers)
    BY DEF Ways
  <2>3. i \in DOMAIN m.through /\ j \in DOMAIN m.through
    BY <2>1, <2>2 DEF Leads
  <2>4. /\ steps[m.through[i]] # NoStep /\ steps[m.through[j]] # NoStep
        /\ steps[m.through[i]].id = steps[m.through[j]].id
    BY <1>3, <2>2, <2>3 DEF Leads
  <2>5. m.through[i] = m.through[j]
    BY <2>1, <2>3, <2>4 DEF StepsAreOwn
  <2>6. QED
    BY <2>2, <2>3, <2>5 DEF Leads
<1>4. ASSUME NEW k \in DOMAIN migrated, reading.runs,
             reading.source = migrated[k].source, reading.at # Current
      PROVE  ~Obstructed
  <2> DEFINE m == migrated[k]
             n == Len(reading.visited)
  <2>1. m.through \in Seq(Versions) /\ reading.visited \in Seq(Versions)
    BY <1>1 DEF Migrated, Reading
  <2>2. Leads(m.source, Current, m.through, m.markers)
    BY DEF Ways
  <2>3. OnTheWay(m, reading.at, reading.visited)
    BY <1>4 DEF SameWay
  <2>4. n + 1 \in DOMAIN m.through /\ reading.at = m.through[n + 1]
    BY <1>4, <2>1, <2>3 DEF OnTheWay
  <2>5. steps[reading.at] # NoStep
    BY <2>2, <2>4 DEF Leads
  <2>6. ASSUME NEW i \in DOMAIN reading.visited, reading.visited[i] = reading.at PROVE FALSE
    <3>1. i \in DOMAIN m.through /\ m.through[i] = m.through[n + 1]
      BY <2>1, <2>3, <2>4, <2>6 DEF OnTheWay
    <3>2. i = n + 1
      BY <2>2, <2>4, <3>1 DEF Leads
    <3>3. QED
      BY <2>1, <3>2
  <2>7. QED
    BY <2>5, <2>6 DEF Obstructed
<1>5. QED
  BY <1>2, <1>3, <1>4 DEF MigrationsAreStable, SameMarkers

LEMMA MigrationsBegin == MigrationInit => MigrationsInv
<1> SUFFICES ASSUME MigrationInit PROVE MigrationsInv
  OBVIOUS
<1>1. reading = NotReading /\ migrated = <<>> /\ steps = [v \in Versions |-> NoStep] /\ taken = {}
  BY DEF MigrationInit
<1>2. TypeOKMigrations
  BY <1>1, MigrationsAssumption DEF TypeOKMigrations, NotReading, Reading
<1>3. StepsAreOwn
  BY <1>1 DEF StepsAreOwn
<1>4. Way
  BY <1>1 DEF Way, Leads, NotReading
<1>5. Ways /\ SameWay /\ SameMarkers
  BY <1>1 DEF Ways, SameWay, SameMarkers
<1>6. QED
  BY <1>2, <1>3, <1>4, <1>5 DEF MigrationsInv

\* A way remains when steps are added.
LEMMA WaysRemain ==
  ASSUME NEW source, NEW at, NEW through \in Seq(Versions), NEW markers,
         \A v \in Versions : steps[v] # NoStep => steps'[v] = steps[v],
         Leads(source, at, through, markers)
  PROVE  Leads(source, at, through, markers)'
<1>1. \A i \in DOMAIN through : through[i] \in Versions
  OBVIOUS
<1>2. QED
  BY <1>1 DEF Leads

\* What does not touch a migration under way nor the record of migrations.
LEMMA MigrationsKept ==
  ASSUME MigrationsInv, TypeOKMigrations', StepsAreOwn', UNCHANGED <<reading, migrated>>,
         \A v \in Versions : steps[v] # NoStep => steps'[v] = steps[v]
  PROVE  MigrationsInv'
<1> USE DEF MigrationsInv
<1>1. reading \in Reading /\ \A k \in DOMAIN migrated : migrated[k] \in Migrated
  BY DEF TypeOKMigrations
<1>2. Way'
  <2>1. reading.visited \in Seq(Versions)
    BY <1>1 DEF Reading
  <2>2. Leads(reading.source, reading.at, reading.visited, reading.applied)'
    BY <2>1, WaysRemain DEF Way
  <2>3. QED
    BY <2>2 DEF Way, NotReading
<1>3. Ways'
  <2>1. ASSUME NEW k \in DOMAIN migrated
        PROVE  Leads(migrated[k].source, Current, migrated[k].through, migrated[k].markers)'
    <3>1. migrated[k].through \in Seq(Versions)
      BY <1>1 DEF Migrated
    <3>2. QED
      BY <3>1, WaysRemain DEF Ways
  <2>2. QED
    BY <2>1 DEF Ways
<1>4. SameWay'
  BY DEF SameWay, OnTheWay
<1>5. SameMarkers'
  BY DEF SameMarkers
<1>6. QED
  BY <1>2, <1>3, <1>4, <1>5

LEMMA RegisterStepsKeeps ==
  ASSUME MigrationsInv, NEW batch \in StepBatches, RegisterSteps(batch)
  PROVE  MigrationsInv'
<1> DEFINE from(v) == {k \in DOMAIN batch : batch[k].from = v}
<1>1. /\ steps \in [Versions -> MigrationStep \cup {NoStep}] /\ taken \subseteq Ids
      /\ \A v \in Versions : steps[v] # NoStep => steps[v].from = v /\ steps[v].id \in taken
  BY DEF MigrationsInv, TypeOKMigrations, StepsAreOwn
<1>2. \A k \in DOMAIN batch :
        /\ batch[k] \in MigrationStep /\ batch[k].from \in Versions /\ batch[k].id \in Ids
        /\ steps[batch[k].from] = NoStep /\ batch[k].id \notin taken /\ batch[k] # NoStep
        /\ \A j \in DOMAIN batch \ {k} :
             batch[j].from # batch[k].from /\ batch[j].id # batch[k].id
  <2>1. \A k \in DOMAIN batch : batch[k] \in MigrationStep
    BY MigrationsAssumption
  <2>2. \A s \in MigrationStep : s.from \in Versions /\ s.id \in Ids /\ s # NoStep
    BY DEF MigrationStep, NoStep
  <2>3. \A k \in DOMAIN batch : Accepts(batch, k)
    BY DEF RegisterSteps
  <2>4. QED
    BY <2>1, <2>2, <2>3 DEF Accepts
<1>3. /\ steps' = [v \in Versions |->
                    IF from(v) # {} THEN batch[CHOOSE k \in from(v) : TRUE] ELSE steps[v]]
      /\ taken' = taken \cup {batch[k].id : k \in DOMAIN batch}
      /\ UNCHANGED <<frozen, reading, migrated>>
  BY DEF RegisterSteps
<1>4. \A v \in Versions :
        \/ steps'[v] = steps[v] /\ \A k \in DOMAIN batch : batch[k].from # v
        \/ \E k \in DOMAIN batch : steps'[v] = batch[k] /\ batch[k].from = v
  <2> TAKE v \in Versions
  <2>1. CASE from(v) = {}
    BY <1>3, <2>1
  <2>2. CASE from(v) # {}
    <3>1. (CHOOSE k \in from(v) : TRUE) \in from(v)
      BY <2>2
    <3>2. steps'[v] = batch[CHOOSE k \in from(v) : TRUE]
      BY <1>3, <2>2
    <3>3. QED
      BY <3>1, <3>2
  <2>3. QED
    BY <2>1, <2>2
<1>5. \A v \in Versions : steps[v] # NoStep => steps'[v] = steps[v]
  BY <1>2, <1>4
<1>6. TypeOKMigrations'
  <2>1. steps' \in [Versions -> MigrationStep \cup {NoStep}]
    <3>1. \A v \in Versions : steps'[v] \in MigrationStep \cup {NoStep}
      BY <1>1, <1>2, <1>4
    <3>2. DOMAIN steps' = Versions /\ steps' = [v \in Versions |-> steps'[v]]
      BY <1>3
    <3>3. QED
      BY <3>1, <3>2
  <2>2. taken' \subseteq Ids
    BY <1>1, <1>2, <1>3
  <2>3. QED
    BY <1>3, <2>1, <2>2 DEF MigrationsInv, TypeOKMigrations
<1>7. StepsAreOwn'
  <2>1. \A v \in Versions : steps'[v] # NoStep => steps'[v].from = v /\ steps'[v].id \in taken'
    BY <1>1, <1>3, <1>4
  <2>2. ASSUME NEW u \in Versions, NEW v \in Versions, steps'[u] # NoStep, steps'[v] # NoStep,
               steps'[u].id = steps'[v].id
        PROVE  u = v
    <3>1. CASE steps'[u] = steps[u] /\ steps'[v] = steps[v]
      BY <2>2, <3>1 DEF MigrationsInv, StepsAreOwn
    <3>2. CASE \E k \in DOMAIN batch : steps'[u] = batch[k] /\ batch[k].from = u
      BY <1>1, <1>2, <1>4, <2>2, <3>2
    <3>3. CASE \E k \in DOMAIN batch : steps'[v] = batch[k] /\ batch[k].from = v
      BY <1>1, <1>2, <1>4, <2>2, <3>3
    <3>4. QED
      BY <1>4, <3>1, <3>2, <3>3
  <2>3. QED
    BY <2>1, <2>2 DEF StepsAreOwn
<1>8. QED
  BY <1>3, <1>5, <1>6, <1>7, MigrationsKept

LEMMA BeginKeeps ==
  ASSUME MigrationsInv, NEW source \in Versions, BeginMigrate(source)
  PROVE  MigrationsInv'
<1>1. /\ reading' = [runs |-> TRUE, source |-> source, at |-> source,
                     visited |-> <<>>, applied |-> <<>>]
      /\ UNCHANGED <<steps, taken, frozen, migrated>>
  BY DEF BeginMigrate, NotReading
<1>2. TypeOKMigrations'
  BY <1>1 DEF MigrationsInv, TypeOKMigrations, Reading
<1>3. Way'
  BY <1>1 DEF Way, Leads
<1>4. SameWay'
  <2>1. ASSUME NEW k \in DOMAIN migrated, migrated[k].source = source
        PROVE  OnTheWay(migrated[k], source, <<>>)
    <3>1. Leads(source, Current, migrated[k].through, migrated[k].markers)
      BY <2>1 DEF MigrationsInv, Ways
    <3>2. migrated[k].through \in Seq(Versions)
      <4>1. migrated[k] \in Migrated
        BY DEF MigrationsInv, TypeOKMigrations
      <4>2. QED
        BY <4>1 DEF Migrated
    <3>3. QED
      BY <3>1, <3>2 DEF Leads, OnTheWay
  <2>2. QED
    BY <1>1, <2>1 DEF SameWay, OnTheWay
<1>5. StepsAreOwn' /\ Ways' /\ SameMarkers'
  BY <1>1 DEF MigrationsInv, StepsAreOwn, Ways, Leads, SameMarkers
<1>6. QED
  BY <1>2, <1>3, <1>4, <1>5 DEF MigrationsInv

LEMMA RefuseKeeps ==
  ASSUME MigrationsInv, RefuseVersion \/ RefusePayload
  PROVE  MigrationsInv'
<1>1. reading' = NotReading /\ UNCHANGED <<steps, taken, frozen, migrated>>
  BY DEF RefuseVersion, RefusePayload
<1>2. TypeOKMigrations'
  BY <1>1, MigrationsAssumption DEF MigrationsInv, TypeOKMigrations, Reading, NotReading
<1>3. Way' /\ SameWay'
  BY <1>1 DEF Way, Leads, SameWay, NotReading
<1>4. StepsAreOwn' /\ Ways' /\ SameMarkers'
  BY <1>1 DEF MigrationsInv, StepsAreOwn, Ways, Leads, SameMarkers
<1>5. QED
  BY <1>2, <1>3, <1>4 DEF MigrationsInv

\* A round goes on along the way of every earlier migration from the same version.
LEMMA ApplyKeeps ==
  ASSUME MigrationsInv, ApplyStep
  PROVE  MigrationsInv'
<1> DEFINE at == reading.at
           next == steps[at].to
           visited == reading.visited
           applied == reading.applied
<1>1. /\ reading \in Reading /\ at \in Versions /\ reading.source \in Versions
      /\ visited \in Seq(Versions) /\ applied \in Seq(Ids)
      /\ steps \in [Versions -> MigrationStep \cup {NoStep}]
  BY DEF MigrationsInv, TypeOKMigrations, Reading
<1>2. /\ reading.runs /\ at # Current /\ steps[at] # NoStep
      /\ \A i \in DOMAIN visited : visited[i] # at
      /\ UNCHANGED <<steps, taken, frozen, migrated>>
  BY DEF ApplyStep, Obstructed
<1>3. steps[at] \in MigrationStep /\ next \in Versions /\ steps[at].id \in Ids
  BY <1>1, <1>2 DEF MigrationStep
<1>4. reading' = [reading EXCEPT !.at = next, !.visited = Append(@, at),
                                 !.applied = Append(@, steps[at].id)]
  BY DEF ApplyStep
<1>5. /\ reading' \in Reading /\ reading'.runs /\ reading'.source = reading.source
      /\ reading'.at = next /\ reading'.visited = Append(visited, at)
      /\ reading'.applied = Append(applied, steps[at].id)
  <2>1. Append(visited, at) \in Seq(Versions) /\ Append(applied, steps[at].id) \in Seq(Ids)
    BY <1>1, <1>3
  <2>2. reading'.source = reading.source /\ reading'.runs = reading.runs
    BY <1>1, <1>4 DEF Reading
  <2>3. /\ reading'.at = next /\ reading'.visited = Append(visited, at)
        /\ reading'.applied = Append(applied, steps[at].id)
    BY <1>1, <1>4 DEF Reading
  <2>4. reading' \in Reading
    <3>1. reading' = [runs |-> reading.runs, source |-> reading.source, at |-> next,
                      visited |-> Append(visited, at), applied |-> Append(applied, steps[at].id)]
      BY <1>1, <1>4 DEF Reading
    <3>2. reading.runs \in BOOLEAN
      BY <1>1 DEF Reading
    <3> HIDE DEF next, at, visited, applied
    <3>3. QED
      BY <1>1, <1>3, <2>1, <3>1, <3>2 DEF Reading
  <2>5. QED
    BY <1>2, <2>2, <2>3, <2>4
<1>6. TypeOKMigrations'
  BY <1>2, <1>5 DEF MigrationsInv, TypeOKMigrations
<1>7. Leads(reading.source, at, visited, applied)
  BY DEF MigrationsInv, Way
<1>8. Leads(reading.source, next, Append(visited, at), Append(applied, steps[at].id))
  <2> HIDE DEF at, visited, applied, next
  <2> DEFINE more == Append(visited, at)
             marks == Append(applied, steps[at].id)
  <2>1. /\ Len(more) = Len(visited) + 1 /\ Len(marks) = Len(applied) + 1
        /\ Len(visited) \in Nat /\ DOMAIN more = 1 .. Len(visited) + 1
        /\ \A i \in 1 .. Len(visited) : more[i] = visited[i] /\ i \in DOMAIN visited
        /\ more[Len(visited) + 1] = at
        /\ \A i \in 1 .. Len(applied) : marks[i] = applied[i]
        /\ marks[Len(applied) + 1] = steps[at].id
    BY <1>1, <1>3
  <2>2. Len(marks) = Len(more) /\ more # <<>>
    BY <1>7, <2>1 DEF Leads
  <2>3. more[1] = reading.source
    BY <1>1, <1>7, <2>1 DEF Leads
  <2>4. ASSUME NEW i \in DOMAIN more
        PROVE  /\ more[i] # Current /\ steps[more[i]] # NoStep
               /\ steps[more[i]].id = marks[i]
               /\ steps[more[i]].to = IF i = Len(more) THEN next ELSE more[i + 1]
    <3>1. CASE i = Len(more)
      BY <1>2, <1>7, <2>1, <3>1 DEF Leads, next, at
    <3>2. CASE i = Len(visited)
      BY <1>7, <2>1, <2>2, <3>2 DEF Leads
    <3>3. CASE i \in 1 .. Len(visited) - 1
      BY <1>7, <2>1, <2>2, <3>3 DEF Leads
    <3>4. i \in 1 .. Len(visited) + 1 /\ Len(more) = Len(visited) + 1 /\ Len(visited) \in Nat
      BY <2>1
    <3> HIDE DEF more, marks
    <3>5. i = Len(more) \/ i = Len(visited) \/ i \in 1 .. Len(visited) - 1
      BY <3>4
    <3>6. QED
      BY <3>1, <3>2, <3>3, <3>5
  <2>5. \A i, j \in DOMAIN more : more[i] = more[j] => i = j
    <3>1. \A i \in 1 .. Len(visited) : more[i] # at
      BY <1>2, <2>1 DEF visited, at
    <3>2. QED
      BY <1>7, <2>1, <3>1 DEF Leads
  <2> HIDE DEF more, marks
  <2>6. Leads(reading.source, next, more, marks)
    BY <2>2, <2>3, <2>4, <2>5 DEF Leads
  <2>7. QED
    BY <2>6 DEF more, marks
<1>9. Way'
  <2>1. Leads(reading'.source, reading'.at, reading'.visited, reading'.applied)
    BY <1>5, <1>8
  <2>2. QED
    BY <1>2, <1>5, <2>1 DEF Way, Leads
<1>10. SameWay'
  <2>1. ASSUME NEW k \in DOMAIN migrated, migrated[k].source = reading.source
        PROVE  OnTheWay(migrated[k], next, Append(visited, at))
    <3> DEFINE m == migrated[k]
               n == Len(visited)
    <3>1. m.through \in Seq(Versions) /\ n \in Nat
      <4>1. m \in Migrated
        BY DEF MigrationsInv, TypeOKMigrations
      <4>2. QED
        BY <1>1, <4>1 DEF Migrated
    <3>2. OnTheWay(m, at, visited)
      BY <1>2, <2>1 DEF MigrationsInv, SameWay
    <3>3. n + 1 \in DOMAIN m.through /\ at = m.through[n + 1]
      BY <1>2, <3>1, <3>2 DEF OnTheWay
    <3>4. Leads(m.source, Current, m.through, m.markers)
      BY DEF MigrationsInv, Ways
    <3>5. next = IF n + 1 = Len(m.through) THEN Current ELSE m.through[n + 2]
      <4>1. n + 2 = (n + 1) + 1
        BY <3>1
      <4>2. QED
        BY <3>3, <3>4, <4>1 DEF Leads
    <3>6. /\ Len(Append(visited, at)) = n + 1 /\ Len(Append(visited, at)) + 1 = n + 2
          /\ \A i \in DOMAIN Append(visited, at) :
               \/ i \in DOMAIN visited /\ Append(visited, at)[i] = visited[i]
               \/ i = n + 1 /\ Append(visited, at)[i] = at
      <4> HIDE DEF at, visited
      <4> DEFINE more == Append(visited, at)
      <4>1. /\ Len(more) = n + 1 /\ DOMAIN more = 1 .. n + 1 /\ DOMAIN visited = 1 .. n
            /\ \A i \in 1 .. n : more[i] = visited[i]
            /\ more[n + 1] = at
        BY <1>1
      <4> HIDE DEF n, more
      <4>2. \A i \in DOMAIN more :
              (i \in DOMAIN visited /\ more[i] = visited[i]) \/ (i = n + 1 /\ more[i] = at)
        BY <3>1, <4>1
      <4>3. Len(more) = n + 1 /\ Len(more) + 1 = n + 2
        BY <3>1, <4>1
      <4>4. QED
        BY <4>2, <4>3 DEF more
    <3>7. QED
      <4> DEFINE more == Append(visited, at)
      <4>1. /\ Len(more) = n + 1 /\ Len(more) + 1 = n + 2
            /\ \A i \in DOMAIN more :
                 (i \in DOMAIN visited /\ more[i] = visited[i]) \/ (i = n + 1 /\ more[i] = at)
        BY <3>6
      <4> HIDE DEF m, n, at, visited, next, more
      <4>2. Len(more) <= Len(m.through)
        BY <3>1, <3>3, <4>1
      <4>3. \A i \in DOMAIN more : more[i] = m.through[i]
        BY <3>2, <3>3, <4>1 DEF OnTheWay
      <4>4. next = IF Len(more) = Len(m.through) THEN Current ELSE m.through[Len(more) + 1]
        BY <3>5, <4>1
      <4>5. OnTheWay(m, next, more)
        BY <4>2, <4>3, <4>4 DEF OnTheWay
      <4>6. QED
        BY <4>5 DEF more, m
  <2>2. QED
    BY <1>2, <1>5, <2>1 DEF SameWay, OnTheWay
<1>11. StepsAreOwn' /\ Ways' /\ SameMarkers'
  BY <1>2 DEF MigrationsInv, StepsAreOwn, Ways, Leads, SameMarkers
<1>12. QED
  BY <1>6, <1>9, <1>10, <1>11 DEF MigrationsInv

\* Two who have come to the end by the same way have applied the same steps.
LEMMA EndKeeps ==
  ASSUME MigrationsInv, EndMigrate
  PROVE  MigrationsInv'
<1> DEFINE new == [source |-> reading.source, through |-> reading.visited,
                   markers |-> reading.applied]
<1>1. /\ reading \in Reading /\ migrated \in Seq(Migrated) /\ new \in Migrated
      /\ Len(migrated) \in Nat
      /\ reading.visited \in Seq(Versions) /\ reading.applied \in Seq(Ids)
  BY DEF MigrationsInv, TypeOKMigrations, Reading, Migrated
<1>2. /\ reading.runs /\ reading.at = Current /\ reading' = NotReading
      /\ migrated' = Append(migrated, new) /\ UNCHANGED <<steps, taken, frozen>>
  BY DEF EndMigrate
<1>3. /\ migrated' \in Seq(Migrated) /\ DOMAIN migrated' = DOMAIN migrated \cup {Len(migrated) + 1}
      /\ \A k \in DOMAIN migrated : migrated'[k] = migrated[k]
      /\ migrated'[Len(migrated) + 1] = new
  <2> HIDE DEF new
  <2> QED  BY <1>1, <1>2
<1>4. TypeOKMigrations'
  BY <1>2, <1>3, MigrationsAssumption DEF MigrationsInv, TypeOKMigrations, Reading, NotReading
<1>5. Way' /\ SameWay'
  BY <1>2 DEF Way, Leads, SameWay, NotReading
<1>6. Leads(new.source, Current, new.through, new.markers)
  BY <1>2 DEF MigrationsInv, Way
<1>7. Ways'
  <2>1. ASSUME NEW k \in DOMAIN migrated'
        PROVE  Leads(migrated'[k].source, Current, migrated'[k].through, migrated'[k].markers)
    <3> HIDE DEF new
    <3> QED  BY <1>3, <1>6 DEF MigrationsInv, Ways
  <2>2. QED
    BY <1>2, <2>1 DEF Ways, Leads
<1>8. ASSUME NEW k \in DOMAIN migrated, migrated[k].source = reading.source
      PROVE  migrated[k].markers = reading.applied
  <2> DEFINE m == migrated[k]
  <2>1. m.through \in Seq(Versions) /\ m.markers \in Seq(Ids)
    <3>1. m \in Migrated
      BY <1>1
    <3>2. QED
      BY <3>1 DEF Migrated
  <2>2. OnTheWay(m, Current, reading.visited)
    BY <1>2, <1>8 DEF MigrationsInv, SameWay
  <2>3. /\ Leads(m.source, Current, m.through, m.markers)
        /\ Leads(reading.source, Current, reading.visited, reading.applied)
    BY <1>2 DEF MigrationsInv, Ways, Way
  <2>4. Len(reading.visited) = Len(m.through)
    <3>1. ASSUME Len(reading.visited) < Len(m.through) PROVE FALSE
      <4>1. Len(reading.visited) + 1 \in DOMAIN m.through
        BY <1>1, <2>1, <3>1
      <4>2. m.through[Len(reading.visited) + 1] = Current
        BY <2>2, <3>1 DEF OnTheWay
      <4>3. QED
        BY <2>3, <4>1, <4>2 DEF Leads
    <3>2. QED
      BY <1>1, <2>1, <2>2, <3>1 DEF OnTheWay
  <2>5. Len(m.markers) = Len(reading.applied)
    BY <2>3, <2>4 DEF Leads
  <2>6. \A i \in DOMAIN m.markers : m.markers[i] = reading.applied[i]
    <3> TAKE i \in DOMAIN m.markers
    <3>1. i \in DOMAIN m.through /\ i \in DOMAIN reading.visited
      BY <1>1, <2>1, <2>3, <2>4 DEF Leads
    <3>2. reading.visited[i] = m.through[i]
      BY <2>2, <3>1 DEF OnTheWay
    <3>3. steps[m.through[i]].id = m.markers[i] /\ steps[reading.visited[i]].id = reading.applied[i]
      BY <2>3, <3>1 DEF Leads
    <3>4. QED
      BY <3>2, <3>3
  <2>7. QED
    <3> HIDE DEF m
    <3>1. m.markers = reading.applied
      BY <1>1, <2>1, <2>5, <2>6
    <3>2. QED
      BY <3>1 DEF m
<1>9. SameMarkers'
  <2>1. ASSUME NEW k \in DOMAIN migrated', NEW l \in DOMAIN migrated',
               migrated'[k].source = migrated'[l].source
        PROVE  migrated'[k].markers = migrated'[l].markers
    <3>1. new.source = reading.source /\ new.markers = reading.applied
      OBVIOUS
    <3> HIDE DEF new
    <3> QED  BY <1>3, <1>8, <2>1, <3>1 DEF MigrationsInv, SameMarkers
  <2>2. QED
    BY <2>1 DEF SameMarkers
<1>10. StepsAreOwn'
  BY <1>2 DEF MigrationsInv, StepsAreOwn
<1>11. QED
  BY <1>4, <1>5, <1>7, <1>9, <1>10 DEF MigrationsInv

LEMMA MigrationsStep == MigrationsInv /\ [MigrationNext]_migrationVars => MigrationsInv'
<1> SUFFICES ASSUME MigrationsInv, [MigrationNext]_migrationVars PROVE MigrationsInv'
  OBVIOUS
<1>1. CASE \E batch \in StepBatches : RegisterSteps(batch)
  BY <1>1, RegisterStepsKeeps
<1>2. CASE UNCHANGED <<steps, taken, reading, migrated>>
  <2>1. TypeOKMigrations' /\ StepsAreOwn'
    BY <1>2 DEF MigrationsInv, TypeOKMigrations, StepsAreOwn
  <2>2. QED
    BY <1>2, <2>1, MigrationsKept
<1>3. CASE \E source \in Versions : BeginMigrate(source)
  BY <1>3, BeginKeeps
<1>4. CASE RefuseVersion \/ RefusePayload
  BY <1>4, RefuseKeeps
<1>5. CASE ApplyStep
  BY <1>5, ApplyKeeps
<1>6. CASE EndMigrate
  BY <1>6, EndKeeps
<1>7. QED
  BY <1>1, <1>2, <1>3, <1>4, <1>5, <1>6 DEF MigrationNext, Freeze, migrationVars

\* Whatever is registered or refused between and during migrations, and whatever the
\* transforms make of a payload, from a version that was migrated once the registry
\* leads to the target for good and by the same markers, and no loop outlasts the
\* versions (register_many, migrate).
THEOREM MigrationsStayStable == MigrationSpec => []MigrationsAreStable
<1>1. QED
  BY MigrationsBegin, MigrationsStep, StableWhenOwn, PTL DEF MigrationSpec

-----------------------------------------------------------------------------
(* The thresholds.  A candidate between the ends of the narrowest bracket  *)
(* forms a bracket with one of them; one with any row beyond them would be *)
(* wider, or have left a narrower one behind.  What the choices pick is    *)
(* least among finitely or infinitely many, by the order of the naturals.  *)

Row == [threshold : Nat, f : Imbalances \cup {None}]

\* Each candidate after the probes is between the ends of the narrowest bracket.
Confined ==
  \A i \in 3 .. Len(candidates) - 1 :
    LET before == SubSeq(candidates, 1, i)
    IN Brackets(before) # {} => Within(candidates[i + 1].threshold, Narrowest(before))

ThresholdInv == candidates \in Seq(Row) /\ Confined

\* A set of numbers has a least one.
LEMMA Least ==
  ASSUME NEW S \in SUBSET Nat, S # {}
  PROVE  \E m \in S : \A n \in S : m <= n
<1> DEFINE R == {pair \in Nat \X Nat : pair[1] < pair[2]}
<1>1. IsWellFoundedOn(R, Nat)
  BY NatLessThanWellFounded DEF OpToRel
<1>2. \A m, n \in Nat : n < m => <<n, m>> \in R
  <2> TAKE m \in Nat, n \in Nat
  <2> HAVE n < m
  <2>1. <<n, m>> \in Nat \X Nat /\ <<n, m>>[1] = n /\ <<n, m>>[2] = m
    OBVIOUS
  <2>2. QED
    BY <2>1
<1> HIDE DEF R
<1>3. PICK m \in S : \A n \in S : ~(<<n, m>> \in R)
  BY <1>1, WFMin
<1>4. \A n \in S : ~(n < m)
  BY <1>2, <1>3
<1>5. m \in Nat /\ \A n \in S : n \in Nat
  OBVIOUS
<1>6. QED
  BY <1>4, <1>5

\* And so has what is ordered by two of them.
LEMMA LeastOfTwo ==
  ASSUME NEW S, S # {}, NEW first \in [S -> Nat], NEW second \in [S -> Nat]
  PROVE  \E a \in S : \A b \in S :
           first[a] < first[b] \/ (first[a] = first[b] /\ second[a] <= second[b])
<1> DEFINE firsts == {first[a] : a \in S}
<1>1. firsts \in SUBSET Nat /\ firsts # {}
  OBVIOUS
<1>2. PICK m \in firsts : \A n \in firsts : m <= n
  <2> HIDE DEF firsts
  <2> QED  BY <1>1, Least
<1> DEFINE seconds == {second[a] : a \in {b \in S : first[b] = m}}
<1>3. seconds \in SUBSET Nat /\ seconds # {}
  BY <1>2
<1>4. PICK k \in seconds : \A n \in seconds : k <= n
  <2> HIDE DEF seconds
  <2> QED  BY <1>3, Least
<1>5. PICK a \in S : first[a] = m /\ second[a] = k
  BY <1>4
<1>6. \A b \in S : first[b] \in Nat /\ m <= first[b] /\ m \in Nat
  BY <1>2
<1>7. \A b \in S : first[b] = m => k <= second[b]
  BY <1>4
<1>8. \A b \in S : first[a] < first[b] \/ (first[a] = first[b] /\ second[a] <= second[b])
  BY <1>5, <1>6, <1>7
<1>9. QED
  BY <1>8

LEMMA MeasuredFacts ==
  ASSUME NEW rows \in Seq(Row)
  PROVE  /\ Measured(rows) \subseteq Row
         /\ \A a \in Measured(rows) : a.f \in Int /\ a.f # None /\ a.threshold \in Nat
<1>1. \A i \in DOMAIN rows : rows[i] \in Row
  OBVIOUS
<1>2. Measured(rows) \subseteq Row /\ \A a \in Measured(rows) : a.f # None
  BY <1>1 DEF Measured
<1>3. QED
  BY <1>2, ImbalancesAssumption DEF Row

LEMMA BracketFacts ==
  ASSUME NEW rows, NEW a, NEW b
  PROVE  <<a, b>> \in Brackets(rows) <=>
           /\ a \in Measured(rows) /\ b \in Measured(rows)
           /\ a.threshold < b.threshold /\ Opposed(a, b)
BY DEF Brackets

\* Every bracket is such a pair, as wide as the distance of its ends.
LEMMA BracketsArePairs ==
  ASSUME NEW rows \in Seq(Row), NEW q \in Brackets(rows)
  PROVE  /\ q = <<q[1], q[2]>> /\ q[1] \in Measured(rows) /\ q[2] \in Measured(rows)
         /\ q[1].threshold \in Nat /\ q[2].threshold \in Nat
         /\ q[1].threshold < q[2].threshold /\ Opposed(q[1], q[2])
         /\ Width(q) = q[2].threshold - q[1].threshold /\ Width(q) \in Nat
<1>1. q = <<q[1], q[2]>> /\ q[1] \in Measured(rows) /\ q[2] \in Measured(rows)
  BY DEF Brackets
<1>2. q[1].threshold \in Nat /\ q[2].threshold \in Nat
  BY <1>1, MeasuredFacts
<1>3. q[1].threshold < q[2].threshold /\ Opposed(q[1], q[2])
  BY <1>1, BracketFacts
<1>4. QED
  BY <1>1, <1>2, <1>3 DEF Width

LEMMA NarrowestFacts ==
  ASSUME NEW rows \in Seq(Row), Brackets(rows) # {}
  PROVE  /\ Narrowest(rows) \in Brackets(rows)
         /\ \A q \in Brackets(rows) :
              \/ Width(Narrowest(rows)) < Width(q)
              \/ Width(Narrowest(rows)) = Width(q)
                 /\ Narrowest(rows)[1].threshold <= q[1].threshold
<1> DEFINE first == [q \in Brackets(rows) |-> Width(q)]
           second == [q \in Brackets(rows) |-> q[1].threshold]
<1>1. first \in [Brackets(rows) -> Nat] /\ second \in [Brackets(rows) -> Nat]
  BY BracketsArePairs
<1>2. \E a \in Brackets(rows) : \A b \in Brackets(rows) :
        first[a] < first[b] \/ (first[a] = first[b] /\ second[a] <= second[b])
  <2> HIDE DEF first, second
  <2> QED  BY <1>1, LeastOfTwo
<1>3. \E p \in Brackets(rows) : \A q \in Brackets(rows) :
        \/ Width(p) < Width(q)
        \/ Width(p) = Width(q) /\ p[1].threshold <= q[1].threshold
  BY <1>2
<1>4. QED
  BY <1>3, Zenon DEF Narrowest

-----------------------------------------------------------------------------
\* A row that is not measured leaves the brackets as they are.
LEMMA MeasuredAfter ==
  ASSUME NEW rows \in Seq(Row), NEW new \in Row
  PROVE  /\ Append(rows, new) \in Seq(Row)
         /\ Measured(Append(rows, new)) =
              Measured(rows) \cup (IF new.f = None THEN {} ELSE {new})
<1>1. /\ Append(rows, new) \in Seq(Row) /\ Len(rows) \in Nat
      /\ DOMAIN Append(rows, new) = DOMAIN rows \cup {Len(rows) + 1}
      /\ \A i \in DOMAIN rows : Append(rows, new)[i] = rows[i]
      /\ Append(rows, new)[Len(rows) + 1] = new
  OBVIOUS
<1>2. {Append(rows, new)[i] : i \in DOMAIN Append(rows, new)} = {rows[i] : i \in DOMAIN rows} \cup {new}
  <2> DEFINE more == Append(rows, new)
  <2> HIDE DEF more
  <2> QED  BY <1>1 DEF more
<1>3. QED
  BY <1>1, <1>2 DEF Measured

LEMMA NestingStep ==
  ASSUME NEW rows \in Seq(Row), NEW new \in Row, Brackets(rows) # {},
         Within(new.threshold, Narrowest(rows))
  PROVE  LET p == Narrowest(rows)
             q == Narrowest(Append(rows, new))
         IN /\ p[1].threshold <= q[1].threshold /\ q[2].threshold <= p[2].threshold
            /\ new.f \notin {0, None} => Width(q) < Width(p)
<1> DEFINE after == Append(rows, new)
           p == Narrowest(rows)
           q == Narrowest(after)
<1>1. after \in Seq(Row) /\ Measured(after) = Measured(rows) \cup (IF new.f = None THEN {} ELSE {new})
  BY MeasuredAfter
<1>2. /\ p \in Brackets(rows)
      /\ \A b \in Brackets(rows) :
           Width(p) < Width(b) \/ (Width(p) = Width(b) /\ p[1].threshold <= b[1].threshold)
  BY NarrowestFacts
<1> HIDE DEF after, p, q
<1>3. \A a, b : <<a, b>> \in Brackets(rows) => <<a, b>> \in Brackets(after)
  BY <1>1, BracketFacts
<1>4. Brackets(after) # {} /\ p \in Brackets(after)
  BY <1>2, <1>3, BracketsArePairs
<1>5. /\ q \in Brackets(after)
      /\ \A b \in Brackets(after) :
           Width(q) < Width(b) \/ (Width(q) = Width(b) /\ q[1].threshold <= b[1].threshold)
  BY <1>1, <1>4, NarrowestFacts DEF q
<1>6. /\ new.threshold \in Nat /\ p[1].threshold < new.threshold /\ new.threshold < p[2].threshold
      /\ new.f # None => new.f \in Int
  BY ImbalancesAssumption DEF Row, Within, p
<1>7. /\ p = <<p[1], p[2]>> /\ p[1] \in Measured(rows) /\ p[2] \in Measured(rows)
      /\ p[1].threshold \in Nat /\ p[2].threshold \in Nat
      /\ p[1].threshold < p[2].threshold /\ Opposed(p[1], p[2])
      /\ Width(p) = p[2].threshold - p[1].threshold /\ Width(p) \in Nat
  BY <1>2, BracketsArePairs
<1>8. /\ q = <<q[1], q[2]>> /\ q[1] \in Measured(after) /\ q[2] \in Measured(after)
      /\ q[1].threshold \in Nat /\ q[2].threshold \in Nat
      /\ q[1].threshold < q[2].threshold /\ Opposed(q[1], q[2])
      /\ Width(q) = q[2].threshold - q[1].threshold /\ Width(q) \in Nat
  BY <1>1, <1>5, BracketsArePairs
<1>9. p[1].f \in Int /\ p[2].f \in Int /\ q[1].f \in Int /\ q[2].f \in Int
  BY <1>1, <1>7, <1>8, MeasuredFacts
\* Whatever ends a bracket with the new row is as wide as q at least.
<1>10. ASSUME NEW a \in Measured(after), NEW b \in Measured(after),
              a.threshold < b.threshold, Opposed(a, b)
       PROVE  Width(q) <= b.threshold - a.threshold
  <2>1. <<a, b>> \in Brackets(after)
    BY <1>1, <1>10, BracketFacts
  <2>2. Width(<<a, b>>) = b.threshold - a.threshold
    BY DEF Width
  <2>3. b.threshold - a.threshold \in Int
    BY <1>1, MeasuredFacts
  <2>4. QED
    BY <1>5, <1>8, <2>1, <2>2, <2>3
<1>11. ASSUME NEW a \in Measured(rows), NEW b \in Measured(rows),
              a.threshold < b.threshold, Opposed(a, b)
       PROVE  Width(p) <= b.threshold - a.threshold
  <2>1. <<a, b>> \in Brackets(rows)
    BY <1>11, BracketFacts
  <2>2. Width(<<a, b>>) = b.threshold - a.threshold
    BY DEF Width
  <2>3. b.threshold - a.threshold \in Int
    BY MeasuredFacts
  <2>4. QED
    BY <1>2, <1>7, <2>1, <2>2, <2>3
<1>12. new.f \notin {0, None} => Width(q) < Width(p)
  <2> HAVE new.f \notin {0, None}
  <2>1. new \in Measured(after) /\ p[1] \in Measured(after) /\ p[2] \in Measured(after)
    BY <1>1, <1>7
  <2>2. Opposed(p[1], new) \/ Opposed(new, p[2])
    BY <1>6, <1>7, <1>9 DEF Opposed
  <2>3. Width(q) <= new.threshold - p[1].threshold \/ Width(q) <= p[2].threshold - new.threshold
    BY <1>6, <1>10, <2>1, <2>2
  <2>4. QED
    BY <1>6, <1>7, <1>8, <2>3
<1>13. CASE q \in Brackets(rows)
  <2>1. Width(p) < Width(q) \/ (Width(p) = Width(q) /\ p[1].threshold <= q[1].threshold)
    BY <1>2, <1>13
  <2>2. Width(q) < Width(p) \/ (Width(q) = Width(p) /\ q[1].threshold <= p[1].threshold)
    BY <1>4, <1>5
  <2>3. p[1].threshold <= q[1].threshold /\ q[2].threshold <= p[2].threshold
    BY <1>7, <1>8, <2>1, <2>2
  <2>4. QED
    BY <1>12, <2>3 DEF p, q, after
<1>14. CASE q \notin Brackets(rows)
  <2>1. new.f # None /\ (q[1] = new \/ q[2] = new)
    <3>1. ~(q[1] \in Measured(rows) /\ q[2] \in Measured(rows))
      BY <1>8, <1>14, BracketFacts
    <3>2. QED
      BY <1>1, <1>8, <3>1
  <2>2. new.f # 0 /\ new.f # None /\ Width(q) < Width(p)
    BY <1>6, <1>8, <1>12, <2>1 DEF Opposed
  <2>3. CASE q[1] = new
    <3>1. q[2] \in Measured(rows)
      BY <1>1, <1>6, <1>8, <2>3
    <3>2. ASSUME p[2].threshold < q[2].threshold PROVE FALSE
      <4>1. CASE Opposed(p[2], q[2])
        <5>1. Width(p) <= q[2].threshold - p[2].threshold
          BY <1>7, <1>11, <3>1, <3>2, <4>1
        <5>2. QED
          BY <1>6, <1>7, <1>8, <2>2, <2>3, <5>1
      <4>2. CASE Opposed(new, p[2])
        <5>1. Width(q) <= p[2].threshold - new.threshold
          BY <1>1, <1>6, <1>7, <1>10, <2>1, <4>2
        <5>2. QED
          BY <1>6, <1>7, <1>8, <2>3, <3>2, <5>1
      <4>3. QED
        BY <1>7, <1>8, <1>9, <2>3, <4>1, <4>2 DEF Opposed
    <3>3. p[1].threshold <= q[1].threshold /\ q[2].threshold <= p[2].threshold
      BY <1>6, <1>7, <1>8, <2>3, <3>2
    <3>4. QED
      BY <1>12, <3>3 DEF p, q, after
  <2>4. CASE q[2] = new
    <3>1. q[1] \in Measured(rows)
      BY <1>1, <1>6, <1>8, <2>4
    <3>2. ASSUME q[1].threshold < p[1].threshold PROVE FALSE
      <4>1. CASE Opposed(q[1], p[1])
        <5>1. Width(p) <= p[1].threshold - q[1].threshold
          BY <1>7, <1>11, <3>1, <3>2, <4>1
        <5>2. QED
          BY <1>6, <1>7, <1>8, <2>2, <2>4, <5>1
      <4>2. CASE Opposed(p[1], new)
        <5>1. Width(q) <= new.threshold - p[1].threshold
          BY <1>1, <1>6, <1>7, <1>10, <2>1, <4>2
        <5>2. QED
          BY <1>6, <1>7, <1>8, <2>4, <3>2, <5>1
      <4>3. QED
        BY <1>7, <1>8, <1>9, <2>4, <4>1, <4>2 DEF Opposed
    <3>3. p[1].threshold <= q[1].threshold /\ q[2].threshold <= p[2].threshold
      BY <1>6, <1>7, <1>8, <2>4, <3>2
    <3>4. QED
      BY <1>12, <3>3 DEF p, q, after
  <2>5. QED
    BY <2>1, <2>3, <2>4
<1>15. QED
  BY <1>13, <1>14

-----------------------------------------------------------------------------
(* What is proposed.  Any value that is proposed is usable or the first    *)
(* probe; among brackets it is between the ends of the narrowest one.      *)

LEMMA AnchorIsRow ==
  ASSUME NEW rows \in Seq(Row), rows # <<>>
  PROVE  Anchor(rows) \in Row
<1>1. rows[1] \in Row
  OBVIOUS
<1>2. CASE Measured(rows) # {}
  <2> DEFINE first == [a \in Measured(rows) |-> Distance(a.f, 0)]
             second == [a \in Measured(rows) |-> a.threshold]
  <2>1. first \in [Measured(rows) -> Nat]
    BY MeasuredFacts DEF Distance
  <2>2. second \in [Measured(rows) -> Nat]
    BY MeasuredFacts
  <2>3. \E a \in Measured(rows) : \A b \in Measured(rows) :
          first[a] < first[b] \/ (first[a] = first[b] /\ second[a] <= second[b])
    <3> HIDE DEF first, second
    <3> QED  BY <1>2, <2>1, <2>2, LeastOfTwo
  <2>4. \E a \in Measured(rows) : \A b \in Measured(rows) :
          \/ Distance(a.f, 0) < Distance(b.f, 0)
          \/ Distance(a.f, 0) = Distance(b.f, 0) /\ a.threshold <= b.threshold
    BY <2>3
  <2>5. Anchor(rows) \in Measured(rows)
    BY <1>2, <2>4, Zenon DEF Anchor
  <2>6. QED
    BY <2>5, MeasuredFacts
<1>3. QED
  BY <1>1, <1>2 DEF Anchor

LEMMA UsableIsNat ==
  ASSUME NEW rows \in Seq(Row), rows # <<>>, NEW value, Usable(rows, value)
  PROVE  value \in Nat
<1>1. Anchor(rows).threshold \in Nat
  BY AnchorIsRow DEF Row
<1>2. /\ LOW \in Nat /\ HIGH \in Nat /\ MAX_STEP \in Nat
  BY ScaleAssumption DEF LOW, HIGH, MAX_STEP
<1>3. Lower(rows) \in Int /\ LOW <= Lower(rows) /\ Upper(rows) \in Int
  BY <1>1, <1>2 DEF Lower, Upper, Higher, Lesser
<1>4. value \in Lower(rows) .. Upper(rows)
  BY DEF Usable
<1>5. QED
  BY <1>2, <1>3, <1>4

\* A secant has one value at most, and so has what is cut off.
LEMMA OneSecant == \A a, b : \A u, v \in Secant(a, b) : u = v
BY DEF Secant

LEMMA OutsideIsUsable ==
  ASSUME NEW rows, NEW value \in ProposedOutside(rows)
  PROVE  Usable(rows, value)
<1> DEFINE at == Anchor(rows).threshold
           low == Lower(rows)
           high == Upper(rows)
           secant == IF Neighbours(rows) = {} THEN {} ELSE Secant(Neighbour(rows), Anchor(rows))
           clamped == {Lesser(high, Higher(low, v)) : v \in secant}
           offsets == <<-1, 1, -2, 2, -3, 3, -4, 4>>
           listed == [i \in 1 .. 8 |-> at + offsets[i] * Scale]
                     \o [i \in 1 .. BINARY_CANDIDATES |->
                           low + ((high - low) * i) \div (BINARY_CANDIDATES + 1)]
           fresh == {i \in DOMAIN listed : Usable(rows, listed[i])}
<1>1. value \in (IF \E v \in clamped : Usable(rows, v) THEN clamped
                 ELSE {listed[i] : i \in {j \in fresh : \A k \in fresh : j <= k}})
  BY DEF ProposedOutside
<1>2. \A u, v \in secant : u = v
  BY OneSecant
<1>3. \A u, v \in clamped : u = v
  <2> HIDE DEF secant, low, high
  <2> QED  BY <1>2
<1>4. CASE \E v \in clamped : Usable(rows, v)
  <2> HIDE DEF clamped, listed, fresh
  <2> QED  BY <1>1, <1>3, <1>4
<1>5. CASE ~ \E v \in clamped : Usable(rows, v)
  <2> HIDE DEF clamped, listed
  <2> QED  BY <1>1, <1>5
<1>6. QED
  BY <1>4, <1>5

LEMMA InsideIsConfined ==
  ASSUME NEW rows, NEW value \in ProposedInside(rows)
  PROVE  Usable(rows, value) /\ Within(value, Narrowest(rows))
BY DEF ProposedInside

LEMMA ProposedIsNat ==
  ASSUME NEW rows \in Seq(Row), NEW value \in ProposeThreshold(rows)
  PROVE  value \in Nat
<1>1. CASE rows = <<>>
  BY <1>1, ScaleAssumption DEF ProposeThreshold, Probe
<1>2. CASE rows # <<>>
  <2>1. Usable(rows, value)
    <3>1. CASE Len(rows) < 3 /\ Usable(rows, Probe[Len(rows) + 1])
      BY <1>2, <3>1 DEF ProposeThreshold
    <3>2. CASE ~(Len(rows) < 3 /\ Usable(rows, Probe[Len(rows) + 1])) /\ Brackets(rows) # {}
      BY <1>2, <3>2, InsideIsConfined DEF ProposeThreshold
    <3>3. CASE ~(Len(rows) < 3 /\ Usable(rows, Probe[Len(rows) + 1])) /\ Brackets(rows) = {}
      BY <1>2, <3>3, OutsideIsUsable DEF ProposeThreshold
    <3>4. QED
      BY <3>1, <3>2, <3>3
  <2>2. QED
    BY <1>2, <2>1, UsableIsNat
<1>3. QED
  BY <1>1, <1>2

LEMMA ProposedIsConfined ==
  ASSUME NEW rows \in Seq(Row), Len(rows) >= 3, Brackets(rows) # {},
         NEW value \in ProposeThreshold(rows)
  PROVE  Within(value, Narrowest(rows))
<1>1. rows # <<>> /\ ~(Len(rows) < 3)
  OBVIOUS
<1>2. value \in ProposedInside(rows)
  BY <1>1 DEF ProposeThreshold
<1>3. QED
  BY <1>2, InsideIsConfined

-----------------------------------------------------------------------------
\* What came before another candidate.
LEMMA Befores ==
  ASSUME NEW rows \in Seq(Row), NEW i \in 0 .. Len(rows)
  PROVE  /\ SubSeq(rows, 1, i) \in Seq(Row) /\ Len(SubSeq(rows, 1, i)) = i
         /\ i = Len(rows) => SubSeq(rows, 1, i) = rows
         /\ i < Len(rows) => SubSeq(rows, 1, i + 1) = Append(SubSeq(rows, 1, i), rows[i + 1])
         /\ \A new \in Row : SubSeq(Append(rows, new), 1, i) = SubSeq(rows, 1, i)
OBVIOUS

LEMMA ConfinedNests == ThresholdInv => BracketsNest
<1> SUFFICES ASSUME ThresholdInv, NEW i \in 3 .. Len(candidates) - 1,
                    Brackets(SubSeq(candidates, 1, i)) # {}
             PROVE  LET p == Narrowest(SubSeq(candidates, 1, i))
                        q == Narrowest(SubSeq(candidates, 1, i + 1))
                    IN /\ p[1].threshold <= q[1].threshold /\ q[2].threshold <= p[2].threshold
                       /\ candidates[i + 1].f \notin {0, None} => Width(q) < Width(p)
  BY DEF BracketsNest
<1> DEFINE before == SubSeq(candidates, 1, i)
           new == candidates[i + 1]
<1>1. candidates \in Seq(Row) /\ i \in 0 .. Len(candidates) /\ i < Len(candidates)
  BY DEF ThresholdInv
<1>2. new \in Row /\ before \in Seq(Row) /\ SubSeq(candidates, 1, i + 1) = Append(before, new)
  BY <1>1, Befores
<1>3. Within(new.threshold, Narrowest(before))
  BY DEF ThresholdInv, Confined
<1>4. QED
  <2> HIDE DEF before, new
  <2>1. Brackets(before) # {}
    BY DEF before
  <2>2. LET p == Narrowest(before)
            q == Narrowest(Append(before, new))
        IN /\ p[1].threshold <= q[1].threshold /\ q[2].threshold <= p[2].threshold
           /\ new.f \notin {0, None} => Width(q) < Width(p)
    BY <1>2, <1>3, <2>1, NestingStep
  <2>3. QED
    BY <1>2, <2>2 DEF before, new

LEMMA TryKeeps ==
  ASSUME ThresholdInv, TryThreshold
  PROVE  ThresholdInv'
<1>1. PICK value \in ProposeThreshold(candidates), f \in Imbalances \cup {None} :
        candidates' = Append(candidates, [threshold |-> value, f |-> f])
  BY DEF TryThreshold
<1> DEFINE new == [threshold |-> value, f |-> f]
<1>2. candidates \in Seq(Row) /\ value \in Nat
  BY ProposedIsNat DEF ThresholdInv
<1>3. new \in Row /\ new.threshold = value
  BY <1>2 DEF Row
<1>4. /\ candidates' = Append(candidates, new) /\ candidates' \in Seq(Row)
      /\ Len(candidates') = Len(candidates) + 1 /\ Len(candidates) \in Nat
      /\ candidates'[Len(candidates) + 1] = new
      /\ \A i \in 1 .. Len(candidates) : candidates'[i] = candidates[i]
  <2>1. candidates' = Append(candidates, new)
    BY <1>1
  <2> HIDE DEF new
  <2>2. QED
    BY <1>2, <1>3, <2>1
<1>5. ASSUME NEW i \in 3 .. Len(candidates') - 1, Brackets(SubSeq(candidates', 1, i)) # {}
      PROVE  Within(candidates'[i + 1].threshold, Narrowest(SubSeq(candidates', 1, i)))
  <2> HIDE DEF new
  <2>1. i \in 0 .. Len(candidates) /\ i >= 3
    BY <1>4
  <2>2. SubSeq(candidates', 1, i) = SubSeq(candidates, 1, i)
    BY <1>2, <1>3, <1>4, <2>1, Befores
  <2>3. CASE i = Len(candidates)
    <3>1. SubSeq(candidates, 1, i) = candidates
      BY <1>2, <2>1, <2>3, Befores
    <3>2. Within(value, Narrowest(candidates))
      BY <1>2, <1>5, <2>1, <2>2, <2>3, <3>1, ProposedIsConfined
    <3>3. QED
      BY <1>3, <1>4, <2>2, <2>3, <3>1, <3>2
  <2>4. CASE i < Len(candidates)
    <3>1. i \in 3 .. Len(candidates) - 1 /\ i + 1 \in 1 .. Len(candidates)
      BY <1>4, <2>1, <2>4
    <3>2. candidates'[i + 1] = candidates[i + 1]
      BY <1>4, <3>1
    <3>3. Within(candidates[i + 1].threshold, Narrowest(SubSeq(candidates, 1, i)))
      BY <1>5, <2>2, <3>1 DEF ThresholdInv, Confined
    <3>4. QED
      BY <2>2, <3>2, <3>3
  <2>5. QED
    BY <1>4, <2>1, <2>3, <2>4
<1>6. Confined'
  BY <1>5 DEF Confined
<1>7. QED
  BY <1>4, <1>6 DEF ThresholdInv

LEMMA ThresholdStep == ThresholdInv /\ [ThresholdNext]_thresholdVars => ThresholdInv'
<1> SUFFICES ASSUME ThresholdInv, [ThresholdNext]_thresholdVars PROVE ThresholdInv'
  OBVIOUS
<1>1. CASE TryThreshold
  BY <1>1, TryKeeps
<1>2. CASE UNCHANGED candidates
  BY <1>2 DEF ThresholdInv, Confined
<1>3. QED
  BY <1>1, <1>2 DEF ThresholdNext, GiveUp, thresholdVars

\* Whatever is measured at whatever resolution, the narrowest bracket after the three
\* probes only shrinks, and shrinks with every candidate that is measured and not
\* balanced (propose_threshold).
THEOREM BracketsAreNested == ThresholdSpec => []BracketsNest
<1>1. ThresholdInit => ThresholdInv
  BY DEF ThresholdInit, ThresholdInv, Confined
<1>2. QED
  BY <1>1, ThresholdStep, ConfinedNests, PTL DEF ThresholdSpec

-----------------------------------------------------------------------------
(* Giving up.  Outside a bracket one of the listed steps is always fresh,  *)
(* as each of the other candidates spoils one of them at most.  Inside a   *)
(* bracket without candidates the middle is fresh, if the part within the  *)
(* anchor's step is as wide as the bracket or as three steps of 0.005; and *)
(* so it is: with the anchor at an end, or with all of the bracket within  *)
(* its step, or with a bracket that begins beside the anchor.  That there  *)
(* is nothing else takes what the earlier candidates were proposed from.   *)

LEMMA DistanceFacts ==
  ASSUME NEW m \in Int, NEW n \in Int
  PROVE  /\ Distance(m, n) \in Nat
         /\ Distance(m, n) = n - m \/ Distance(m, n) = m - n
         /\ Distance(m, n) >= n - m /\ Distance(m, n) >= m - n
         /\ Apart(m, n) <=> 5000 * (n - m) > Scale \/ 5000 * (m - n) > Scale
BY ScaleAssumption DEF Distance, Apart

LEMMA UsableFacts ==
  ASSUME NEW rows \in Seq(Row), rows # <<>>, NEW value \in Int
  PROVE  /\ Anchor(rows) \in Row /\ Anchor(rows).threshold \in Nat
         /\ Usable(rows, value) <=>
              /\ 88 * Scale <= value /\ value <= 106 * Scale
              /\ Anchor(rows).threshold - 4 * Scale <= value
              /\ value <= Anchor(rows).threshold + 4 * Scale
              /\ \A i \in DOMAIN rows :
                   \/ 5000 * (rows[i].threshold - value) > Scale
                   \/ 5000 * (value - rows[i].threshold) > Scale
<1>1. Anchor(rows) \in Row /\ Anchor(rows).threshold \in Nat
  BY AnchorIsRow DEF Row
<1>2. \A i \in DOMAIN rows : rows[i].threshold \in Int
  <2>1. \A i \in DOMAIN rows : rows[i] \in Row
    OBVIOUS
  <2> QED
    BY <2>1 DEF Row
<1>3. (\A old \in Previous(rows) : Apart(value, old)) <=>
        \A i \in DOMAIN rows :
          \/ 5000 * (rows[i].threshold - value) > Scale
          \/ 5000 * (value - rows[i].threshold) > Scale
  <2>1. \A i \in DOMAIN rows :
          Apart(value, rows[i].threshold) <=>
            \/ 5000 * (rows[i].threshold - value) > Scale
            \/ 5000 * (value - rows[i].threshold) > Scale
    <3> TAKE i \in DOMAIN rows
    <3> DEFINE old == rows[i].threshold
    <3>1. old \in Int
      BY <1>2
    <3> HIDE DEF old
    <3>2. Apart(value, old) <=> 5000 * (old - value) > Scale \/ 5000 * (value - old) > Scale
      BY <3>1, DistanceFacts
    <3> QED
      BY <3>2 DEF old
  <2> QED
    BY <2>1 DEF Previous
<1>4. value \in Lower(rows) .. Upper(rows) <=>
        /\ 88 * Scale <= value /\ value <= 106 * Scale
        /\ Anchor(rows).threshold - 4 * Scale <= value
        /\ value <= Anchor(rows).threshold + 4 * Scale
  BY <1>1, ScaleAssumption DEF Lower, Upper, Higher, Lesser, LOW, HIGH, MAX_STEP
<1> QED
  BY <1>1, <1>3, <1>4 DEF Usable

LEMMA ProposedIsUsable ==
  ASSUME NEW rows \in Seq(Row), rows # <<>>, NEW value \in ProposeThreshold(rows)
  PROVE  value \in Nat /\ Usable(rows, value)
<1>1. CASE Len(rows) < 3 /\ Usable(rows, Probe[Len(rows) + 1])
  BY <1>1, UsableIsNat DEF ProposeThreshold
<1>2. CASE ~(Len(rows) < 3 /\ Usable(rows, Probe[Len(rows) + 1])) /\ Brackets(rows) # {}
  BY <1>2, InsideIsConfined, UsableIsNat DEF ProposeThreshold
<1>3. CASE ~(Len(rows) < 3 /\ Usable(rows, Probe[Len(rows) + 1])) /\ Brackets(rows) = {}
  BY <1>3, OutsideIsUsable, UsableIsNat DEF ProposeThreshold
<1> QED
  BY <1>1, <1>2, <1>3

\* The anchor is the best row that was measured.
LEMMA AnchorIsBest ==
  ASSUME NEW rows \in Seq(Row), Measured(rows) # {}
  PROVE  /\ Anchor(rows) \in Measured(rows)
         /\ \A b \in Measured(rows) :
              \/ Distance(Anchor(rows).f, 0) < Distance(b.f, 0)
              \/ /\ Distance(Anchor(rows).f, 0) = Distance(b.f, 0)
                 /\ Anchor(rows).threshold <= b.threshold
<1> DEFINE first == [a \in Measured(rows) |-> Distance(a.f, 0)]
           second == [a \in Measured(rows) |-> a.threshold]
<1>1. first \in [Measured(rows) -> Nat]
  BY MeasuredFacts DEF Distance
<1>2. second \in [Measured(rows) -> Nat]
  BY MeasuredFacts
<1>3. \E a \in Measured(rows) : \A b \in Measured(rows) :
        first[a] < first[b] \/ (first[a] = first[b] /\ second[a] <= second[b])
  <2> HIDE DEF first, second
  <2> QED  BY <1>1, <1>2, LeastOfTwo
<1>4. \E a \in Measured(rows) : \A b \in Measured(rows) :
        \/ Distance(a.f, 0) < Distance(b.f, 0)
        \/ Distance(a.f, 0) = Distance(b.f, 0) /\ a.threshold <= b.threshold
  BY <1>3
<1> QED
  BY <1>4, Zenon DEF Anchor

\* One more row is the anchor, or the anchor stays where it was.
LEMMA AnchorAfter ==
  ASSUME NEW rows \in Seq(Row), Measured(rows) # {}, NEW new \in Row
  PROVE  \/ Anchor(Append(rows, new)) = new /\ new.f # None
         \/ Anchor(Append(rows, new)).threshold = Anchor(rows).threshold
<1> DEFINE after == Append(rows, new)
<1>1. after \in Seq(Row) /\ Measured(after) = Measured(rows) \cup (IF new.f = None THEN {} ELSE {new})
  BY MeasuredAfter
<1> HIDE DEF after
<1>2. Measured(rows) \subseteq Measured(after) /\ Measured(after) # {}
  BY <1>1
<1>3. /\ Anchor(after) \in Measured(after)
      /\ \A b \in Measured(after) :
           \/ Distance(Anchor(after).f, 0) < Distance(b.f, 0)
           \/ /\ Distance(Anchor(after).f, 0) = Distance(b.f, 0)
              /\ Anchor(after).threshold <= b.threshold
  BY <1>1, <1>2, AnchorIsBest
<1>4. /\ Anchor(rows) \in Measured(rows)
      /\ \A b \in Measured(rows) :
           \/ Distance(Anchor(rows).f, 0) < Distance(b.f, 0)
           \/ /\ Distance(Anchor(rows).f, 0) = Distance(b.f, 0)
              /\ Anchor(rows).threshold <= b.threshold
  BY AnchorIsBest
<1>5. CASE Anchor(after) \in Measured(rows)
  <2>1. /\ Anchor(after).threshold \in Nat /\ Anchor(rows).threshold \in Nat
        /\ Distance(Anchor(after).f, 0) \in Nat /\ Distance(Anchor(rows).f, 0) \in Nat
    BY <1>4, <1>5, MeasuredFacts DEF Distance
  <2>2. Anchor(rows) \in Measured(after)
    BY <1>2, <1>4
  <2>3. \/ Distance(Anchor(rows).f, 0) < Distance(Anchor(after).f, 0)
        \/ /\ Distance(Anchor(rows).f, 0) = Distance(Anchor(after).f, 0)
           /\ Anchor(rows).threshold <= Anchor(after).threshold
    BY <1>4, <1>5
  <2>4. \/ Distance(Anchor(after).f, 0) < Distance(Anchor(rows).f, 0)
        \/ /\ Distance(Anchor(after).f, 0) = Distance(Anchor(rows).f, 0)
           /\ Anchor(after).threshold <= Anchor(rows).threshold
    BY <1>3, <2>2
  <2>5. Anchor(after).threshold = Anchor(rows).threshold
    BY <2>1, <2>3, <2>4
  <2> QED
    BY <2>5 DEF after
<1>6. CASE Anchor(after) \notin Measured(rows)
  BY <1>1, <1>3, <1>6 DEF after
<1> QED
  BY <1>5, <1>6

\* Brackets that appear with a row end at it.
LEMMA NewBracket ==
  ASSUME NEW rows \in Seq(Row), NEW new \in Row,
         NEW q \in Brackets(Append(rows, new)), q \notin Brackets(rows)
  PROVE  /\ new.f \in Int /\ new.f # None /\ new.f # 0
         /\ \/ q[1] = new /\ q[2] \in Measured(rows)
            \/ q[2] = new /\ q[1] \in Measured(rows)
<1> DEFINE after == Append(rows, new)
<1>1. after \in Seq(Row) /\ Measured(after) = Measured(rows) \cup (IF new.f = None THEN {} ELSE {new})
  BY MeasuredAfter
<1>2. /\ q = <<q[1], q[2]>> /\ q[1] \in Measured(after) /\ q[2] \in Measured(after)
      /\ q[1].threshold \in Nat /\ q[2].threshold \in Nat
      /\ q[1].threshold < q[2].threshold /\ Opposed(q[1], q[2])
  <2> HIDE DEF after
  <2>1. q \in Brackets(after)
    BY DEF after
  <2> QED
    BY <1>1, <2>1, BracketsArePairs
<1> HIDE DEF after
<1>3. ~(q[1] \in Measured(rows) /\ q[2] \in Measured(rows))
  BY <1>2, BracketFacts
<1>4. new.f # None /\ (q[1] = new \/ q[2] = new)
  BY <1>1, <1>2, <1>3
<1>5. q[1] # q[2]
  BY <1>2
<1>6. \/ q[1] = new /\ q[2] \in Measured(rows)
      \/ q[2] = new /\ q[1] \in Measured(rows)
  BY <1>1, <1>2, <1>3, <1>4, <1>5
<1>7. new.f \in Int
  BY <1>4, ImbalancesAssumption DEF Row
<1>8. new.f # 0
  BY <1>2, <1>4, <1>7 DEF Opposed
<1> QED
  BY <1>4, <1>6, <1>7, <1>8

-----------------------------------------------------------------------------
(* One of the first eight steps from the anchor is fresh.                  *)

\* The rows after three probes.
Probed(rows) ==
  /\ rows \in Seq(Row) /\ Len(rows) \in 3 .. 5
  /\ rows[1].threshold = 100 * Scale
  /\ rows[2].threshold = 99 * Scale
  /\ rows[3].threshold = 101 * Scale
  /\ \A i \in DOMAIN rows : 88 * Scale <= rows[i].threshold /\ rows[i].threshold <= 106 * Scale

\* A step from a to where none of five thresholds is.
FreeStep(v, s, a, x, y) ==
  /\ v \in {a - s, a + s, a - 2 * s, a + 2 * s, a - 3 * s, a + 3 * s, a - 4 * s, a + 4 * s}
  /\ 88 * s <= v /\ v <= 106 * s
  /\ \A p \in {100 * s, 99 * s, 101 * s, x, y} : 5000 * (p - v) > s \/ 5000 * (v - p) > s

\* At most four others than the anchor stand in the way.
LEMMA SomeStepIsFree ==
  ASSUME NEW s \in Nat, s > 0, NEW x \in Int, NEW y \in Int, NEW a \in Int,
         88 * s <= a, a <= 106 * s,
         a \in {100 * s, 99 * s, 101 * s, x, y}
  PROVE  \E v \in Int : FreeStep(v, s, a, x, y)
<1> DEFINE apart(v, p) == 5000 * (p - v) > s \/ 5000 * (v - p) > s
           free(v) == /\ 88 * s <= v /\ v <= 106 * s
                      /\ apart(v, 100 * s) /\ apart(v, 99 * s) /\ apart(v, 101 * s)
                      /\ apart(v, x) /\ apart(v, y)
<1>1. \/ free(a - s) \/ free(a + s) \/ free(a - 2 * s) \/ free(a + 2 * s)
      \/ free(a - 3 * s) \/ free(a + 3 * s) \/ free(a - 4 * s) \/ free(a + 4 * s)
  BY SMTT(60)
<1>2. \A v \in Int : free(v) =>
        /\ 88 * s <= v /\ v <= 106 * s
        /\ \A p \in {100 * s, 99 * s, 101 * s, x, y} : apart(v, p)
  OBVIOUS
<1>3. /\ a - s \in Int /\ a + s \in Int /\ a - 2 * s \in Int /\ a + 2 * s \in Int
      /\ a - 3 * s \in Int /\ a + 3 * s \in Int /\ a - 4 * s \in Int /\ a + 4 * s \in Int
  OBVIOUS
<1>4. \E v \in Int :
        /\ v \in {a - s, a + s, a - 2 * s, a + 2 * s, a - 3 * s, a + 3 * s, a - 4 * s, a + 4 * s}
        /\ free(v)
  <2> HIDE DEF free
  <2> QED
    BY <1>1, <1>3
<1> QED
  <2>1. PICK v \in Int :
          /\ v \in {a - s, a + s, a - 2 * s, a + 2 * s, a - 3 * s, a + 3 * s, a - 4 * s, a + 4 * s}
          /\ free(v)
    <3> HIDE DEF free
    <3> QED
      BY <1>4
  <2> HIDE DEF apart
  <2> QED
    BY <1>2, <2>1 DEF apart, FreeStep

\* What the rows of a probed history are, and where the anchor may be.
LEMMA ProbedFacts ==
  ASSUME NEW rows, Probed(rows)
  PROVE  /\ rows # <<>> /\ DOMAIN rows = 1 .. Len(rows)
         /\ \A i \in DOMAIN rows : rows[i] \in Row /\ rows[i].threshold \in Nat
         /\ \A r \in Measured(rows) : \E i \in DOMAIN rows : r = rows[i]
         /\ \E i \in DOMAIN rows : Anchor(rows) = rows[i]
<1>1. rows # <<>> /\ DOMAIN rows = 1 .. Len(rows) /\ \A i \in DOMAIN rows : rows[i] \in Row
  BY DEF Probed
<1>2. \A i \in DOMAIN rows : rows[i].threshold \in Nat
  BY <1>1 DEF Row
<1>3. \A r \in Measured(rows) : \E i \in DOMAIN rows : r = rows[i]
  BY DEF Measured
<1>4. \E i \in DOMAIN rows : Anchor(rows) = rows[i]
  <2>1. CASE Measured(rows) = {}
    <3>1. Anchor(rows) = rows[1] /\ 1 \in DOMAIN rows
      BY <1>1, <2>1 DEF Anchor, Probed
    <3> QED
      BY <3>1
  <2>2. CASE Measured(rows) # {}
    BY <1>3, <2>2, AnchorIsBest DEF Probed
  <2> QED
    BY <2>1, <2>2
<1> QED
  BY <1>1, <1>2, <1>3, <1>4

\* A probed history has five thresholds at most, three of which are known.
LEMMA FiveThresholds ==
  ASSUME NEW rows, Probed(rows)
  PROVE  \E x, y \in Nat : \A i \in DOMAIN rows :
           rows[i].threshold \in {100 * Scale, 99 * Scale, 101 * Scale, x, y}
<1> DEFINE x == IF Len(rows) >= 4 THEN rows[4].threshold ELSE 0
           y == IF Len(rows) = 5 THEN rows[5].threshold ELSE 0
<1>1. \A i \in DOMAIN rows : i \in {1, 2, 3} \/ (i = 4 /\ Len(rows) >= 4) \/ (i = 5 /\ Len(rows) = 5)
  BY ProbedFacts DEF Probed
<1>2. x \in Nat /\ y \in Nat
  <2>1. Len(rows) >= 4 => 4 \in DOMAIN rows
    BY ProbedFacts DEF Probed
  <2>2. Len(rows) = 5 => 5 \in DOMAIN rows
    BY ProbedFacts DEF Probed
  <2> QED
    BY <2>1, <2>2, ProbedFacts
<1>3. \A i \in DOMAIN rows : rows[i].threshold \in {100 * Scale, 99 * Scale, 101 * Scale, x, y}
  BY <1>1 DEF Probed
<1> HIDE DEF x, y
<1> QED
  BY <1>2, <1>3

\* Without a bracket there is always something to try.
LEMMA OutsideIsNotEmpty ==
  ASSUME NEW rows, Probed(rows)
  PROVE  ProposedOutside(rows) # {}
<1> DEFINE at == Anchor(rows).threshold
           low == Lower(rows)
           high == Upper(rows)
           secant == IF Neighbours(rows) = {} THEN {} ELSE Secant(Neighbour(rows), Anchor(rows))
           clamped == {Lesser(high, Higher(low, v)) : v \in secant}
           offsets == <<-1, 1, -2, 2, -3, 3, -4, 4>>
           listed == [i \in 1 .. 8 |-> at + offsets[i] * Scale]
                     \o [i \in 1 .. BINARY_CANDIDATES |->
                           low + ((high - low) * i) \div (BINARY_CANDIDATES + 1)]
           fresh == {i \in DOMAIN listed : Usable(rows, listed[i])}
<1>1. ProposedOutside(rows) =
        IF \E v \in clamped : Usable(rows, v) THEN clamped
        ELSE {listed[i] : i \in {j \in fresh : \A k \in fresh : j <= k}}
  BY DEF ProposedOutside
<1>2. PICK x \in Nat, y \in Nat : \A i \in DOMAIN rows :
        rows[i].threshold \in {100 * Scale, 99 * Scale, 101 * Scale, x, y}
  BY FiveThresholds
<1>3. /\ at \in Nat /\ 88 * Scale <= at /\ at <= 106 * Scale
      /\ at \in {100 * Scale, 99 * Scale, 101 * Scale, x, y}
  <2>1. PICK i \in DOMAIN rows : Anchor(rows) = rows[i]
    BY ProbedFacts
  <2> QED
    BY <1>2, <2>1, ProbedFacts DEF Probed
<1>4. /\ 1 .. 8 \subseteq DOMAIN listed /\ DOMAIN listed \subseteq Nat
      /\ listed[1] = at - Scale /\ listed[2] = at + Scale
      /\ listed[3] = at - 2 * Scale /\ listed[4] = at + 2 * Scale
      /\ listed[5] = at - 3 * Scale /\ listed[6] = at + 3 * Scale
      /\ listed[7] = at - 4 * Scale /\ listed[8] = at + 4 * Scale
  <2> HIDE DEF at, low, high
  <2> QED
    BY <1>3, ScaleAssumption DEF BINARY_CANDIDATES
<1>5. PICK v \in Int : FreeStep(v, Scale, at, x, y)
  <2> HIDE DEF at
  <2>1. Scale \in Nat /\ Scale > 0 /\ x \in Int /\ y \in Int /\ at \in Int
    BY <1>3, ScaleAssumption
  <2> QED
    BY <1>3, <2>1, SomeStepIsFree
<1>6. /\ v \in {at - Scale, at + Scale, at - 2 * Scale, at + 2 * Scale,
               at - 3 * Scale, at + 3 * Scale, at - 4 * Scale, at + 4 * Scale}
      /\ 88 * Scale <= v /\ v <= 106 * Scale
      /\ \A p \in {100 * Scale, 99 * Scale, 101 * Scale, x, y} :
           5000 * (p - v) > Scale \/ 5000 * (v - p) > Scale
  BY <1>5 DEF FreeStep
<1>7. Usable(rows, v)
  <2>1. rows \in Seq(Row) /\ rows # <<>>
    BY ProbedFacts DEF Probed
  <2>2. at - 4 * Scale <= v /\ v <= at + 4 * Scale
    <3> HIDE DEF at
    <3> QED
      BY <1>3, <1>6, ScaleAssumption
  <2>3. \A i \in DOMAIN rows :
          5000 * (rows[i].threshold - v) > Scale \/ 5000 * (v - rows[i].threshold) > Scale
    BY <1>2, <1>6
  <2> QED
    BY <1>6, <2>1, <2>2, <2>3, UsableFacts
<1>8. fresh # {} /\ fresh \in SUBSET Nat
  <2>1. \E i \in 1 .. 8 : v = listed[i]
    <3> HIDE DEF at, listed
    <3> QED
      BY <1>4, <1>6
  <2> HIDE DEF listed, at
  <2> QED
    BY <1>4, <1>7, <2>1
<1>9. PICK j \in fresh : \A k \in fresh : j <= k
  <2> HIDE DEF fresh
  <2> QED
    BY <1>8, Least
<1>10. CASE \E w \in clamped : Usable(rows, w)
  <2> HIDE DEF clamped, listed, fresh
  <2> QED
    BY <1>1, <1>10
<1>11. CASE ~\E w \in clamped : Usable(rows, w)
  <2>1. j \in {i \in fresh : \A k \in fresh : i <= k}
    <3> HIDE DEF fresh
    <3> QED
      BY <1>9
  <2>2. listed[j] \in {listed[i] : i \in {k \in fresh : \A l \in fresh : k <= l}}
    <3> HIDE DEF fresh, listed
    <3> QED
      BY <2>1
  <2> HIDE DEF clamped, listed, fresh
  <2> QED
    BY <1>1, <1>11, <2>2
<1> QED
  BY <1>10, <1>11

-----------------------------------------------------------------------------
(* Inside a bracket in which there is no candidate the middle is fresh.    *)

\* How the bracket lies to the anchor: within its step, ending at it, or beginning
\* beside it.
Reached(a, p) ==
  LET left == p[1].threshold
      right == p[2].threshold
  IN \/ a - 4 * Scale <= left /\ right <= a + 4 * Scale
     \/ a = left \/ a = right
     \/ a - 4 * Scale <= left /\ left <= a + Scale /\ a + 4 * Scale <= right
     \/ right <= a + 4 * Scale /\ a - Scale <= right /\ left <= a - 4 * Scale

LEMMA MiddleIsFresh ==
  ASSUME NEW rows, Probed(rows), Brackets(rows) # {},
         \A i \in DOMAIN rows : ~Within(rows[i].threshold, Narrowest(rows)),
         Reached(Anchor(rows).threshold, Narrowest(rows)),
         Apart(Width(Narrowest(rows)) \div 2, 0)
  PROVE  ProposedInside(rows) # {}
<1> DEFINE pair == Narrowest(rows)
           at == Anchor(rows).threshold
           left == pair[1].threshold
           right == pair[2].threshold
           lower == Higher(Lower(rows), left)
           upper == Lesser(Upper(rows), right)
           middle == lower + (upper - lower) \div 2
<1>1. rows \in Seq(Row) /\ rows # <<>> /\ Scale \in Nat /\ Scale > 0
  BY ProbedFacts, ScaleAssumption DEF Probed
<1>2. /\ pair \in Brackets(rows)
      /\ pair[1] \in Measured(rows) /\ pair[2] \in Measured(rows)
      /\ left \in Nat /\ right \in Nat /\ left < right /\ Width(pair) = right - left
  BY <1>1, NarrowestFacts, BracketsArePairs
<1>3. 88 * Scale <= left /\ right <= 106 * Scale
  <2>1. PICK i \in DOMAIN rows : pair[1] = rows[i]
    BY <1>2, ProbedFacts
  <2>2. PICK j \in DOMAIN rows : pair[2] = rows[j]
    BY <1>2, ProbedFacts
  <2> QED
    BY <2>1, <2>2 DEF Probed
<1>4. at \in Nat /\ 88 * Scale <= at /\ at <= 106 * Scale
  BY ProbedFacts DEF Probed
<1>5. /\ lower \in Int /\ upper \in Int
      /\ left <= lower /\ 88 * Scale <= lower /\ at - 4 * Scale <= lower
      /\ lower = left \/ lower = 88 * Scale \/ lower = at - 4 * Scale
      /\ upper <= right /\ upper <= 106 * Scale /\ upper <= at + 4 * Scale
      /\ upper = right \/ upper = 106 * Scale \/ upper = at + 4 * Scale
  <2> HIDE DEF at, left, right
  <2> QED
    BY <1>1, <1>2, <1>4, SMTT(30) DEF Lower, Upper, Higher, Lesser, LOW, HIGH, MAX_STEP, at, left, right
<1>6. upper - lower = right - left \/ upper - lower >= 3 * Scale
  <2>1. \/ at - 4 * Scale <= left /\ right <= at + 4 * Scale
        \/ at = left \/ at = right
        \/ at - 4 * Scale <= left /\ left <= at + Scale /\ at + 4 * Scale <= right
        \/ right <= at + 4 * Scale /\ at - Scale <= right /\ left <= at - 4 * Scale
    BY DEF Reached
  <2> HIDE DEF at, left, right, lower, upper
  <2> QED
    BY <1>1, <1>2, <1>3, <1>4, <1>5, <2>1
<1>7. 5000 * ((right - left) \div 2) > Scale
  <2>1. Width(pair) \div 2 \in Int /\ Width(pair) \div 2 = (right - left) \div 2
    <3> HIDE DEF left, right
    <3> QED
      BY <1>2
  <2>2. 5000 * (0 - Width(pair) \div 2) > Scale \/ 5000 * (Width(pair) \div 2 - 0) > Scale
    <3> DEFINE half == Width(pair) \div 2
    <3>1. half \in Int /\ 0 \in Int /\ Apart(half, 0)
      BY <2>1
    <3> HIDE DEF half
    <3>2. 5000 * (0 - half) > Scale \/ 5000 * (half - 0) > Scale
      BY <3>1, DistanceFacts
    <3> QED
      BY <3>2 DEF half
  <2>3. Width(pair) \div 2 >= 0
    <3> HIDE DEF left, right, pair
    <3> QED
      BY <1>2
  <2> QED
    <3> HIDE DEF left, right, pair
    <3> QED
      BY <1>1, <2>1, <2>2, <2>3
<1>8. /\ (upper - lower) \div 2 \in Nat /\ 5000 * ((upper - lower) \div 2) > Scale
      /\ lower < upper
      /\ middle \in Int /\ lower + (upper - lower) \div 2 = middle
      /\ (upper - lower) \div 2 <= upper - middle /\ middle <= upper /\ lower < middle /\ middle < upper
  <2> HIDE DEF left, right, lower, upper
  <2> QED
    BY <1>1, <1>2, <1>5, <1>6, <1>7
<1>9. Within(middle, pair)
  <2> HIDE DEF lower, upper, middle, pair
  <2> QED
    BY <1>2, <1>5, <1>8 DEF Within
<1>10. \A i \in DOMAIN rows :
         5000 * (rows[i].threshold - middle) > Scale \/ 5000 * (middle - rows[i].threshold) > Scale
  <2> TAKE i \in DOMAIN rows
  <2> DEFINE other == rows[i].threshold
  <2>1. other \in Nat /\ (other <= left \/ right <= other)
    <3>1. other \in Nat
      BY ProbedFacts
    <3>2. ~(left < other /\ other < right)
      BY DEF Within
    <3> HIDE DEF other, left, right
    <3> QED
      BY <1>2, <3>1, <3>2
  <2>2. 5000 * (other - middle) > Scale \/ 5000 * (middle - other) > Scale
    <3> HIDE DEF other, left, right, lower, upper, middle
    <3> QED
      BY <1>1, <1>2, <1>5, <1>8, <2>1
  <2> QED
    BY <2>2
<1>11. Usable(rows, middle)
  <2>1. at - 4 * Scale <= middle /\ middle <= at + 4 * Scale /\ 88 * Scale <= middle /\ middle <= 106 * Scale
    <3>1. lower < middle /\ middle < upper /\ middle \in Int
      BY <1>8
    <3>2. /\ at - 4 * Scale <= lower /\ upper <= at + 4 * Scale
          /\ 88 * Scale <= lower /\ upper <= 106 * Scale
          /\ lower \in Int /\ upper \in Int
      BY <1>5
    <3> HIDE DEF at, lower, upper, middle
    <3> QED
      BY <1>1, <1>4, <3>1, <3>2
  <2> HIDE DEF middle
  <2> QED
    BY <1>1, <1>8, <1>10, <2>1, UsableFacts
<1> DEFINE fresh(values) == {v \in values : Within(v, pair) /\ Usable(rows, v)}
           interpolated == fresh(Secant(pair[1], pair[2]))
<1>12. ProposedInside(rows) =
         IF interpolated # {} THEN interpolated
         ELSE IF lower < upper THEN fresh({middle}) ELSE {}
  BY DEF ProposedInside
<1>13. middle \in fresh({middle})
  <2> HIDE DEF middle, pair
  <2> QED
    BY <1>9, <1>11 DEF pair
<1> QED
  <2> HIDE DEF interpolated, fresh, lower, upper, middle
  <2> QED
    BY <1>8, <1>12, <1>13, SMTT(30)

\* What is between the ends of the narrowest bracket is balanced or gave no ratio.
LEMMA InteriorIsSpent ==
  ASSUME NEW rows \in Seq(Row), Brackets(rows) # {}, NEW i \in DOMAIN rows,
         Within(rows[i].threshold, Narrowest(rows))
  PROVE  rows[i].f \in {0, None}
<1> DEFINE p == Narrowest(rows)
           r == rows[i]
<1> SUFFICES ASSUME r.f # 0, r.f # None PROVE FALSE
  OBVIOUS
<1>1. r \in Measured(rows)
  BY DEF Measured
<1>2. r.f \in Int /\ r.threshold \in Nat
  BY <1>1, MeasuredFacts
<1>3. /\ p \in Brackets(rows)
      /\ \A q \in Brackets(rows) :
           Width(p) < Width(q) \/ (Width(p) = Width(q) /\ p[1].threshold <= q[1].threshold)
  BY NarrowestFacts
<1>4. /\ p[1] \in Measured(rows) /\ p[2] \in Measured(rows)
      /\ p[1].threshold \in Nat /\ p[2].threshold \in Nat
      /\ Opposed(p[1], p[2])
      /\ Width(p) = p[2].threshold - p[1].threshold /\ Width(p) \in Nat
  BY <1>3, BracketsArePairs
<1>5. p[1].f \in Int /\ p[2].f \in Int
  BY <1>4, MeasuredFacts
<1>6. p[1].threshold < r.threshold /\ r.threshold < p[2].threshold
  BY DEF Within
<1> HIDE DEF p, r
<1>7. CASE Opposed(p[1], r)
  <2>1. <<p[1], r>> \in Brackets(rows)
    BY <1>1, <1>4, <1>6, <1>7, BracketFacts
  <2>2. Width(<<p[1], r>>) = r.threshold - p[1].threshold
    BY DEF Width
  <2> QED
    BY <1>2, <1>3, <1>4, <1>6, <2>1, <2>2
<1>8. CASE Opposed(r, p[2])
  <2>1. <<r, p[2]>> \in Brackets(rows)
    BY <1>1, <1>4, <1>6, <1>8, BracketFacts
  <2>2. Width(<<r, p[2]>>) = p[2].threshold - r.threshold
    BY DEF Width
  <2> QED
    BY <1>2, <1>3, <1>4, <1>6, <2>1, <2>2
<1> QED
  BY <1>2, <1>4, <1>5, <1>7, <1>8 DEF Opposed, r

-----------------------------------------------------------------------------
(* The anchor reaches the bracket.                                         *)

\* What a candidate adds to the rows it was proposed from.
LEMMA ProbedAfter ==
  ASSUME NEW rows, Probed(rows), Len(rows) < 5,
         NEW new \in Row, new.threshold \in ProposeThreshold(rows)
  PROVE  /\ Probed(Append(rows, new)) /\ Len(Append(rows, new)) = Len(rows) + 1
         /\ Append(rows, new)[Len(rows) + 1] = new
         /\ \A i \in DOMAIN rows : Append(rows, new)[i] = rows[i]
         /\ DOMAIN Append(rows, new) = DOMAIN rows \cup {Len(rows) + 1}
         /\ new.threshold \in Nat
         /\ Anchor(rows).threshold - 4 * Scale <= new.threshold
         /\ new.threshold <= Anchor(rows).threshold + 4 * Scale
         /\ \A i \in DOMAIN rows : rows[i].threshold # new.threshold
<1>1. rows \in Seq(Row) /\ rows # <<>> /\ Scale \in Nat /\ Scale > 0
  BY ProbedFacts, ScaleAssumption DEF Probed
<1>2. new.threshold \in Nat /\ Usable(rows, new.threshold)
  BY <1>1, ProposedIsUsable
<1>3. /\ 88 * Scale <= new.threshold /\ new.threshold <= 106 * Scale
      /\ Anchor(rows).threshold - 4 * Scale <= new.threshold
      /\ new.threshold <= Anchor(rows).threshold + 4 * Scale
      /\ \A i \in DOMAIN rows :
           \/ 5000 * (rows[i].threshold - new.threshold) > Scale
           \/ 5000 * (new.threshold - rows[i].threshold) > Scale
  BY <1>1, <1>2, UsableFacts
<1>4. \A i \in DOMAIN rows : rows[i].threshold # new.threshold
  <2> SUFFICES ASSUME NEW i \in DOMAIN rows, rows[i].threshold = new.threshold PROVE FALSE
    OBVIOUS
  <2>1. 5000 * (new.threshold - new.threshold) > Scale
    BY <1>3
  <2> QED
    BY <1>1, <1>2, <2>1
<1>5. /\ Append(rows, new) \in Seq(Row) /\ Len(Append(rows, new)) = Len(rows) + 1
      /\ Append(rows, new)[Len(rows) + 1] = new
      /\ \A i \in DOMAIN rows : Append(rows, new)[i] = rows[i]
      /\ DOMAIN Append(rows, new) = DOMAIN rows \cup {Len(rows) + 1}
      /\ Len(rows) \in 3 .. 4
  <2>1. Len(rows) \in 3 .. 4
    <3> DEFINE n == Len(rows)
    <3>1. n \in 3 .. 5 /\ n < 5
      BY DEF Probed
    <3> HIDE DEF n
    <3>2. n \in 3 .. 4
      BY <3>1
    <3> QED
      BY <3>2 DEF n
  <2> QED
    BY <1>1, <2>1
<1>6. 1 \in DOMAIN rows /\ 2 \in DOMAIN rows /\ 3 \in DOMAIN rows
  BY <1>1, <1>5
<1>7. \A i \in DOMAIN Append(rows, new) :
        /\ 88 * Scale <= Append(rows, new)[i].threshold
        /\ Append(rows, new)[i].threshold <= 106 * Scale
  BY <1>3, <1>5 DEF Probed
<1>8. Probed(Append(rows, new))
  <2>1. Len(Append(rows, new)) \in 3 .. 5
    BY <1>5
  <2> QED
    BY <1>5, <1>6, <1>7, <2>1 DEF Probed
<1> QED
  BY <1>2, <1>3, <1>4, <1>5, <1>8

\* All candidates within the anchor's step.
LEMMA NearIsReached ==
  ASSUME NEW rows, Probed(rows), Brackets(rows) # {},
         \A i \in DOMAIN rows :
           /\ Anchor(rows).threshold - 4 * Scale <= rows[i].threshold
           /\ rows[i].threshold <= Anchor(rows).threshold + 4 * Scale
  PROVE  Reached(Anchor(rows).threshold, Narrowest(rows))
<1>1. Narrowest(rows)[1] \in Measured(rows) /\ Narrowest(rows)[2] \in Measured(rows)
  BY NarrowestFacts, BracketsArePairs DEF Probed
<1>2. PICK i \in DOMAIN rows : Narrowest(rows)[1] = rows[i]
  BY <1>1, ProbedFacts
<1>3. PICK j \in DOMAIN rows : Narrowest(rows)[2] = rows[j]
  BY <1>1, ProbedFacts
<1> QED
  BY <1>2, <1>3 DEF Reached

\* All candidates among the probes.
Among(rows) ==
  \A i \in DOMAIN rows : 99 * Scale <= rows[i].threshold /\ rows[i].threshold <= 101 * Scale

LEMMA AmongIsReached ==
  ASSUME NEW rows, Probed(rows), Brackets(rows) # {}, Among(rows)
  PROVE  Reached(Anchor(rows).threshold, Narrowest(rows))
<1>1. PICK j \in DOMAIN rows : Anchor(rows) = rows[j]
  BY ProbedFacts
<1>2. \A i \in DOMAIN rows :
        /\ Anchor(rows).threshold - 4 * Scale <= rows[i].threshold
        /\ rows[i].threshold <= Anchor(rows).threshold + 4 * Scale
  <2> TAKE i \in DOMAIN rows
  <2> DEFINE m == rows[i].threshold
             n == rows[j].threshold
  <2>1. m \in Nat /\ n \in Nat /\ 99 * Scale <= m /\ m <= 101 * Scale /\ 99 * Scale <= n /\ n <= 101 * Scale
    BY ProbedFacts DEF Among
  <2> HIDE DEF m, n
  <2>2. n - 4 * Scale <= m /\ m <= n + 4 * Scale
    BY <2>1, ScaleAssumption
  <2> QED
    BY <1>1, <2>2 DEF m, n
<1> QED
  BY <1>2, NearIsReached

LEMMA AmongProbes ==
  ASSUME NEW rows, Probed(rows), Len(rows) = 3
  PROVE  Among(rows) /\ DOMAIN rows = {1, 2, 3}
<1>1. DOMAIN rows = {1, 2, 3}
  BY ProbedFacts
<1>2. Scale \in Nat
  BY ScaleAssumption
<1> QED
  BY <1>1, <1>2 DEF Among, Probed

\* Once there is a bracket among the probes, what follows is among them as well.
LEMMA AmongAfter ==
  ASSUME NEW rows, Probed(rows), Len(rows) < 5, Among(rows), Brackets(rows) # {},
         NEW new \in Row, new.threshold \in ProposeThreshold(rows)
  PROVE  Among(Append(rows, new))
<1>1. Narrowest(rows)[1] \in Measured(rows) /\ Narrowest(rows)[2] \in Measured(rows)
  BY NarrowestFacts, BracketsArePairs DEF Probed
<1>2. PICK i \in DOMAIN rows : Narrowest(rows)[1] = rows[i]
  BY <1>1, ProbedFacts
<1>3. PICK j \in DOMAIN rows : Narrowest(rows)[2] = rows[j]
  BY <1>1, ProbedFacts
<1>4. rows[i].threshold < new.threshold /\ new.threshold < rows[j].threshold
  BY <1>2, <1>3, ProposedIsConfined DEF Within, Probed
<1>5. /\ rows[i].threshold \in Nat /\ rows[j].threshold \in Nat /\ new.threshold \in Nat
      /\ 99 * Scale <= rows[i].threshold /\ rows[j].threshold <= 101 * Scale
      /\ Scale \in Nat
  BY ProbedFacts, ScaleAssumption DEF Among, Row
<1>6. 99 * Scale <= new.threshold /\ new.threshold <= 101 * Scale
  BY <1>4, <1>5
<1> QED
  BY <1>6, ProbedAfter DEF Among

\* The probes are within two steps of 0.005 of each other.
LEMMA NearProbes ==
  ASSUME NEW rows, Probed(rows), Len(rows) = 3
  PROVE  /\ 99 * Scale <= Anchor(rows).threshold /\ Anchor(rows).threshold <= 101 * Scale
         /\ \A i \in DOMAIN rows :
              /\ Anchor(rows).threshold - 2 * Scale <= rows[i].threshold
              /\ rows[i].threshold <= Anchor(rows).threshold + 2 * Scale
              /\ Anchor(rows).threshold - 4 * Scale <= rows[i].threshold
              /\ rows[i].threshold <= Anchor(rows).threshold + 4 * Scale
<1>1. PICK j \in DOMAIN rows : Anchor(rows) = rows[j]
  BY ProbedFacts
<1> DEFINE n == rows[j].threshold
<1>2. n \in Nat /\ 99 * Scale <= n /\ n <= 101 * Scale
  BY ProbedFacts, AmongProbes DEF Among
<1>3. \A i \in DOMAIN rows :
        /\ n - 2 * Scale <= rows[i].threshold /\ rows[i].threshold <= n + 2 * Scale
        /\ n - 4 * Scale <= rows[i].threshold /\ rows[i].threshold <= n + 4 * Scale
  <2> TAKE i \in DOMAIN rows
  <2> DEFINE m == rows[i].threshold
  <2>1. m \in Nat /\ 99 * Scale <= m /\ m <= 101 * Scale
    BY ProbedFacts, AmongProbes DEF Among
  <2> HIDE DEF m, n
  <2>2. n - 2 * Scale <= m /\ m <= n + 2 * Scale /\ n - 4 * Scale <= m /\ m <= n + 4 * Scale
    BY <1>2, <2>1, ScaleAssumption
  <2> QED
    BY <2>2 DEF m
<1> QED
  BY <1>1, <1>2, <1>3

LEMMA ReachOfFour ==
  ASSUME NEW rows, Probed(rows), Len(rows) = 3,
         NEW new \in Row, new.threshold \in ProposeThreshold(rows),
         Brackets(Append(rows, new)) # {}
  PROVE  Reached(Anchor(Append(rows, new)).threshold, Narrowest(Append(rows, new)))
<1> DEFINE after == Append(rows, new)
<1>1. /\ Probed(after) /\ after[4] = new /\ \A i \in DOMAIN rows : after[i] = rows[i]
      /\ DOMAIN after = DOMAIN rows \cup {4}
      /\ new.threshold \in Nat
      /\ Anchor(rows).threshold - 4 * Scale <= new.threshold
      /\ new.threshold <= Anchor(rows).threshold + 4 * Scale
  <2>1. Len(rows) < 5 /\ Len(rows) + 1 = 4
    OBVIOUS
  <2>2. /\ Probed(after) /\ after[Len(rows) + 1] = new
        /\ \A i \in DOMAIN rows : after[i] = rows[i]
        /\ DOMAIN after = DOMAIN rows \cup {Len(rows) + 1}
        /\ new.threshold \in Nat
        /\ Anchor(rows).threshold - 4 * Scale <= new.threshold
        /\ new.threshold <= Anchor(rows).threshold + 4 * Scale
    BY <2>1, ProbedAfter
  <2> QED
    BY <2>1, <2>2
<1>2. CASE Brackets(rows) # {}
  <2>1. Len(rows) < 5 /\ Among(rows)
    BY AmongProbes
  <2>2. Among(after)
    BY <1>2, <2>1, AmongAfter
  <2> HIDE DEF after
  <2>3. Brackets(after) # {}
    BY DEF after
  <2>4. Reached(Anchor(after).threshold, Narrowest(after))
    BY <1>1, <2>2, <2>3, AmongIsReached
  <2> QED
    BY <2>4 DEF after
<1>3. CASE Brackets(rows) = {}
  <2>1. rows \in Seq(Row)
    BY DEF Probed
  <2>2. Narrowest(after) \in Brackets(after) /\ Narrowest(after) \notin Brackets(rows)
    BY <1>1, <1>3, NarrowestFacts DEF Probed
  <2>3. /\ \/ Narrowest(after)[1] = new /\ Narrowest(after)[2] \in Measured(rows)
           \/ Narrowest(after)[2] = new /\ Narrowest(after)[1] \in Measured(rows)
        /\ Measured(rows) # {}
    BY <2>1, <2>2, NewBracket
  <2>4. CASE Anchor(after) = new
    BY <2>3, <2>4 DEF Reached
  <2>5. CASE Anchor(after).threshold = Anchor(rows).threshold
    <3>1. \A i \in DOMAIN after :
            /\ Anchor(after).threshold - 4 * Scale <= after[i].threshold
            /\ after[i].threshold <= Anchor(after).threshold + 4 * Scale
      BY <1>1, <2>5, NearProbes
    <3> QED
      BY <1>1, <3>1, NearIsReached
  <2> QED
    BY <2>1, <2>3, <2>4, <2>5, AnchorAfter
<1> QED
  BY <1>2, <1>3

-----------------------------------------------------------------------------
(* Without a bracket the secant leads away from the other rows.            *)

LEMMA QuotientSign ==
  ASSUME NEW x \in Int, NEW e \in Nat, e > 0
  PROVE  x \div e \in Int /\ (x >= 0 => x \div e >= 0) /\ (x <= 0 => x \div e <= 0)
<1>1. x \div e \in Int /\ e * (x \div e) <= x /\ x < e * (x \div e) + e
  OBVIOUS
<1>2. \A q \in Int : (e * q <= x /\ x < e * q + e) => (x >= 0 => q >= 0) /\ (x <= 0 => q <= 0)
  OBVIOUS
<1> QED
  BY <1>1, <1>2

LEMMA SecantLeadsAway ==
  ASSUME NEW n, NEW a, n.f \in Int, a.f \in Int, n.threshold \in Nat, a.threshold \in Nat,
         n.f # a.f, ~Opposed(n, a), Distance(a.f, 0) <= Distance(n.f, 0),
         NEW v \in Secant(n, a)
  PROVE  /\ v \in Int
         /\ a.threshold < n.threshold => v <= a.threshold
         /\ n.threshold < a.threshold => a.threshold <= v
<1> DEFINE rise == a.f - n.f
           sign == IF rise < 0 THEN -1 ELSE 1
           slope == sign * a.f
           run == a.threshold - n.threshold
           steep == sign * rise
<1>1. v = a.threshold - (slope * run) \div steep
  BY DEF Secant
<1>2. slope \in Int /\ slope <= 0 /\ steep \in Nat /\ steep > 0 /\ run \in Int
  BY DEF Opposed, Distance
<1>3. /\ slope * run \in Int
      /\ run < 0 => slope * run >= 0
      /\ run > 0 => slope * run <= 0
  <2> HIDE DEF slope, run
  <2> QED
    BY <1>2
<1>4. /\ (slope * run) \div steep \in Int
      /\ run < 0 => (slope * run) \div steep >= 0
      /\ run > 0 => (slope * run) \div steep <= 0
  <2> DEFINE x == slope * run
  <2>1. x \in Int /\ (run < 0 => x >= 0) /\ (run > 0 => x <= 0)
    BY <1>3
  <2> HIDE DEF x, slope, run, steep
  <2>2. /\ x \div steep \in Int
        /\ x >= 0 => x \div steep >= 0
        /\ x <= 0 => x \div steep <= 0
    BY <1>2, <2>1, QuotientSign
  <2>3. /\ x \div steep \in Int
        /\ run < 0 => x \div steep >= 0
        /\ run > 0 => x \div steep <= 0
    BY <2>1, <2>2
  <2> QED
    BY <2>3 DEF x
<1> DEFINE quotient == (slope * run) \div steep
<1>5. /\ quotient \in Int /\ v = a.threshold - quotient
      /\ (run < 0 => quotient >= 0) /\ (run > 0 => quotient <= 0)
  BY <1>1, <1>4
<1> HIDE DEF quotient
<1>6. (a.threshold < n.threshold => run < 0) /\ (n.threshold < a.threshold => run > 0)
  OBVIOUS
<1> HIDE DEF run
<1> QED
  BY <1>5, <1>6

LEMMA NeighbourIsOne ==
  ASSUME NEW rows \in Seq(Row), rows # <<>>, Neighbours(rows) # {}
  PROVE  Neighbour(rows) \in Neighbours(rows)
<1> DEFINE far(r) == Distance(r.threshold, Anchor(rows).threshold)
           first == [r \in Neighbours(rows) |-> far(r)]
           second == [r \in Neighbours(rows) |-> r.threshold]
<1>1. Neighbours(rows) \subseteq Measured(rows)
  BY DEF Neighbours
<1>2. \A r \in Neighbours(rows) : far(r) \in Nat /\ r.threshold \in Nat
  <2> TAKE r \in Neighbours(rows)
  <2>1. r.threshold \in Nat /\ Anchor(rows).threshold \in Nat
    BY <1>1, MeasuredFacts, AnchorIsRow DEF Row
  <2> QED
    BY <2>1 DEF Distance
<1>3. first \in [Neighbours(rows) -> Nat] /\ second \in [Neighbours(rows) -> Nat]
  <2> HIDE DEF far
  <2> QED
    BY <1>2
<1>4. \E r \in Neighbours(rows) : \A s \in Neighbours(rows) :
        first[r] < first[s] \/ (first[r] = first[s] /\ second[r] <= second[s])
  <2> HIDE DEF first, second
  <2> QED
    BY <1>3, LeastOfTwo
<1>5. \E r \in Neighbours(rows) : \A s \in Neighbours(rows) :
        far(r) < far(s) \/ (far(r) = far(s) /\ r.threshold <= s.threshold)
  <2> HIDE DEF far
  <2> QED
    BY <1>4
<1> QED
  BY <1>5, Zenon DEF Neighbour

\* Beside the anchor the nearest listed steps are fresh, on the side of the probes.
LEMMA StaysBeside ==
  ASSUME NEW rows, Probed(rows), Len(rows) = 4, Brackets(rows) = {},
         Anchor(rows) = rows[4], rows[4].f # None,
         NEW value, value \in ProposeThreshold(rows)
  PROVE  /\ rows[4].threshold < 97 * Scale => value <= rows[4].threshold + Scale
         /\ rows[4].threshold > 103 * Scale => value >= rows[4].threshold - Scale
<1> DEFINE at == Anchor(rows).threshold
           low == Lower(rows)
           high == Upper(rows)
           secant == IF Neighbours(rows) = {} THEN {} ELSE Secant(Neighbour(rows), Anchor(rows))
           clamped == {Lesser(high, Higher(low, v)) : v \in secant}
           offsets == <<-1, 1, -2, 2, -3, 3, -4, 4>>
           listed == [i \in 1 .. 8 |-> at + offsets[i] * Scale]
                     \o [i \in 1 .. BINARY_CANDIDATES |->
                           low + ((high - low) * i) \div (BINARY_CANDIDATES + 1)]
           fresh == {i \in DOMAIN listed : Usable(rows, listed[i])}
<1>1. rows \in Seq(Row) /\ rows # <<>> /\ DOMAIN rows = {1, 2, 3, 4} /\ Scale \in Nat /\ Scale > 0
  BY ProbedFacts, ScaleAssumption DEF Probed
<1>2. value \in (IF \E v \in clamped : Usable(rows, v) THEN clamped
                 ELSE {listed[i] : i \in {j \in fresh : \A k \in fresh : j <= k}})
  <2>1. value \in ProposedOutside(rows)
    BY <1>1 DEF ProposeThreshold
  <2> HIDE DEF at, low, high, secant, clamped, offsets, listed, fresh
  <2> QED
    BY <2>1 DEF ProposedOutside, at, low, high, secant, clamped, offsets, listed, fresh
<1>3. /\ at \in Nat /\ at = rows[4].threshold
      /\ 88 * Scale <= at /\ at <= 106 * Scale
  BY <1>1, ProbedFacts, SMTT(30) DEF Probed
<1>4. CASE value \in clamped
  <2>1. PICK v \in secant : value = Lesser(high, Higher(low, v))
    BY <1>4
  <2>2. Neighbours(rows) # {} /\ v \in Secant(Neighbour(rows), Anchor(rows))
    BY <2>1
  <2> DEFINE n == Neighbour(rows)
  <2>3. n \in Measured(rows) /\ n # rows[4] /\ n.f # Anchor(rows).f
    <3>1. n \in Neighbours(rows)
      BY <1>1, <2>2, NeighbourIsOne
    <3> QED
      BY <3>1 DEF Neighbours
  <2>4. /\ n.f \in Int /\ n.f # None /\ n.threshold \in Nat
        /\ 99 * Scale <= n.threshold /\ n.threshold <= 101 * Scale
    <3>1. PICK i \in DOMAIN rows : n = rows[i]
      BY <2>3, ProbedFacts
    <3>2. i \in {1, 2, 3}
      BY <1>1, <2>3, <3>1
    <3> QED
      BY <1>1, <2>3, <3>1, <3>2, MeasuredFacts DEF Probed
  <2>5. Anchor(rows) \in Measured(rows) /\ Anchor(rows).f \in Int /\ Anchor(rows).threshold \in Nat
    BY <1>1, <2>3, AnchorIsBest, MeasuredFacts
  <2>6. Distance(Anchor(rows).f, 0) <= Distance(n.f, 0)
    <3>1. \/ Distance(Anchor(rows).f, 0) < Distance(n.f, 0)
          \/ Distance(Anchor(rows).f, 0) = Distance(n.f, 0)
      BY <1>1, <2>3, AnchorIsBest
    <3>2. Distance(Anchor(rows).f, 0) \in Nat /\ Distance(n.f, 0) \in Nat
      BY <2>4, <2>5 DEF Distance
    <3> QED
      BY <3>1, <3>2
  <2>7. ASSUME n.threshold < at \/ at < n.threshold
        PROVE  ~Opposed(n, Anchor(rows))
    <3>1. n.threshold < at => ~Opposed(n, Anchor(rows))
      BY <1>1, <2>3, <2>5, BracketFacts
    <3>2. at < n.threshold => ~Opposed(Anchor(rows), n)
      BY <1>1, <2>3, <2>5, BracketFacts
    <3> QED
      BY <2>7, <3>1, <3>2 DEF Opposed
  <2>8. ASSUME n.threshold < at \/ at < n.threshold
        PROVE  v \in Int /\ (at < n.threshold => v <= at) /\ (n.threshold < at => at <= v)
    <3>1. ~Opposed(n, Anchor(rows))
      BY <2>7, <2>8
    <3> HIDE DEF n
    <3> QED
      BY <2>2, <2>3, <2>4, <2>5, <2>6, <3>1, SecantLeadsAway DEF n
  <2>9. low \in Int /\ high \in Int /\ low <= at /\ at <= high
    <3> HIDE DEF at
    <3> QED
      BY <1>1, <1>3 DEF Lower, Upper, Higher, Lesser, LOW, HIGH, MAX_STEP, at
  <2>10. at < 97 * Scale => value <= at + Scale
    <3> HAVE at < 97 * Scale
    <3>1. at < n.threshold
      <4> HIDE DEF at, n
      <4> QED
        BY <1>1, <1>3, <2>4
    <3>2. v \in Int /\ v <= at
      BY <2>8, <3>1
    <3> HIDE DEF at, n, low, high
    <3> QED
      BY <1>1, <1>3, <2>1, <2>9, <3>2 DEF Lesser, Higher
  <2>11. at > 103 * Scale => value >= at - Scale
    <3> HAVE at > 103 * Scale
    <3>1. n.threshold < at
      <4> HIDE DEF at, n
      <4> QED
        BY <1>1, <1>3, <2>4
    <3>2. v \in Int /\ at <= v
      BY <2>8, <3>1
    <3> HIDE DEF at, n, low, high
    <3> QED
      BY <1>1, <1>3, <2>1, <2>9, <3>2 DEF Lesser, Higher
  <2> QED
    BY <1>3, <2>10, <2>11
<1>5. CASE value \in {listed[i] : i \in {j \in fresh : \A k \in fresh : j <= k}}
  <2>1. PICK j \in fresh : value = listed[j] /\ \A k \in fresh : j <= k
    BY <1>5
  <2>2. /\ 1 .. 8 \subseteq DOMAIN listed /\ DOMAIN listed \subseteq Nat \ {0}
        /\ listed[1] = at - Scale /\ listed[2] = at + Scale
    <3> HIDE DEF at, low, high, fresh
    <3> QED
      BY <1>3, ScaleAssumption DEF BINARY_CANDIDATES
  <2> HIDE DEF fresh, listed
  <2>3. ASSUME NEW v \in Int,
               \/ at < 97 * Scale /\ v = at + Scale
               \/ at > 103 * Scale /\ v = at - Scale
        PROVE  Usable(rows, v)
    <3>1. /\ 88 * Scale <= v /\ v <= 106 * Scale
          /\ at - 4 * Scale <= v /\ v <= at + 4 * Scale
          /\ 5000 * (100 * Scale - v) > Scale \/ 5000 * (v - 100 * Scale) > Scale
          /\ 5000 * (99 * Scale - v) > Scale \/ 5000 * (v - 99 * Scale) > Scale
          /\ 5000 * (101 * Scale - v) > Scale \/ 5000 * (v - 101 * Scale) > Scale
          /\ 5000 * (at - v) > Scale \/ 5000 * (v - at) > Scale
      <4>1. /\ Scale \in Nat /\ Scale > 0 /\ at \in Nat
            /\ 88 * Scale <= at /\ at <= 106 * Scale
        BY <1>1, <1>3
      <4>2. \/ at < 97 * Scale /\ v = at + Scale
            \/ at > 103 * Scale /\ v = at - Scale
        BY <2>3
      <4> HIDE DEF at
      <4>3. CASE at < 97 * Scale /\ v = at + Scale
        BY <4>1, <4>3
      <4>4. CASE at > 103 * Scale /\ v = at - Scale
        BY <4>1, <4>4
      <4> QED
        BY <4>2, <4>3, <4>4
    <3>2. \A i \in DOMAIN rows :
            5000 * (rows[i].threshold - v) > Scale \/ 5000 * (v - rows[i].threshold) > Scale
      <4>1. \A i \in DOMAIN rows : rows[i].threshold \in {100 * Scale, 99 * Scale, 101 * Scale, at}
        <5> HIDE DEF at
        <5> QED
          BY <1>1, <1>3 DEF Probed
      <4> HIDE DEF at
      <4> QED
        BY <3>1, <4>1
    <3>3. rows \in Seq(Row) /\ rows # <<>> /\ v \in Int
      BY <1>1, <2>3
    <3>4. 88 * Scale <= v /\ v <= 106 * Scale /\ at - 4 * Scale <= v /\ v <= at + 4 * Scale
      BY <3>1
    <3> QED
      BY <3>2, <3>3, <3>4, UsableFacts
  <2>4. at < 97 * Scale => value <= at + Scale
    <3> HAVE at < 97 * Scale
    <3>1. 2 \in fresh
      <4>1. at + Scale \in Int
        <5> HIDE DEF at
        <5> QED
          BY <1>1, <1>3
      <4>2. Usable(rows, at + Scale)
        BY <2>3, <4>1
      <4> HIDE DEF at
      <4> QED
        BY <2>2, <4>2 DEF fresh
    <3>2. j \in {1, 2}
      <4>1. j \in Nat \ {0} /\ j <= 2
        BY <2>1, <2>2, <3>1 DEF fresh
      <4> QED
        BY <4>1
    <3> HIDE DEF at
    <3> QED
      BY <1>1, <1>3, <2>1, <2>2, <3>2
  <2>5. at > 103 * Scale => value >= at - Scale
    <3> HAVE at > 103 * Scale
    <3>1. 1 \in fresh
      <4>1. at - Scale \in Int
        <5> HIDE DEF at
        <5> QED
          BY <1>1, <1>3
      <4>2. Usable(rows, at - Scale)
        BY <2>3, <4>1
      <4> HIDE DEF at
      <4> QED
        BY <2>2, <4>2 DEF fresh
    <3>2. j = 1
      <4>1. j \in Nat \ {0} /\ j <= 1
        BY <2>1, <2>2, <3>1 DEF fresh
      <4> QED
        BY <4>1
    <3> HIDE DEF at
    <3> QED
      BY <1>1, <1>3, <2>1, <2>2, <3>2
  <2> QED
    BY <1>3, <2>4, <2>5
<1> QED
  <2> HIDE DEF clamped, listed, fresh
  <2> QED
    BY <1>2, <1>4, <1>5

-----------------------------------------------------------------------------
(* The fifth candidate: brackets among the probes, one that the fourth     *)
(* made, one that the fifth made.                                          *)

LEMMA FifthFacts ==
  ASSUME NEW three, Probed(three), Len(three) = 3,
         NEW fourth \in Row, fourth.threshold \in ProposeThreshold(three),
         NEW fifth \in Row, fifth.threshold \in ProposeThreshold(Append(three, fourth))
  PROVE  LET four == Append(three, fourth)
             all == Append(four, fifth)
             near(t, rows) == /\ Anchor(rows).threshold - 4 * Scale <= t
                              /\ t <= Anchor(rows).threshold + 4 * Scale
         IN /\ three \in Seq(Row) /\ four \in Seq(Row) /\ all \in Seq(Row)
            /\ Probed(four) /\ Len(four) = 4 /\ four[4] = fourth
            /\ Probed(all)
            /\ DOMAIN three = {1, 2, 3} /\ DOMAIN four = {1, 2, 3, 4} /\ DOMAIN all = {1, 2, 3, 4, 5}
            /\ \A i \in DOMAIN three : four[i] = three[i] /\ all[i] = three[i]
            /\ all[4] = fourth /\ all[5] = fifth
            /\ fourth.threshold \in Nat /\ fifth.threshold \in Nat
            /\ near(fourth.threshold, three) /\ near(fifth.threshold, four)
            /\ \A i \in DOMAIN three : three[i].threshold # fourth.threshold
<1> DEFINE four == Append(three, fourth)
           all == Append(four, fifth)
<1>1. Len(three) < 5 /\ Len(three) + 1 = 4 /\ DOMAIN three = {1, 2, 3}
  BY AmongProbes
<1>2. /\ Probed(four) /\ Len(four) = Len(three) + 1 /\ four[Len(three) + 1] = fourth
      /\ \A i \in DOMAIN three : four[i] = three[i]
      /\ DOMAIN four = DOMAIN three \cup {Len(three) + 1}
      /\ fourth.threshold \in Nat
      /\ Anchor(three).threshold - 4 * Scale <= fourth.threshold
      /\ fourth.threshold <= Anchor(three).threshold + 4 * Scale
      /\ \A i \in DOMAIN three : three[i].threshold # fourth.threshold
  BY <1>1, ProbedAfter
<1> HIDE DEF four, all
<1>3. Len(four) = 4 /\ Len(four) < 5 /\ Len(four) + 1 = 5 /\ four[4] = fourth /\ DOMAIN four = {1, 2, 3, 4}
  BY <1>1, <1>2
<1>4. fifth.threshold \in ProposeThreshold(four)
  BY DEF four
<1>5. /\ Probed(Append(four, fifth)) /\ Append(four, fifth)[Len(four) + 1] = fifth
      /\ \A i \in DOMAIN four : Append(four, fifth)[i] = four[i]
      /\ DOMAIN Append(four, fifth) = DOMAIN four \cup {Len(four) + 1}
      /\ fifth.threshold \in Nat
      /\ Anchor(four).threshold - 4 * Scale <= fifth.threshold
      /\ fifth.threshold <= Anchor(four).threshold + 4 * Scale
  BY <1>2, <1>3, <1>4, ProbedAfter
<1>6. /\ Probed(all) /\ all[5] = fifth /\ all[4] = fourth /\ DOMAIN all = {1, 2, 3, 4, 5}
      /\ \A i \in DOMAIN three : all[i] = three[i]
  BY <1>1, <1>2, <1>3, <1>5 DEF all
<1>7. three \in Seq(Row) /\ four \in Seq(Row) /\ all \in Seq(Row)
  BY <1>2, <1>6 DEF Probed
<1> QED
  BY <1>1, <1>2, <1>3, <1>5, <1>6, <1>7 DEF all, four

\* As long as the anchor is a probe all candidates are within its step.
LEMMA ProbeAnchorReaches ==
  ASSUME NEW three, Probed(three), Len(three) = 3,
         NEW fourth \in Row, fourth.threshold \in ProposeThreshold(three),
         NEW fifth \in Row, fifth.threshold \in ProposeThreshold(Append(three, fourth)),
         Anchor(Append(three, fourth)).threshold = Anchor(three).threshold,
         Anchor(Append(Append(three, fourth), fifth)).threshold = Anchor(three).threshold,
         Brackets(Append(Append(three, fourth), fifth)) # {}
  PROVE  Reached(Anchor(Append(Append(three, fourth), fifth)).threshold,
                 Narrowest(Append(Append(three, fourth), fifth)))
<1> DEFINE four == Append(three, fourth)
           all == Append(four, fifth)
<1>1. /\ Probed(all) /\ DOMAIN all = {1, 2, 3, 4, 5} /\ DOMAIN three = {1, 2, 3}
      /\ \A i \in DOMAIN three : all[i] = three[i]
      /\ all[4] = fourth /\ all[5] = fifth
      /\ Anchor(three).threshold - 4 * Scale <= fourth.threshold
      /\ fourth.threshold <= Anchor(three).threshold + 4 * Scale
      /\ Anchor(four).threshold - 4 * Scale <= fifth.threshold
      /\ fifth.threshold <= Anchor(four).threshold + 4 * Scale
  BY FifthFacts
<1>2. \A i \in DOMAIN three :
        /\ Anchor(three).threshold - 4 * Scale <= three[i].threshold
        /\ three[i].threshold <= Anchor(three).threshold + 4 * Scale
  BY NearProbes
<1>3. \A i \in DOMAIN all :
        /\ Anchor(all).threshold - 4 * Scale <= all[i].threshold
        /\ all[i].threshold <= Anchor(all).threshold + 4 * Scale
  <2>1. Anchor(four).threshold = Anchor(three).threshold /\ Anchor(all).threshold = Anchor(three).threshold
    OBVIOUS
  <2> HIDE DEF four, all
  <2>2. \A i \in {1, 2, 3, 4, 5} : i \in DOMAIN three \/ i = 4 \/ i = 5
    BY <1>1
  <2> QED
    BY <1>1, <1>2, <2>1, <2>2
<1> QED
  BY <1>1, <1>3, NearIsReached

\* Brackets are not lost.
LEMMA BracketsStay ==
  ASSUME NEW rows \in Seq(Row), NEW new \in Row, NEW q \in Brackets(rows)
  PROVE  q \in Brackets(Append(rows, new))
<1>1. Measured(rows) \subseteq Measured(Append(rows, new))
  BY MeasuredAfter
<1> QED
  BY <1>1 DEF Brackets

LEMMA ReachAmong ==
  ASSUME NEW three, Probed(three), Len(three) = 3,
         NEW fourth \in Row, fourth.threshold \in ProposeThreshold(three),
         NEW fifth \in Row, fifth.threshold \in ProposeThreshold(Append(three, fourth)),
         Brackets(three) # {}
  PROVE  Reached(Anchor(Append(Append(three, fourth), fifth)).threshold,
                 Narrowest(Append(Append(three, fourth), fifth)))
<1> DEFINE four == Append(three, fourth)
           all == Append(four, fifth)
<1>1. /\ three \in Seq(Row) /\ four \in Seq(Row) /\ Probed(four) /\ Len(four) = 4 /\ Probed(all)
  BY FifthFacts
<1>2. Among(three) /\ Len(three) < 5
  BY AmongProbes
<1>3. Among(four)
  BY <1>2, AmongAfter
<1> HIDE DEF four, all
<1>4. Brackets(four) # {}
  BY <1>1, BracketsStay DEF four
<1>5. Among(all) /\ Brackets(all) # {}
  <2>1. Len(four) < 5 /\ fifth.threshold \in ProposeThreshold(four)
    BY <1>1 DEF four
  <2>2. Among(Append(four, fifth))
    BY <1>1, <1>3, <1>4, <2>1, AmongAfter
  <2>3. Brackets(Append(four, fifth)) # {}
    BY <1>1, <1>4, BracketsStay
  <2> QED
    BY <2>2, <2>3 DEF all
<1>6. Reached(Anchor(all).threshold, Narrowest(all))
  BY <1>1, <1>5, AmongIsReached
<1> QED
  BY <1>6 DEF all, four

\* A bracket of the fourth candidate, if that is the anchor, is within its step: the
\* anchor before was of the other sign, and no further away.
LEMMA FourthIsNear ==
  ASSUME NEW three, Probed(three), Len(three) = 3, Brackets(three) = {},
         NEW fourth \in Row, fourth.threshold \in ProposeThreshold(three),
         Brackets(Append(three, fourth)) # {},
         Anchor(Append(three, fourth)) = fourth
  PROVE  LET p == Narrowest(Append(three, fourth))
         IN /\ fourth.threshold - 4 * Scale <= p[1].threshold
            /\ p[2].threshold <= fourth.threshold + 4 * Scale
<1> DEFINE four == Append(three, fourth)
           p == Narrowest(four)
           old == Anchor(three)
<1>1. three \in Seq(Row) /\ Scale \in Nat
  BY ScaleAssumption DEF Probed
<1>2. four \in Seq(Row) /\ Measured(four) = Measured(three) \cup (IF fourth.f = None THEN {} ELSE {fourth})
  BY <1>1, MeasuredAfter
<1>3. /\ fourth.threshold \in Nat
      /\ old.threshold - 4 * Scale <= fourth.threshold
      /\ fourth.threshold <= old.threshold + 4 * Scale
      /\ \A i \in DOMAIN three : three[i].threshold # fourth.threshold
  <2>1. Len(three) < 5
    OBVIOUS
  <2> QED
    BY <2>1, ProbedAfter
<1> HIDE DEF four
<1>4. /\ p \in Brackets(four) /\ p \notin Brackets(three)
      /\ \A q \in Brackets(four) :
           Width(p) < Width(q) \/ (Width(p) = Width(q) /\ p[1].threshold <= q[1].threshold)
  BY <1>2, NarrowestFacts DEF four
<1>5. /\ p[1].threshold \in Nat /\ p[2].threshold \in Nat /\ p[1].threshold < p[2].threshold
      /\ Opposed(p[1], p[2])
      /\ Width(p) = p[2].threshold - p[1].threshold /\ Width(p) \in Nat
  BY <1>2, <1>4, BracketsArePairs
<1>6. /\ fourth.f \in Int /\ fourth.f # None /\ fourth.f # 0
      /\ \/ p[1] = fourth /\ p[2] \in Measured(three)
         \/ p[2] = fourth /\ p[1] \in Measured(three)
  BY <1>1, <1>4, NewBracket DEF four
<1>7. old \in Measured(three) /\ old.f \in Int /\ old.threshold \in Nat
  BY <1>1, <1>6, AnchorIsBest, MeasuredFacts
<1>8. old.threshold # fourth.threshold
  <2>1. PICK i \in DOMAIN three : old = three[i]
    BY ProbedFacts
  <2> QED
    BY <1>3, <2>1
<1>9. old.f # 0
  <2>1. Distance(fourth.f, 0) < Distance(old.f, 0) \/ Distance(fourth.f, 0) = Distance(old.f, 0)
    BY <1>2, <1>6, <1>7, AnchorIsBest DEF four
  <2> QED
    BY <1>6, <1>7, <2>1 DEF Distance
<1>10. PICK end \in Measured(three) :
         \/ p[1] = fourth /\ p[2] = end
         \/ p[2] = fourth /\ p[1] = end
  BY <1>6
<1>11. end.f \in Int /\ end.threshold \in Nat
  BY <1>1, MeasuredFacts
<1>12. CASE end.threshold = old.threshold
  <2> HIDE DEF p, old
  <2> QED
    BY <1>1, <1>3, <1>5, <1>7, <1>10, <1>12 DEF p, four
<1>13. CASE end.threshold # old.threshold
  <2>1. ~Opposed(end, old)
    <3>1. ASSUME Opposed(end, old) PROVE FALSE
      <4>1. end.threshold < old.threshold \/ old.threshold < end.threshold
        BY <1>7, <1>11, <1>13
      <4>2. Opposed(old, end)
        BY <3>1 DEF Opposed
      <4> HIDE DEF old
      <4> QED
        BY <1>7, <3>1, <4>1, <4>2, BracketFacts
    <3> QED
      BY <3>1
  <2>2. Opposed(fourth, end)
    BY <1>5, <1>10 DEF Opposed
  <2>3. Opposed(fourth, old) /\ Opposed(old, fourth)
    <3> HIDE DEF old
    <3> QED
      BY <1>6, <1>7, <1>9, <1>11, <2>1, <2>2 DEF Opposed
  <2>4. fourth \in Measured(four) /\ old \in Measured(four)
    BY <1>2, <1>6, <1>7
  <2>5. CASE old.threshold < fourth.threshold
    <3>1. <<old, fourth>> \in Brackets(four)
      BY <2>3, <2>4, <2>5, BracketFacts
    <3>2. Width(<<old, fourth>>) = fourth.threshold - old.threshold
      BY DEF Width
    <3>3. Width(p) <= fourth.threshold - old.threshold
      BY <1>3, <1>4, <1>5, <1>7, <3>1, <3>2
    <3> HIDE DEF p, old
    <3>4. p[2].threshold - p[1].threshold <= 4 * Scale
      BY <1>1, <1>3, <1>5, <1>7, <3>3
    <3>5. fourth.threshold - 4 * Scale <= p[1].threshold /\ p[2].threshold <= fourth.threshold + 4 * Scale
      BY <1>1, <1>3, <1>5, <1>10, <3>4
    <3> QED
      BY <3>5 DEF p, four
  <2>6. CASE fourth.threshold < old.threshold
    <3>1. <<fourth, old>> \in Brackets(four)
      BY <2>3, <2>4, <2>6, BracketFacts
    <3>2. Width(<<fourth, old>>) = old.threshold - fourth.threshold
      BY DEF Width
    <3>3. Width(p) <= old.threshold - fourth.threshold
      BY <1>3, <1>4, <1>5, <1>7, <3>1, <3>2
    <3> HIDE DEF p, old
    <3>4. p[2].threshold - p[1].threshold <= 4 * Scale
      BY <1>1, <1>3, <1>5, <1>7, <3>3
    <3>5. fourth.threshold - 4 * Scale <= p[1].threshold /\ p[2].threshold <= fourth.threshold + 4 * Scale
      BY <1>1, <1>3, <1>5, <1>10, <3>4
    <3> QED
      BY <3>5 DEF p, four
  <2> QED
    BY <1>3, <1>7, <1>8, <2>5, <2>6
<1> QED
  BY <1>12, <1>13

LEMMA ReachAfterFourth ==
  ASSUME NEW three, Probed(three), Len(three) = 3, Brackets(three) = {},
         NEW fourth \in Row, fourth.threshold \in ProposeThreshold(three),
         NEW fifth \in Row, fifth.threshold \in ProposeThreshold(Append(three, fourth)),
         Brackets(Append(three, fourth)) # {},
         \A i \in DOMAIN Append(Append(three, fourth), fifth) :
           ~Within(Append(Append(three, fourth), fifth)[i].threshold,
                   Narrowest(Append(Append(three, fourth), fifth)))
  PROVE  Reached(Anchor(Append(Append(three, fourth), fifth)).threshold,
                 Narrowest(Append(Append(three, fourth), fifth)))
<1> DEFINE four == Append(three, fourth)
           all == Append(four, fifth)
           p == Narrowest(four)
           q == Narrowest(all)
<1>1. /\ three \in Seq(Row) /\ four \in Seq(Row) /\ all \in Seq(Row)
      /\ Probed(four) /\ Len(four) = 4 /\ Probed(all)
      /\ DOMAIN all = {1, 2, 3, 4, 5} /\ all[5] = fifth
      /\ fourth.threshold \in Nat /\ fifth.threshold \in Nat /\ Scale \in Nat
  BY FifthFacts, ScaleAssumption
<1>2. fifth.threshold \in ProposeThreshold(four)
  OBVIOUS
<1>3. Brackets(four) # {} /\ Brackets(all) # {}
  <2> HIDE DEF four
  <2> QED
    BY <1>1, BracketsStay DEF four
<1>4. Within(fifth.threshold, p)
  <2>1. Len(four) >= 3
    BY <1>1
  <2> HIDE DEF four
  <2> QED
    BY <1>1, <1>2, <1>3, <2>1, ProposedIsConfined
<1>5. /\ p[1].threshold <= q[1].threshold /\ q[2].threshold <= p[2].threshold
      /\ fifth.f \notin {0, None} => Width(q) < Width(p)
  <2> HIDE DEF four
  <2> QED
    BY <1>1, <1>3, <1>4, NestingStep
<1>6. /\ Measured(four) # {} /\ Measured(three) # {}
      /\ Measured(all) = Measured(four) \cup (IF fifth.f = None THEN {} ELSE {fifth})
  <2>1. p \in Brackets(four) /\ p \notin Brackets(three)
    <3> HIDE DEF four
    <3> QED
      BY <1>1, <1>3, NarrowestFacts
  <2>2. Measured(three) # {}
    BY <1>1, <2>1, NewBracket
  <2>3. Measured(three) \subseteq Measured(four)
    BY <1>1, MeasuredAfter
  <2> HIDE DEF four
  <2> QED
    BY <1>1, <2>2, <2>3, MeasuredAfter
<1>7. /\ p \in Brackets(four) /\ q \in Brackets(all)
      /\ \A b \in Brackets(four) :
           Width(p) < Width(b) \/ (Width(p) = Width(b) /\ p[1].threshold <= b[1].threshold)
  <2> HIDE DEF four, all
  <2> QED
    BY <1>1, <1>3, NarrowestFacts
<1>8. /\ p[1].threshold \in Nat /\ p[2].threshold \in Nat /\ p[1].threshold < p[2].threshold
      /\ Width(p) = p[2].threshold - p[1].threshold
      /\ q[1].threshold \in Nat /\ q[2].threshold \in Nat /\ q[1].threshold < q[2].threshold
      /\ Width(q) = q[2].threshold - q[1].threshold
  <2> HIDE DEF four, all
  <2> QED
    BY <1>1, <1>7, BracketsArePairs
<1>9. CASE Anchor(all) = fifth /\ fifth.f # None
  <2>1. q \notin Brackets(four)
    <3> SUFFICES ASSUME q \in Brackets(four) PROVE FALSE
      OBVIOUS
    <3>1. Width(p) <= Width(q)
      <4> HIDE DEF p, q
      <4> QED
        BY <1>7, <1>8
    <3>2. p[1].threshold = q[1].threshold /\ p[2].threshold = q[2].threshold
      <4> HIDE DEF p, q
      <4> QED
        BY <1>5, <1>8, <3>1
    <3>3. Within(fifth.threshold, q)
      BY <1>4, <3>2 DEF Within
    <3> QED
      BY <1>1, <3>3
  <2>2. q[1] = fifth \/ q[2] = fifth
    <3> HIDE DEF four, q
    <3> QED
      BY <1>1, <1>7, <2>1, NewBracket
  <2> QED
    BY <1>9, <2>2 DEF Reached
<1>10. CASE Anchor(all).threshold = Anchor(four).threshold /\ Anchor(four) = fourth
  <2>1. fourth.threshold - 4 * Scale <= p[1].threshold /\ p[2].threshold <= fourth.threshold + 4 * Scale
    BY <1>3, <1>10, FourthIsNear
  <2>2. fourth.threshold - 4 * Scale <= q[1].threshold /\ q[2].threshold <= fourth.threshold + 4 * Scale
    <3> HIDE DEF p, q
    <3> QED
      BY <1>1, <1>5, <1>8, <2>1, SMTT(30)
  <2>3. Anchor(all).threshold = fourth.threshold
    BY <1>10
  <2> QED
    BY <2>2, <2>3 DEF Reached
<1>11. CASE Anchor(all).threshold = Anchor(four).threshold /\ Anchor(four).threshold = Anchor(three).threshold
  <2>1. Anchor(all).threshold = Anchor(three).threshold
    BY <1>11
  <2> QED
    BY <1>3, <1>11, <2>1, ProbeAnchorReaches
<1>12. \/ Anchor(all) = fifth /\ fifth.f # None
       \/ Anchor(all).threshold = Anchor(four).threshold
  <2> HIDE DEF four
  <2> QED
    BY <1>1, <1>6, AnchorAfter
<1>13. Anchor(four) = fourth \/ Anchor(four).threshold = Anchor(three).threshold
  BY <1>1, <1>6, AnchorAfter
<1> QED
  BY <1>9, <1>10, <1>11, <1>12, <1>13

LEMMA ReachAfterFifth ==
  ASSUME NEW three, Probed(three), Len(three) = 3,
         NEW fourth \in Row, fourth.threshold \in ProposeThreshold(three),
         NEW fifth \in Row, fifth.threshold \in ProposeThreshold(Append(three, fourth)),
         Brackets(Append(three, fourth)) = {},
         Brackets(Append(Append(three, fourth), fifth)) # {}
  PROVE  Reached(Anchor(Append(Append(three, fourth), fifth)).threshold,
                 Narrowest(Append(Append(three, fourth), fifth)))
<1> DEFINE four == Append(three, fourth)
           all == Append(four, fifth)
           q == Narrowest(all)
<1>1. /\ three \in Seq(Row) /\ four \in Seq(Row) /\ all \in Seq(Row)
      /\ Probed(four) /\ Len(four) = 4 /\ four[4] = fourth /\ Probed(all)
      /\ DOMAIN three = {1, 2, 3} /\ DOMAIN four = {1, 2, 3, 4} /\ DOMAIN all = {1, 2, 3, 4, 5}
      /\ \A i \in DOMAIN three : four[i] = three[i] /\ all[i] = three[i]
      /\ all[4] = fourth /\ all[5] = fifth
      /\ fourth.threshold \in Nat /\ fifth.threshold \in Nat /\ Scale \in Nat /\ Scale > 0
      /\ Anchor(four).threshold - 4 * Scale <= fifth.threshold
      /\ fifth.threshold <= Anchor(four).threshold + 4 * Scale
  BY FifthFacts, ScaleAssumption
<1>2. q \in Brackets(all) /\ q \notin Brackets(four)
  <2> HIDE DEF four, all
  <2> QED
    BY <1>1, NarrowestFacts DEF four, all
<1>3. PICK x \in Measured(four) : (q[1] = fifth /\ q[2] = x) \/ (q[2] = fifth /\ q[1] = x)
  <2> HIDE DEF four, q
  <2> QED
    BY <1>1, <1>2, NewBracket
<1>4. /\ q[1].threshold \in Nat /\ q[2].threshold \in Nat /\ q[1].threshold < q[2].threshold
      /\ x.threshold \in Nat
  <2> HIDE DEF four, all
  <2> QED
    BY <1>1, <1>2, <1>3, BracketsArePairs, MeasuredFacts
<1>5. CASE Anchor(all) = fifth
  BY <1>3, <1>5 DEF Reached
<1>6. CASE Anchor(all).threshold = Anchor(four).threshold /\ Anchor(four) = fourth /\ fourth.f # None
  <2>1. PICK i \in {1, 2, 3, 4} : x = four[i]
    <3>1. x \in Measured(four) /\ Probed(four) /\ DOMAIN four = {1, 2, 3, 4}
      BY <1>1
    <3> HIDE DEF four
    <3> QED
      BY <3>1, ProbedFacts
  <2>2. CASE i = 4
    <3>1. Anchor(all).threshold = x.threshold
      BY <1>1, <1>6, <2>1, <2>2
    <3>2. Reached(Anchor(all).threshold, q)
      <4> HIDE DEF all, q
      <4> QED
        BY <1>3, <3>1 DEF Reached
    <3> QED
      BY <3>2
  <2>3. CASE i \in {1, 2, 3}
    <3> DEFINE at == fourth.threshold
               fifthAt == fifth.threshold
    <3>1. /\ 99 * Scale <= x.threshold /\ x.threshold <= 101 * Scale
          /\ at \in Nat /\ fifthAt \in Nat
          /\ at - 4 * Scale <= fifthAt /\ fifthAt <= at + 4 * Scale
      <4>1. 99 * Scale <= x.threshold /\ x.threshold <= 101 * Scale
        <5>1. x = three[i]
          BY <1>1, <2>1, <2>3
        <5> HIDE DEF four, all, q
        <5> QED
          BY <1>1, <2>3, <5>1, AmongProbes DEF Among
      <4> QED
        BY <1>1, <1>6, <4>1
    <3>2. /\ at < 97 * Scale => fifthAt <= at + Scale
          /\ at > 103 * Scale => fifthAt >= at - Scale
      <4>1. Anchor(four) = four[4] /\ four[4].f # None /\ fifthAt \in ProposeThreshold(four)
        BY <1>1, <1>6
      <4>2. /\ four[4].threshold < 97 * Scale => fifthAt <= four[4].threshold + Scale
            /\ four[4].threshold > 103 * Scale => fifthAt >= four[4].threshold - Scale
        <5> HIDE DEF four, fifthAt
        <5> QED
          BY <1>1, <4>1, StaysBeside DEF four
      <4> QED
        BY <1>1, <4>2
    <3>3. \/ q[1].threshold = fifthAt /\ q[2].threshold = x.threshold
          \/ q[2].threshold = fifthAt /\ q[1].threshold = x.threshold
      BY <1>3
    <3>4. \/ at - 4 * Scale <= q[1].threshold /\ q[2].threshold <= at + 4 * Scale
          \/ /\ at - 4 * Scale <= q[1].threshold /\ q[1].threshold <= at + Scale
             /\ at + 4 * Scale <= q[2].threshold
          \/ /\ q[2].threshold <= at + 4 * Scale /\ at - Scale <= q[2].threshold
             /\ q[1].threshold <= at - 4 * Scale
      <4> DEFINE left == q[1].threshold
                 right == q[2].threshold
                 there == x.threshold
      <4>1. /\ left \in Nat /\ right \in Nat /\ there \in Nat /\ left < right
            /\ Scale \in Nat /\ Scale > 0
        BY <1>1, <1>4
      <4>2. /\ 99 * Scale <= there /\ there <= 101 * Scale
            /\ (left = fifthAt /\ right = there) \/ (right = fifthAt /\ left = there)
        BY <3>1, <3>3
      <4> HIDE DEF left, right, there, at, fifthAt, four, all, q
      <4>3. \/ at - 4 * Scale <= left /\ right <= at + 4 * Scale
            \/ at - 4 * Scale <= left /\ left <= at + Scale /\ at + 4 * Scale <= right
            \/ right <= at + 4 * Scale /\ at - Scale <= right /\ left <= at - 4 * Scale
        BY <3>1, <3>2, <4>1, <4>2
      <4> QED
        BY <4>3 DEF left, right
    <3>5. Anchor(all).threshold = at
      BY <1>6
    <3>6. Reached(Anchor(all).threshold, q)
      <4> HIDE DEF all, q, at
      <4> QED
        BY <3>4, <3>5 DEF Reached
    <3> QED
      BY <3>6
  <2> QED
    BY <2>2, <2>3
<1>7. CASE /\ Anchor(all).threshold = Anchor(four).threshold
           /\ Anchor(four).threshold = Anchor(three).threshold
  <2>1. Anchor(all).threshold = Anchor(three).threshold
    BY <1>7
  <2> QED
    BY <1>7, <2>1, ProbeAnchorReaches
<1>8. \/ Anchor(all) = fifth
      \/ Anchor(all).threshold = Anchor(four).threshold
  <2> HIDE DEF four
  <2> QED
    BY <1>1, <1>3, AnchorAfter
<1>9. \/ Anchor(four) = fourth /\ fourth.f # None
      \/ Anchor(four).threshold = Anchor(three).threshold
  <2>1. CASE Measured(three) # {}
    BY <1>1, <2>1, AnchorAfter
  <2>2. CASE Measured(three) = {}
    <3>1. Measured(four) = IF fourth.f = None THEN {} ELSE {fourth}
      BY <1>1, <2>2, MeasuredAfter
    <3> HIDE DEF four
    <3>2. Anchor(four) \in Measured(four)
      BY <1>1, <1>3, AnchorIsBest
    <3> QED
      BY <3>1, <3>2
  <2> QED
    BY <2>1, <2>2
<1> QED
  BY <1>5, <1>6, <1>7, <1>8, <1>9

-----------------------------------------------------------------------------
(* The history of a search that was given up.                              *)

\* Each candidate was proposed for those before it, and nothing was left to propose
\* when the search was given up.
Followed ==
  /\ candidates \in Seq(Row) /\ Len(candidates) <= 6
  /\ \A i \in 0 .. Len(candidates) - 1 :
       candidates[i + 1].threshold \in ProposeThreshold(SubSeq(candidates, 1, i))
  /\ given => Len(candidates) < 6 /\ ProposeThreshold(candidates) = {}

LEMMA FollowedStep == Followed /\ [ThresholdNext]_thresholdVars => Followed'
<1> SUFFICES ASSUME Followed, [ThresholdNext]_thresholdVars PROVE Followed'
  OBVIOUS
<1>1. CASE TryThreshold
  <2>1. PICK value \in ProposeThreshold(candidates), f \in Imbalances \cup {None} :
          candidates' = Append(candidates, [threshold |-> value, f |-> f])
    BY <1>1 DEF TryThreshold
  <2>2. ~given /\ Len(candidates) < 6 /\ given' = given
    BY <1>1 DEF TryThreshold, BINARY_CANDIDATES
  <2> DEFINE new == [threshold |-> value, f |-> f]
  <2>3. candidates \in Seq(Row) /\ new \in Row /\ new.threshold \in ProposeThreshold(candidates)
    BY <2>1, ProposedIsNat DEF Followed, Row
  <2>4. candidates' = Append(candidates, new)
    BY <2>1
  <2> HIDE DEF new
  <2>5. /\ candidates' \in Seq(Row) /\ Len(candidates') = Len(candidates) + 1
        /\ Len(candidates) \in Nat
        /\ candidates'[Len(candidates) + 1] = new
        /\ \A i \in 1 .. Len(candidates) : candidates'[i] = candidates[i]
    BY <2>3, <2>4
  <2>6. ASSUME NEW i \in 0 .. Len(candidates') - 1
        PROVE  candidates'[i + 1].threshold \in ProposeThreshold(SubSeq(candidates', 1, i))
    <3>1. i \in 0 .. Len(candidates)
      BY <2>5
    <3>2. SubSeq(candidates', 1, i) = SubSeq(candidates, 1, i)
      BY <2>3, <2>4, <3>1, Befores
    <3>3. CASE i = Len(candidates)
      BY <2>3, <2>5, <3>1, <3>2, <3>3, Befores
    <3>4. CASE i # Len(candidates)
      <4>1. i \in 0 .. Len(candidates) - 1 /\ i + 1 \in 1 .. Len(candidates)
        BY <2>5, <3>1, <3>4
      <4> QED
        BY <2>5, <3>2, <4>1 DEF Followed
    <3> QED
      BY <3>3, <3>4
  <2>7. Len(candidates') <= 6
    BY <2>2, <2>5
  <2> QED
    BY <2>2, <2>5, <2>6, <2>7 DEF Followed
<1>2. CASE GiveUp
  BY <1>2 DEF GiveUp, Followed, BINARY_CANDIDATES
<1>3. CASE UNCHANGED thresholdVars
  BY <1>3 DEF thresholdVars, Followed
<1> QED
  BY <1>1, <1>2, <1>3 DEF ThresholdNext

\* The first three candidates are the probes, whatever they give.
LEMMA ProbesAreProposed ==
  ASSUME NEW rows \in Seq(Row), rows # <<>>, Len(rows) < 3,
         rows[1].threshold = 100 * Scale,
         Len(rows) = 2 => rows[2].threshold = 99 * Scale
  PROVE  /\ Len(rows) = 1 => ProposeThreshold(rows) = {99 * Scale}
         /\ Len(rows) = 2 => ProposeThreshold(rows) = {101 * Scale}
<1> DEFINE probe == IF Len(rows) = 1 THEN 99 * Scale ELSE 101 * Scale
<1>1. Scale \in Nat /\ Scale > 0 /\ Len(rows) \in {1, 2} /\ DOMAIN rows = 1 .. Len(rows)
  <2>1. Len(rows) \in Nat /\ Len(rows) # 0 /\ DOMAIN rows = 1 .. Len(rows)
    OBVIOUS
  <2> QED
    BY <2>1, ScaleAssumption
<1>2. \A i \in DOMAIN rows :
        \/ rows[i].threshold = 100 * Scale
        \/ rows[i].threshold = 99 * Scale /\ Len(rows) = 2
  BY <1>1
<1>3. Probe[Len(rows) + 1] = probe
  BY <1>1 DEF Probe
<1>4. \/ Anchor(rows).threshold = 100 * Scale
      \/ Anchor(rows).threshold = 99 * Scale /\ Len(rows) = 2
  <2>1. CASE Measured(rows) = {}
    BY <2>1 DEF Anchor
  <2>2. CASE Measured(rows) # {}
    <3>1. Anchor(rows) \in Measured(rows)
      BY <2>2, AnchorIsBest
    <3>2. PICK i \in DOMAIN rows : Anchor(rows) = rows[i]
      BY <3>1 DEF Measured
    <3> QED
      BY <1>2, <3>2
  <2> QED
    BY <2>1, <2>2
<1>5. /\ probe \in Int /\ 88 * Scale <= probe /\ probe <= 106 * Scale
      /\ Anchor(rows).threshold - 4 * Scale <= probe
      /\ probe <= Anchor(rows).threshold + 4 * Scale
  BY <1>1, <1>4
<1>6. \A i \in DOMAIN rows :
        5000 * (rows[i].threshold - probe) > Scale \/ 5000 * (probe - rows[i].threshold) > Scale
  BY <1>1, <1>2
<1>7. Usable(rows, probe)
  <2> HIDE DEF probe
  <2> QED
    BY <1>5, <1>6, UsableFacts
<1>8. ProposeThreshold(rows) = {probe}
  BY <1>3, <1>7 DEF ProposeThreshold
<1> QED
  BY <1>1, <1>8

LEMMA ProposedAt ==
  ASSUME Followed, NEW i \in 0 .. Len(candidates) - 1, NEW j, j = i + 1
  PROVE  /\ candidates[j].threshold \in ProposeThreshold(SubSeq(candidates, 1, i))
         /\ candidates[j] \in Row
<1>1. candidates \in Seq(Row) /\ Len(candidates) \in Nat /\ j \in 1 .. Len(candidates)
  <2>1. candidates \in Seq(Row) /\ Len(candidates) \in Nat
    BY DEF Followed
  <2> QED
    BY <2>1
<1> QED
  BY <1>1 DEF Followed

LEMMA FirstThree ==
  ASSUME Followed
  PROVE  /\ Len(candidates) >= 1 => candidates[1].threshold = 100 * Scale
         /\ Len(candidates) >= 2 => candidates[2].threshold = 99 * Scale
         /\ Len(candidates) >= 3 => candidates[3].threshold = 101 * Scale
<1>1. candidates \in Seq(Row) /\ Len(candidates) \in Nat
  BY DEF Followed
<1>2. \A i \in 0 .. Len(candidates) - 1 :
        /\ candidates[i + 1].threshold \in ProposeThreshold(SubSeq(candidates, 1, i))
        /\ SubSeq(candidates, 1, i) \in Seq(Row) /\ Len(SubSeq(candidates, 1, i)) = i
        /\ \A j \in 1 .. i : SubSeq(candidates, 1, i)[j] = candidates[j]
  BY <1>1 DEF Followed
<1>3. Len(candidates) >= 1 => candidates[1].threshold = 100 * Scale
  <2> HAVE Len(candidates) >= 1
  <2>1. 0 \in 0 .. Len(candidates) - 1 /\ 0 + 1 = 1
    BY <1>1
  <2>2. candidates[1].threshold \in ProposeThreshold(SubSeq(candidates, 1, 0)) /\ SubSeq(candidates, 1, 0) = <<>>
    BY <1>1, <1>2, <2>1
  <2>3. ProposeThreshold(<<>>) = {Probe[1]}
    BY DEF ProposeThreshold
  <2> QED
    BY <2>2, <2>3 DEF Probe
<1>4. Len(candidates) >= 2 => candidates[2].threshold = 99 * Scale
  <2> HAVE Len(candidates) >= 2
  <2> DEFINE rows == SubSeq(candidates, 1, 1)
  <2>1. 1 \in 0 .. Len(candidates) - 1 /\ 1 \in 1 .. 1 /\ 1 + 1 = 2
    BY <1>1
  <2>2. /\ candidates[2].threshold \in ProposeThreshold(rows)
        /\ rows \in Seq(Row) /\ Len(rows) = 1 /\ rows[1] = candidates[1]
    BY <1>2, <2>1
  <2>3. rows[1].threshold = 100 * Scale
    BY <1>1, <1>3, <2>2
  <2> HIDE DEF rows
  <2>4. rows # <<>> /\ Len(rows) < 3 /\ Len(rows) # 2
    <3>1. rows # <<>>
      <4>1. 1 # 0 /\ Len(<<>>) = 0
        OBVIOUS
      <4> QED
        BY <2>2, <4>1, Zenon
    <3> DEFINE n == Len(rows)
    <3>2. n = 1
      BY <2>2
    <3> HIDE DEF n
    <3>3. n < 3 /\ n # 2
      BY <3>2
    <3> QED
      BY <3>1, <3>3 DEF n
  <2>5. ProposeThreshold(rows) = {99 * Scale}
    BY <2>2, <2>3, <2>4, ProbesAreProposed
  <2> QED
    BY <2>2, <2>5
<1>5. Len(candidates) >= 3 => candidates[3].threshold = 101 * Scale
  <2> HAVE Len(candidates) >= 3
  <2> DEFINE rows == SubSeq(candidates, 1, 2)
  <2>1. 2 \in 0 .. Len(candidates) - 1 /\ 1 \in 1 .. 2 /\ 2 \in 1 .. 2 /\ 2 + 1 = 3
    BY <1>1
  <2>2. /\ candidates[3].threshold \in ProposeThreshold(rows)
        /\ rows \in Seq(Row) /\ Len(rows) = 2 /\ rows[1] = candidates[1] /\ rows[2] = candidates[2]
    BY <1>2, <2>1
  <2>3. rows[1].threshold = 100 * Scale /\ rows[2].threshold = 99 * Scale
    BY <1>1, <1>3, <1>4, <2>2
  <2> HIDE DEF rows
  <2>4. rows # <<>> /\ Len(rows) < 3
    BY <2>2, SMTT(30)
  <2>5. ProposeThreshold(rows) = {101 * Scale}
    BY <2>2, <2>3, <2>4, ProbesAreProposed
  <2> QED
    BY <2>2, <2>5
<1> QED
  BY <1>3, <1>4, <1>5

LEMMA FollowedIsProbed ==
  ASSUME Followed, Len(candidates) \in 3 .. 5
  PROVE  /\ Probed(candidates)
         /\ Probed(SubSeq(candidates, 1, 3)) /\ Len(SubSeq(candidates, 1, 3)) = 3
<1>1. candidates \in Seq(Row) /\ Scale \in Nat /\ DOMAIN candidates = 1 .. Len(candidates)
  BY ScaleAssumption DEF Followed
<1>2. /\ candidates[1].threshold = 100 * Scale
      /\ candidates[2].threshold = 99 * Scale
      /\ candidates[3].threshold = 101 * Scale
  BY FirstThree
<1>3. \A i \in DOMAIN candidates :
        88 * Scale <= candidates[i].threshold /\ candidates[i].threshold <= 106 * Scale
  <2> TAKE i \in DOMAIN candidates
  <2>1. CASE i = 1
    BY <1>1, <1>2, <2>1
  <2>2. CASE i # 1
    <3> DEFINE rows == SubSeq(candidates, 1, i - 1)
    <3>1. i - 1 \in 0 .. Len(candidates) - 1 /\ i - 1 \in 0 .. Len(candidates) /\ i - 1 # 0 /\ (i - 1) + 1 = i
      BY <1>1, <2>2
    <3>2. candidates[i].threshold \in ProposeThreshold(rows)
      BY <3>1 DEF Followed
    <3>3. rows \in Seq(Row) /\ Len(rows) = i - 1
      BY <1>1, <3>1, Befores
    <3> HIDE DEF rows
    <3>4. rows # <<>>
      BY <3>1, <3>3
    <3>5. candidates[i].threshold \in Nat /\ Usable(rows, candidates[i].threshold)
      BY <3>2, <3>3, <3>4, ProposedIsUsable
    <3> QED
      BY <3>3, <3>4, <3>5, UsableFacts
  <2> QED
    BY <2>1, <2>2
<1>4. Probed(candidates)
  BY <1>1, <1>2, <1>3 DEF Probed
<1> DEFINE three == SubSeq(candidates, 1, 3)
<1>5. /\ three \in Seq(Row) /\ Len(three) = 3 /\ DOMAIN three = {1, 2, 3}
      /\ \A i \in {1, 2, 3} : three[i] = candidates[i] /\ i \in DOMAIN candidates
  <2>1. 3 \in 0 .. Len(candidates) /\ \A i \in {1, 2, 3} : i \in DOMAIN candidates
    BY <1>1
  <2>2. three \in Seq(Row) /\ Len(three) = 3
    BY <1>1, <2>1, Befores
  <2>3. \A i \in 1 .. 3 : three[i] = candidates[i]
    BY <1>1, <2>1
  <2> HIDE DEF three
  <2>4. DOMAIN three = {1, 2, 3} /\ \A i \in {1, 2, 3} : i \in 1 .. 3
    BY <2>2
  <2> QED
    BY <2>1, <2>2, <2>3, <2>4
<1> HIDE DEF three
<1>6. Probed(three)
  BY <1>2, <1>3, <1>5 DEF Probed
<1> QED
  BY <1>4, <1>5, <1>6 DEF three

LEMMA AnchorReaches ==
  ASSUME Followed, Len(candidates) \in 3 .. 5, Brackets(candidates) # {},
         \A i \in DOMAIN candidates : ~Within(candidates[i].threshold, Narrowest(candidates))
  PROVE  Reached(Anchor(candidates).threshold, Narrowest(candidates))
<1> DEFINE three == SubSeq(candidates, 1, 3)
           four == SubSeq(candidates, 1, 4)
<1>1. candidates \in Seq(Row) /\ Probed(candidates) /\ Probed(three) /\ Len(three) = 3
  BY FollowedIsProbed DEF Followed
<1>2. CASE Len(candidates) = 3
  <2>1. Among(candidates)
    BY <1>1, <1>2, AmongProbes
  <2> QED
    BY <1>1, <2>1, AmongIsReached
<1>3. CASE Len(candidates) = 4
  <2>1. 3 \in 0 .. Len(candidates) - 1 /\ 3 \in 0 .. Len(candidates) /\ 3 < Len(candidates) /\ 3 + 1 = 4
    BY <1>3
  <2>2. candidates[4].threshold \in ProposeThreshold(three) /\ candidates[4] \in Row
    BY <1>1, <1>3, <2>1, ProposedAt
  <2>3. SubSeq(candidates, 1, 4) = Append(three, candidates[4]) /\ SubSeq(candidates, 1, 4) = candidates
    BY <1>1, <1>3, <2>1, Befores
  <2> HIDE DEF three
  <2>4. candidates = Append(three, candidates[4])
    BY <2>3
  <2>5. Brackets(Append(three, candidates[4])) # {}
    BY <2>4
  <2>6. Reached(Anchor(Append(three, candidates[4])).threshold, Narrowest(Append(three, candidates[4])))
    BY <1>1, <2>2, <2>5, ReachOfFour
  <2> QED
    BY <2>4, <2>6
<1>4. CASE Len(candidates) = 5
  <2> DEFINE fourth == candidates[4]
             fifth == candidates[5]
             all == Append(Append(three, fourth), fifth)
  <2>1. /\ 3 \in 0 .. Len(candidates) - 1 /\ 3 \in 0 .. Len(candidates) /\ 3 < Len(candidates) /\ 3 + 1 = 4
        /\ 4 \in 0 .. Len(candidates) - 1 /\ 4 \in 0 .. Len(candidates) /\ 4 < Len(candidates) /\ 4 + 1 = 5
    BY <1>4
  <2>2. fourth.threshold \in ProposeThreshold(three) /\ fourth \in Row
    BY <1>1, <1>4, <2>1, ProposedAt
  <2>3. fifth.threshold \in ProposeThreshold(four) /\ fifth \in Row
    BY <1>1, <1>4, <2>1, ProposedAt
  <2>4. four = Append(three, fourth)
    BY <1>1, <2>1, Befores
  <2>5. SubSeq(candidates, 1, 5) = Append(four, fifth) /\ SubSeq(candidates, 1, 5) = candidates
    BY <1>1, <1>4, <2>1, Befores
  <2>6. candidates = all
    BY <2>4, <2>5
  <2>7. fifth.threshold \in ProposeThreshold(Append(three, fourth))
    BY <2>3, <2>4
  <2>8. /\ Brackets(all) # {}
        /\ \A i \in DOMAIN all : ~Within(all[i].threshold, Narrowest(all))
    <3> HIDE DEF all
    <3> QED
      BY <2>6
  <2> HIDE DEF three, four, fourth, fifth
  <2>9. Reached(Anchor(all).threshold, Narrowest(all))
    <3>1. CASE Brackets(three) # {}
      BY <1>1, <2>2, <2>3, <2>7, <3>1, ReachAmong
    <3>2. CASE Brackets(three) = {} /\ Brackets(Append(three, fourth)) # {}
      BY <1>1, <2>2, <2>3, <2>7, <2>8, <3>2, ReachAfterFourth
    <3>3. CASE Brackets(Append(three, fourth)) = {}
      BY <1>1, <2>2, <2>3, <2>7, <2>8, <3>3, ReachAfterFifth
    <3> QED
      BY <3>1, <3>2, <3>3
  <2> QED
    <3> HIDE DEF all
    <3> QED
      BY <2>6, <2>9
<1> QED
  BY <1>2, <1>3, <1>4

LEMMA GivenUpForAReason ==
  ASSUME Followed, given
  PROVE  /\ Brackets(candidates) # {}
         /\ \/ \E i \in DOMAIN candidates :
                 /\ Within(candidates[i].threshold, Narrowest(candidates))
                 /\ candidates[i].f \in {0, None}
            \/ ~Apart(Width(Narrowest(candidates)) \div 2, 0)
<1>1. /\ candidates \in Seq(Row) /\ Len(candidates) \in 0 .. 5
      /\ ProposeThreshold(candidates) = {}
  <2>1. /\ candidates \in Seq(Row) /\ Len(candidates) < 6
        /\ ProposeThreshold(candidates) = {}
    BY DEF Followed
  <2> DEFINE n == Len(candidates)
  <2>2. n \in Nat /\ n < 6
    BY <2>1
  <2> HIDE DEF n
  <2>3. n \in 0 .. 5
    BY <2>2
  <2> QED
    BY <2>1, <2>3 DEF n
<1>2. Len(candidates) \in 3 .. 5
  <2> SUFFICES ASSUME Len(candidates) \in 0 .. 2 PROVE FALSE
    BY <1>1
  <2>1. CASE Len(candidates) = 0
    <3>1. candidates = <<>>
      BY <1>1, <2>1
    <3> QED
      BY <1>1, <3>1 DEF ProposeThreshold
  <2>2. CASE Len(candidates) \in {1, 2}
    <3>1. /\ candidates # <<>> /\ Len(candidates) < 3
          /\ candidates[1].threshold = 100 * Scale
          /\ Len(candidates) = 2 => candidates[2].threshold = 99 * Scale
      <4>1. candidates # <<>>
        <5>1. Len(<<>>) = 0
          OBVIOUS
        <5> QED
          BY <2>2, <5>1
      <4>2. Len(candidates) >= 1 /\ Len(candidates) < 3
        <5> DEFINE n == Len(candidates)
        <5>1. n \in {1, 2}
          BY <2>2
        <5> HIDE DEF n
        <5>2. n >= 1 /\ n < 3
          BY <5>1
        <5> QED
          BY <5>2 DEF n
      <4>3. Len(candidates) = 2 => Len(candidates) >= 2
        OBVIOUS
      <4> QED
        BY <4>1, <4>2, <4>3, FirstThree
    <3> QED
      BY <1>1, <2>2, <3>1, ProbesAreProposed, ZenonT(60)
  <2> QED
    BY <2>1, <2>2
<1>3. Probed(candidates) /\ candidates # <<>> /\ ~(Len(candidates) < 3)
  <2>1. Probed(candidates)
    BY <1>2, FollowedIsProbed
  <2>2. ~(Len(candidates) < 3)
    BY <1>2
  <2> QED
    BY <2>1, <2>2, ProbedFacts
<1>4. Brackets(candidates) # {} /\ ProposedInside(candidates) = {}
  <2>1. CASE Brackets(candidates) = {}
    BY <1>1, <1>3, <2>1, OutsideIsNotEmpty DEF ProposeThreshold
  <2>2. CASE Brackets(candidates) # {}
    BY <1>1, <1>3, <2>2 DEF ProposeThreshold
  <2> QED
    BY <2>1, <2>2
<1>5. ASSUME NEW i \in DOMAIN candidates, Within(candidates[i].threshold, Narrowest(candidates))
      PROVE  candidates[i].f \in {0, None}
  BY <1>1, <1>4, <1>5, InteriorIsSpent
<1>6. ASSUME \A i \in DOMAIN candidates : ~Within(candidates[i].threshold, Narrowest(candidates))
      PROVE  ~Apart(Width(Narrowest(candidates)) \div 2, 0)
  <2>1. Reached(Anchor(candidates).threshold, Narrowest(candidates))
    BY <1>2, <1>4, <1>6, AnchorReaches
  <2> QED
    BY <1>3, <1>4, <1>6, <2>1, MiddleIsFresh
<1> QED
  BY <1>4, <1>5, <1>6

\* The search ends early only over a bracket in which one was balanced or gave no
\* ratio, or the middle of which would repeat an end, whatever is measured at whatever
\* resolution; until then the brackets are nested (propose_threshold).
THEOREM SearchEndsOverABracket == ThresholdSpec => []BracketsClose
<1>1. ThresholdInit => Followed
  BY ProbesAreProposed DEF ThresholdInit, Followed
<1>2. Followed /\ BracketsNest => BracketsClose
  BY GivenUpForAReason DEF BracketsClose
<1> QED
  BY <1>1, <1>2, FollowedStep, BracketsAreNested, PTL DEF ThresholdSpec
=============================================================================
