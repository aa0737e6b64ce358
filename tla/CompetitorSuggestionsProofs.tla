-------------------- MODULE CompetitorSuggestionsProofs --------------------
(***************************************************************************)
(* Proofs about CompetitorSuggestions: types, that the tally is earned,    *)
(* that the suggestion goes through the life SuggestionLifecycle gives it, *)
(* and that none is promoted in vain.                                      *)
(***************************************************************************)
EXTENDS CompetitorSuggestions, FiniteSetTheorems, TLAPS

Holders == {"save", "findWinner", "saveWinner"}

Earned(row, n) == Cardinality(row.keywords) <= row.total /\ row.total <= n

\* What a job t whose record is s may rely on when the row of the table is g
\* and the hits of S were saved.  A row it holds that is not pending is refused.
HitSound(t, s, g, S) ==
    /\ s.pc # "create"
    /\ s.row # NoSuggestion <=> (s.pc \in Holders)
    /\ s.pc # "done" => t \notin S /\ (g # NoSuggestion => g.id # t)
    /\ s.pc \in Holders => (s.row.id # t => g # NoSuggestion)
    /\ s.pc = "findWinner" => g # NoSuggestion
    /\ s.pc \in {"save", "saveWinner"} =>
          IF s.row.status = "PENDING"
          THEN Earned(s.row, Cardinality(S) + 1)
          ELSE g # NoSuggestion /\ g.status # "PENDING" /\ s.row.id # t

\* The same of an operator's call; W are the winners.
OperatorSound(t, s, g, S, W) ==
    /\ s.pc \in {"ready", "save", "create", "done"}
    /\ s.row # NoSuggestion <=> (s.pc = "save")
    /\ s.pc = "save" => s.row.status = Verdict(t) /\ Earned(s.row, Cardinality(S))
    /\ s.pc = "create" => /\ t \in Promotes /\ t \in W
                          /\ g # NoSuggestion /\ g.status = "PROMOTED"

HitsSound == \A t \in Hits : HitSound(t, task[t], suggestion, saved)
OperatorsSound ==
    \A t \in Judges : OperatorSound(t, task[t], suggestion, saved, winners)

IInv == SuggestionTypeOK /\ TallyIsEarned /\ HitsSound /\ OperatorsSound

-----------------------------------------------------------------------------
\* Records and cardinalities.

LEMMA AtType ==
    ASSUME NEW pc \in TaskPC
    PROVE  At(pc) \in Task /\ At(pc).pc = pc /\ At(pc).row = NoSuggestion
BY DEF At, Task

LEMMA HoldingType ==
    ASSUME NEW pc \in TaskPC, NEW row \in Row
    PROVE  /\ Holding(pc, row) \in Task
           /\ Holding(pc, row).pc = pc /\ Holding(pc, row).row = row
           /\ row # NoSuggestion
BY NoSuggestionAssumption DEF Holding, Task

\* The keywords of a row are finitely many, and one more adds at most one.
LEMMA KeywordCount ==
    ASSUME NEW K \in SUBSET Keywords, NEW k \in Keywords
    PROVE  /\ Cardinality(K) \in Nat
           /\ Cardinality({k}) = 1
           /\ Cardinality(K \cup {k}) <= Cardinality(K) + 1
<1>1. IsFiniteSet(K)
    BY FS_Subset, TallyAssumption
<1>2. Cardinality(K \cup {k}) = IF k \in K THEN Cardinality(K) ELSE Cardinality(K) + 1
    BY <1>1, FS_AddElement
<1>3. Cardinality(K) \in Nat
    BY <1>1, FS_CardinalityType
<1>4. Cardinality({k}) = 1
    BY FS_Singleton
<1> QED BY <1>2, <1>3, <1>4

\* Saving a hit that was not saved yet adds one to what was saved.
LEMMA SavedCount ==
    ASSUME NEW S \in SUBSET Hits, NEW t \in Hits
    PROVE  /\ Cardinality(S) \in Nat
           /\ Cardinality(S \cup {t}) \in Nat
           /\ Cardinality(S) <= Cardinality(S \cup {t})
           /\ t \notin S => Cardinality(S \cup {t}) = Cardinality(S) + 1
<1>1. IsFiniteSet(S) /\ IsFiniteSet(S \cup {t})
    BY FS_Subset, TallyAssumption
<1>2. Cardinality(S \cup {t}) = IF t \in S THEN Cardinality(S) ELSE Cardinality(S) + 1
    BY <1>1, FS_AddElement
<1> QED BY <1>1, <1>2, FS_CardinalityType

\* The rows a job and an operator put together.
LEMMA ObservedLemma ==
    ASSUME NEW t \in Hits, NEW k \in Keywords
    PROVE  /\ Observed(t, k) \in Row
           /\ Observed(t, k).id = t /\ Observed(t, k).status = "PENDING"
           /\ Observed(t, k).keywords = {k} /\ Observed(t, k).total = 1
BY DEF Observed, Row, SuggestionStatuses

LEMMA WithHitLemma ==
    ASSUME NEW row \in Row, NEW k \in Keywords, NEW n \in Nat,
           row.total <= n, Cardinality(row.keywords) <= row.total
    PROVE  /\ WithHit(row, k) \in Row
           /\ WithHit(row, k).id = row.id /\ WithHit(row, k).status = row.status
           /\ row.status = "PENDING" => Earned(WithHit(row, k), n + 1)
<1>1. CASE row.status # "PENDING"
    BY <1>1 DEF WithHit
<1>2. CASE row.status = "PENDING"
    <2> DEFINE K == row.keywords \cup {k}
               m == row.total + 1
               new == [row EXCEPT !.keywords = K, !.total = m]
    <2>1. WithHit(row, k) = new
        BY <1>2 DEF WithHit
    <2>2. /\ K \in SUBSET Keywords /\ m \in Nat \ {0} /\ m <= n + 1
          /\ Cardinality(K) <= m
        <3>1. row.keywords \in SUBSET Keywords /\ row.total \in Nat
            BY DEF Row
        <3>2. /\ Cardinality(row.keywords) \in Nat
              /\ Cardinality(K) <= Cardinality(row.keywords) + 1
            BY <3>1, KeywordCount
        <3>3. K \in SUBSET Keywords
            BY <3>1
        <3>4. Cardinality(K) \in Nat
            BY <3>3, KeywordCount
        <3> QED BY <3>1, <3>2, <3>3, <3>4
    <2> HIDE DEF K, m
    <2>3. /\ new \in Row /\ new.id = row.id /\ new.status = row.status
          /\ new.keywords = K /\ new.total = m
        BY <2>2 DEF Row
    <2> HIDE DEF new
    <2> QED BY <2>1, <2>2, <2>3 DEF Earned
<1> QED BY <1>1, <1>2

LEMMA JudgedLemma ==
    ASSUME NEW row \in Row, NEW t \in Judges
    PROVE  LET new == [row EXCEPT !.status = Verdict(t)]
           IN /\ new \in Row /\ new.status = Verdict(t)
              /\ new.keywords = row.keywords /\ new.total = row.total
BY DEF Row, SuggestionStatuses, Verdict

\* What the table holds after a save that was accepted.
LEMMA WrittenLemma ==
    ASSUME SuggestionTypeOK, NEW row \in Row
    PROVE  /\ Written(row) \in Row
           /\ Written(row).keywords = row.keywords
           /\ Written(row).total = row.total
           /\ suggestion = NoSuggestion \/ row.status # "PENDING" => Written(row) = row
           /\ suggestion # NoSuggestion /\ row.status = "PENDING" =>
                 Written(row).id = suggestion.id /\ Written(row).status = suggestion.status
<1>1. CASE suggestion = NoSuggestion \/ row.status # "PENDING"
    BY <1>1 DEF Written
<1>2. CASE suggestion # NoSuggestion /\ row.status = "PENDING"
    <2>1. suggestion \in Row
        BY <1>2 DEF SuggestionTypeOK
    <2>2. Written(row) = [suggestion EXCEPT !.keywords = row.keywords, !.total = row.total]
        BY <1>2 DEF Written
    <2> QED BY <1>2, <2>1, <2>2 DEF Row
<1> QED BY <1>1, <1>2

-----------------------------------------------------------------------------
\* Steps.

LEMMA InitSound == SuggestionInit => IInv
<1> SUFFICES ASSUME SuggestionInit PROVE IInv
    OBVIOUS
<1>1. At("ready") \in Task /\ At("ready").pc = "ready" /\ At("ready").row = NoSuggestion
    BY AtType DEF TaskPC
<1>2. \A t \in Tasks : task[t] = At("ready")
    BY DEF SuggestionInit
<1>3. SuggestionTypeOK
    <2>1. task \in [Tasks -> Task]
        BY <1>1 DEF SuggestionInit
    <2>2. suggestionFaults \in 0 .. MaxSuggestionFaults
        BY SuggestionBoundAssumption DEF SuggestionInit
    <2>3. dropped \in BOOLEAN /\ competitor \in BOOLEAN
        BY Zenon DEF SuggestionInit
    <2> QED BY <2>1, <2>2, <2>3 DEF SuggestionInit, SuggestionTypeOK
<1>4. HitsSound
    <2> SUFFICES ASSUME NEW t \in Hits PROVE HitSound(t, At("ready"), NoSuggestion, {})
        BY <1>2 DEF HitsSound, SuggestionInit, Tasks
    <2> QED BY <1>1 DEF HitSound, Holders
<1>5. OperatorsSound
    <2> SUFFICES ASSUME NEW t \in Judges PROVE OperatorSound(t, At("ready"), NoSuggestion, {}, {})
        BY <1>2 DEF OperatorsSound, SuggestionInit, Tasks
    <2> QED BY <1>1 DEF OperatorSound
<1>6. TallyIsEarned
    BY DEF SuggestionInit, TallyIsEarned
<1> QED BY <1>3, <1>4, <1>5, <1>6 DEF IInv

\* A step that takes one task on and leaves the suggestion alone.
LEMMA QuietStep ==
    ASSUME IInv, NEW t \in Tasks, NEW s \in Task,
           task' = [task EXCEPT ![t] = s],
           UNCHANGED <<suggestion, saved, winners>>,
           suggestionFaults' \in 0 .. MaxSuggestionFaults, competitor' \in BOOLEAN,
           created' \subseteq Promotes, dropped' \in BOOLEAN,
           t \in Hits => HitSound(t, s, suggestion, saved),
           t \in Judges => OperatorSound(t, s, suggestion, saved, winners)
    PROVE  IInv'
<1>1. task'[t] = s /\ \A u \in Tasks \ {t} : task'[u] = task[u]
    BY DEF IInv, SuggestionTypeOK
<1>2. SuggestionTypeOK'
    BY DEF IInv, SuggestionTypeOK
<1>3. HitsSound'
    <2> SUFFICES ASSUME NEW u \in Hits PROVE HitSound(u, task'[u], suggestion, saved)
        BY DEF HitsSound
    <2>1. CASE u = t
        BY <2>1, <1>1
    <2>2. CASE u # t
        BY <2>2, <1>1 DEF IInv, HitsSound, Tasks
    <2> QED BY <2>1, <2>2
<1>4. OperatorsSound'
    <2> SUFFICES ASSUME NEW u \in Judges
                 PROVE  OperatorSound(u, task'[u], suggestion, saved, winners)
        BY DEF OperatorsSound
    <2>1. CASE u = t
        BY <2>1, <1>1
    <2>2. CASE u # t
        BY <2>2, <1>1 DEF IInv, OperatorsSound, Tasks
    <2> QED BY <2>1, <2>2
<1>5. TallyIsEarned'
    BY DEF IInv, TallyIsEarned
<1> QED BY <1>2, <1>3, <1>4, <1>5 DEF IInv

\* A task that is done relies on nothing.
LEMMA DoneSound ==
    /\ At("done") \in Task
    /\ \A t, g, S : HitSound(t, At("done"), g, S)
    /\ \A t, g, S, W : OperatorSound(t, At("done"), g, S, W)
<1>1. At("done") \in Task /\ At("done").pc = "done" /\ At("done").row = NoSuggestion
    BY AtType DEF TaskPC
<1>2. \A t, g, S : HitSound(t, At("done"), g, S)
    BY <1>1 DEF HitSound, Holders
<1>3. \A t, g, S, W : OperatorSound(t, At("done"), g, S, W)
    BY <1>1 DEF OperatorSound
<1> QED BY <1>1, <1>2, <1>3

\* A step that changes neither the suggestion nor a task.
LEMMA StutterStep ==
    ASSUME IInv, UNCHANGED <<suggestion, task, suggestionFaults, saved, winners, created>>,
           competitor' \in BOOLEAN, dropped' \in BOOLEAN
    PROVE  IInv'
BY DEF IInv, SuggestionTypeOK, TallyIsEarned, HitsSound, OperatorsSound

LEMMA FilterStep == ASSUME IInv, NEW t \in Hits, Filter(t) PROVE IInv'
<1>1. CASE competitor
    <2>1. task' = [task EXCEPT ![t] = At("done")]
        BY <1>1 DEF Filter
    <2>2. t \in Tasks /\ t \notin Judges
        BY TasksAssumption DEF Tasks
    <2> QED BY <2>1, <2>2, DoneSound, QuietStep DEF Filter, tallies, IInv, SuggestionTypeOK
<1>2. CASE ~competitor
    <2>1. task' = [task EXCEPT ![t] = At("find")]
        BY <1>2 DEF Filter
    <2>2. t \in Tasks /\ t \notin Judges
        BY TasksAssumption DEF Tasks
    <2>3. At("find") \in Task /\ At("find").pc = "find" /\ At("find").row = NoSuggestion
        BY AtType DEF TaskPC
    <2>4. HitSound(t, At("find"), suggestion, saved)
        <3>1. HitSound(t, task[t], suggestion, saved) /\ task[t].pc = "ready"
            BY DEF IInv, HitsSound, Filter
        <3> QED BY <3>1, <2>3 DEF HitSound, Holders
    <2> QED BY <2>1, <2>2, <2>3, <2>4, QuietStep DEF Filter, tallies, IInv, SuggestionTypeOK
<1> QED BY <1>1, <1>2

LEMMA FindStep == ASSUME IInv, NEW t \in Hits, Find(t) PROVE IInv'
<1>1. t \in Tasks /\ t \notin Judges
    BY TasksAssumption DEF Tasks
<1> DEFINE Row1(k) == IF suggestion = NoSuggestion THEN Observed(t, k) ELSE WithHit(suggestion, k)
<1>2. PICK k \in Keywords : task' = [task EXCEPT ![t] = Holding("save", Row1(k))]
    BY DEF Find
<1>3. HitSound(t, task[t], suggestion, saved) /\ task[t].pc = "find"
    BY DEF IInv, HitsSound, Find
<1>4. t \notin saved /\ (suggestion # NoSuggestion => suggestion.id # t)
    BY <1>3 DEF HitSound
<1>5. Cardinality(saved) \in Nat
    BY SavedCount DEF IInv, SuggestionTypeOK
<1> DEFINE row == Row1(k)
<1>6. /\ row \in Row
      /\ IF row.status = "PENDING"
         THEN Earned(row, Cardinality(saved) + 1)
         ELSE suggestion # NoSuggestion /\ suggestion.status # "PENDING"
      /\ row.id # t => suggestion # NoSuggestion
      /\ row.status # "PENDING" => row.id # t
    <2>1. CASE suggestion = NoSuggestion
        <3>1. Row1(k) = Observed(t, k)
            BY <2>1
        <3>2. Cardinality({k}) = 1
            BY KeywordCount
        <3>3. /\ Observed(t, k) \in Row
              /\ Observed(t, k).id = t /\ Observed(t, k).status = "PENDING"
              /\ Observed(t, k).keywords = {k} /\ Observed(t, k).total = 1
            BY ObservedLemma
        <3>4. Earned(Observed(t, k), Cardinality(saved) + 1)
            BY <3>2, <3>3, <1>5 DEF Earned
        <3> QED BY <3>1, <3>3, <3>4
    <2>2. CASE suggestion # NoSuggestion
        <3>1. Row1(k) = WithHit(suggestion, k)
            BY <2>2
        <3>2. /\ suggestion \in Row
              /\ Cardinality(suggestion.keywords) <= suggestion.total
              /\ suggestion.total <= Cardinality(saved)
            BY <2>2 DEF IInv, SuggestionTypeOK, TallyIsEarned
        <3>3. /\ WithHit(suggestion, k) \in Row
              /\ WithHit(suggestion, k).id = suggestion.id
              /\ WithHit(suggestion, k).status = suggestion.status
              /\ suggestion.status = "PENDING" =>
                    Earned(WithHit(suggestion, k), Cardinality(saved) + 1)
            BY <3>2, <1>5, WithHitLemma
        <3> QED BY <3>1, <3>3, <2>2, <1>4
    <2> QED BY <2>1, <2>2
<1> HIDE DEF row
<1>7. /\ Holding("save", row) \in Task
      /\ Holding("save", row).pc = "save" /\ Holding("save", row).row = row
      /\ row # NoSuggestion
    BY <1>6, HoldingType DEF TaskPC
<1>8. HitSound(t, Holding("save", row), suggestion, saved)
    BY <1>4, <1>6, <1>7 DEF HitSound, Holders
<1>9. task' = [task EXCEPT ![t] = Holding("save", row)]
    BY <1>2 DEF row
<1> QED BY <1>1, <1>7, <1>8, <1>9, QuietStep DEF Find, tallies, IInv, SuggestionTypeOK

LEMMA FindWinnerStep == ASSUME IInv, NEW t \in Hits, FindWinner(t) PROVE IInv'
<1>1. t \in Tasks /\ t \notin Judges
    BY TasksAssumption DEF Tasks
<1>2. /\ HitSound(t, task[t], suggestion, saved) /\ task[t].pc = "findWinner"
      /\ task[t] \in Task
    BY <1>1 DEF IInv, SuggestionTypeOK, HitsSound, FindWinner
<1>3. /\ t \notin saved /\ suggestion # NoSuggestion /\ suggestion.id # t
      /\ task[t].row # NoSuggestion /\ task[t].row \in Row
    BY <1>2 DEF HitSound, Holders, Task
<1>4. PICK k \in task[t].row.keywords :
          task' = [task EXCEPT ![t] = Holding("saveWinner", WithHit(suggestion, k))]
    BY DEF FindWinner
<1>5. k \in Keywords
    BY <1>3, <1>4 DEF Row
<1>6. Cardinality(saved) \in Nat
    BY SavedCount DEF IInv, SuggestionTypeOK
<1>7. /\ suggestion \in Row
      /\ Cardinality(suggestion.keywords) <= suggestion.total
      /\ suggestion.total <= Cardinality(saved)
    BY <1>3 DEF IInv, SuggestionTypeOK, TallyIsEarned
<1> DEFINE row == WithHit(suggestion, k)
<1>8. /\ row \in Row /\ row.id = suggestion.id /\ row.status = suggestion.status
      /\ suggestion.status = "PENDING" => Earned(row, Cardinality(saved) + 1)
    BY <1>5, <1>6, <1>7, WithHitLemma
<1> HIDE DEF row
<1>9. /\ Holding("saveWinner", row) \in Task
      /\ Holding("saveWinner", row).pc = "saveWinner"
      /\ Holding("saveWinner", row).row = row
      /\ row # NoSuggestion
    BY <1>8, HoldingType DEF TaskPC
<1>10. HitSound(t, Holding("saveWinner", row), suggestion, saved)
    BY <1>3, <1>8, <1>9 DEF HitSound, Holders
<1>11. task' = [task EXCEPT ![t] = Holding("saveWinner", row)]
    BY <1>4 DEF row
<1> QED BY <1>1, <1>9, <1>10, <1>11, QuietStep DEF FindWinner, tallies, IInv, SuggestionTypeOK

\* What a saved suggestion keeps: its id, and a verdict once it has one.
Kept(g, h) ==
    g # NoSuggestion => h # NoSuggestion /\ h.id = g.id /\ (g.status # "PENDING" => h.status = g.status)

\* The other tasks after the step of one.
LEMMA OthersSound ==
    ASSUME IInv, NEW t \in Tasks, NEW h, NEW S \in SUBSET Hits, NEW W,
           NEW u \in Tasks \ {t},
           Kept(suggestion, h), h # NoSuggestion,
           suggestion = NoSuggestion => h.id = t,
           S = saved \/ S = saved \cup {t}, winners \subseteq W
    PROVE  /\ u \in Hits => HitSound(u, task[u], h, S)
           /\ u \in Judges => OperatorSound(u, task[u], h, S, W)
<1>1. /\ Cardinality(saved) \in Nat /\ Cardinality(S) \in Nat
      /\ Cardinality(saved) <= Cardinality(S)
    <2>1. saved \in SUBSET Hits
        BY DEF IInv, SuggestionTypeOK
    <2>2. IsFiniteSet(saved) /\ IsFiniteSet(S)
        BY <2>1, FS_Subset, TallyAssumption
    <2>3. saved \subseteq S
        OBVIOUS
    <2> QED BY <2>2, <2>3, FS_CardinalityType, FS_Subset
<1>2. task[u] \in Task
    BY DEF IInv, SuggestionTypeOK
<1>3. ASSUME task[u].row # NoSuggestion PROVE task[u].row.total \in Nat
    BY <1>2, <1>3 DEF Task, Row
<1>4. ASSUME u \in Hits PROVE HitSound(u, task[u], h, S)
    <2>1. HitSound(u, task[u], suggestion, saved)
        BY <1>4 DEF IInv, HitsSound
    <2>2. task[u].pc # "done" => u \notin S /\ h.id # u
        BY <2>1 DEF HitSound, Kept
    <2>3. ASSUME task[u].row # NoSuggestion, Earned(task[u].row, Cardinality(saved) + 1)
          PROVE  Earned(task[u].row, Cardinality(S) + 1)
        BY <2>3, <1>1, <1>3 DEF Earned
    <2>4. suggestion # NoSuggestion /\ suggestion.status # "PENDING" => h.status # "PENDING"
        BY DEF Kept
    <2>5. task[u].pc \in {"save", "saveWinner"} => task[u].row # NoSuggestion
        BY <2>1 DEF HitSound, Holders
    <2>6. ASSUME task[u].pc \in {"save", "saveWinner"}
          PROVE  IF task[u].row.status = "PENDING"
                 THEN Earned(task[u].row, Cardinality(S) + 1)
                 ELSE h # NoSuggestion /\ h.status # "PENDING" /\ task[u].row.id # u
        BY <2>1, <2>3, <2>4, <2>5, <2>6 DEF HitSound
    <2>7. task[u].pc # "create" /\ (task[u].row # NoSuggestion <=> task[u].pc \in Holders)
        BY <2>1 DEF HitSound
    <2> QED BY <2>2, <2>6, <2>7 DEF HitSound
<1>5. ASSUME u \in Judges PROVE OperatorSound(u, task[u], h, S, W)
    <2>1. OperatorSound(u, task[u], suggestion, saved, winners)
        BY <1>5 DEF IInv, OperatorsSound
    <2>2. ASSUME task[u].row # NoSuggestion, Earned(task[u].row, Cardinality(saved))
          PROVE  Earned(task[u].row, Cardinality(S))
        BY <2>2, <1>1, <1>3 DEF Earned
    <2>3. suggestion # NoSuggestion /\ suggestion.status = "PROMOTED" => h.status = "PROMOTED"
        BY DEF Kept
    <2> QED BY <2>1, <2>2, <2>3 DEF OperatorSound
<1> QED BY <1>4, <1>5

\* A step that saves the row of a task that is done with it, or goes on to s.
LEMMA SaveStep ==
    ASSUME IInv, NEW t \in Tasks, NEW s \in Task,
           task' = [task EXCEPT ![t] = s],
           suggestion' \in Row, Kept(suggestion, suggestion'),
           suggestion = NoSuggestion => suggestion'.id = t,
           saved' = saved \/ (t \in Hits /\ saved' = saved \cup {t}),
           winners' = winners \/ (t \in Judges /\ winners' = winners \cup {t}),
           UNCHANGED <<competitor, suggestionFaults, created, dropped>>,
           Cardinality(suggestion'.keywords) <= suggestion'.total,
           suggestion'.total <= Cardinality(saved'),
           t \in Hits => HitSound(t, s, suggestion', saved'),
           t \in Judges => OperatorSound(t, s, suggestion', saved', winners')
    PROVE  IInv'
<1>1. task'[t] = s /\ \A u \in Tasks \ {t} : task'[u] = task[u]
    BY DEF IInv, SuggestionTypeOK
<1>2. /\ suggestion' # NoSuggestion /\ saved' \in SUBSET Hits
      /\ saved' = saved \/ saved' = saved \cup {t}
      /\ winners \subseteq winners' /\ winners' \subseteq Judges
    BY NoSuggestionAssumption DEF IInv, SuggestionTypeOK
<1>3. SuggestionTypeOK'
    BY <1>2 DEF IInv, SuggestionTypeOK
<1>4. \A u \in Tasks \ {t} :
          /\ u \in Hits => HitSound(u, task[u], suggestion', saved')
          /\ u \in Judges => OperatorSound(u, task[u], suggestion', saved', winners')
    BY <1>2, OthersSound
<1>5. HitsSound'
    <2> SUFFICES ASSUME NEW u \in Hits PROVE HitSound(u, task'[u], suggestion', saved')
        BY DEF HitsSound
    <2>1. CASE u = t
        BY <2>1, <1>1
    <2>2. CASE u # t
        BY <2>2, <1>1, <1>4 DEF Tasks
    <2> QED BY <2>1, <2>2
<1>6. OperatorsSound'
    <2> SUFFICES ASSUME NEW u \in Judges
                 PROVE  OperatorSound(u, task'[u], suggestion', saved', winners')
        BY DEF OperatorsSound
    <2>1. CASE u = t
        BY <2>1, <1>1
    <2>2. CASE u # t
        BY <2>2, <1>1, <1>4 DEF Tasks
    <2> QED BY <2>1, <2>2
<1>7. TallyIsEarned'
    BY DEF TallyIsEarned
<1> QED BY <1>3, <1>5, <1>6, <1>7 DEF IInv

\* What an accepted hit and an accepted verdict do to the suggestion.
LEMMA AcceptedHit ==
    ASSUME IInv, NEW t \in Hits, task[t].pc \in {"save", "saveWinner"},
           Accepts(task[t].row)
    PROVE  /\ task[t].row \in Row /\ task[t].row.status = "PENDING"
           /\ Earned(task[t].row, Cardinality(saved) + 1)
           /\ t \notin saved
           /\ Written(task[t].row) \in Row
           /\ Kept(suggestion, Written(task[t].row))
           /\ suggestion = NoSuggestion => /\ Written(task[t].row).id = t
                                   /\ Written(task[t].row).status = "PENDING"
           /\ suggestion # NoSuggestion => Written(task[t].row).status = suggestion.status
<1> DEFINE row == task[t].row
<1>1. HitSound(t, task[t], suggestion, saved) /\ task[t] \in Task
    BY DEF IInv, SuggestionTypeOK, HitsSound, Tasks
<1>2. row # NoSuggestion /\ t \notin saved /\ (row.id # t => suggestion # NoSuggestion)
    BY <1>1 DEF HitSound, Holders
<1>3. row \in Row
    BY <1>1, <1>2 DEF Task
<1>4. row.status = "PENDING"
    <2> SUFFICES ASSUME row.status # "PENDING" PROVE FALSE
        OBVIOUS
    <2>1. suggestion.status # "PENDING"
        BY <1>1 DEF HitSound
    <2> QED BY <2>1 DEF Accepts, VerdictFits
<1>5. Earned(row, Cardinality(saved) + 1)
    BY <1>1, <1>4 DEF HitSound
<1>6. /\ Written(row) \in Row
      /\ suggestion = NoSuggestion => Written(row) = row
      /\ suggestion # NoSuggestion => /\ Written(row).id = suggestion.id
                              /\ Written(row).status = suggestion.status
    BY <1>3, <1>4, WrittenLemma DEF IInv
<1>7. Kept(suggestion, Written(row))
    BY <1>6, NoSuggestionAssumption DEF Kept
<1> QED BY <1>2, <1>3, <1>4, <1>5, <1>6, <1>7

LEMMA SaveHitStep == ASSUME IInv, NEW t \in Hits, SaveHit(t) PROVE IInv'
<1> DEFINE row == task[t].row
<1>1. t \in Tasks /\ t \notin Judges /\ task[t].pc \in {"save", "saveWinner"}
    BY TasksAssumption DEF Tasks, SaveHit
<1>2. CASE Accepts(row)
    <2>1. /\ suggestion' = Written(row) /\ saved' = saved \cup {t}
          /\ task' = [task EXCEPT ![t] = At("done")]
          /\ UNCHANGED <<competitor, suggestionFaults, winners, created, dropped>>
        BY <1>2 DEF SaveHit
    <2>2. /\ row \in Row /\ Earned(row, Cardinality(saved) + 1) /\ t \notin saved
          /\ Written(row) \in Row /\ Kept(suggestion, Written(row))
          /\ suggestion = NoSuggestion => Written(row).id = t
        BY <1>1, <1>2, AcceptedHit
    <2>3. Written(row).keywords = row.keywords /\ Written(row).total = row.total
        BY <2>2, WrittenLemma DEF IInv
    <2>4. Cardinality(saved') = Cardinality(saved) + 1
        BY <2>1, <2>2, SavedCount DEF IInv, SuggestionTypeOK
    <2>5. /\ Cardinality(suggestion'.keywords) <= suggestion'.total
          /\ suggestion'.total <= Cardinality(saved')
        BY <2>1, <2>2, <2>3, <2>4 DEF Earned
    <2> HIDE DEF row
    <2> QED BY <1>1, <2>1, <2>2, <2>5, DoneSound, SaveStep
<1>3. CASE ~Accepts(row)
    <2>1. task' = [task EXCEPT ![t] =
              IF row.id = t THEN Holding("findWinner", row) ELSE At("done")]
        BY <1>3 DEF SaveHit
    <2>2. UNCHANGED <<suggestion, competitor, suggestionFaults, saved, winners, created, dropped>>
        BY <1>3 DEF SaveHit
    <2>3. CASE row.id # t
        <3>1. task' = [task EXCEPT ![t] = At("done")]
            BY <2>1, <2>3
        <3> QED BY <1>1, <2>2, <3>1, DoneSound, QuietStep DEF IInv, SuggestionTypeOK
    <2>4. CASE row.id = t
        <3>1. HitSound(t, task[t], suggestion, saved) /\ task[t] \in Task
            BY <1>1 DEF IInv, SuggestionTypeOK, HitsSound
        <3>2. /\ row # NoSuggestion /\ t \notin saved /\ (suggestion # NoSuggestion => suggestion.id # t)
              /\ row.status = "PENDING"
            BY <1>1, <2>4, <3>1 DEF HitSound, Holders
        <3>3. row \in Row /\ suggestion # NoSuggestion
            BY <1>3, <3>1, <3>2 DEF Task, Accepts, Fits
        <3>4. /\ Holding("findWinner", row) \in Task
              /\ Holding("findWinner", row).pc = "findWinner"
              /\ Holding("findWinner", row).row = row
            BY <3>3, HoldingType DEF TaskPC
        <3>5. HitSound(t, Holding("findWinner", row), suggestion, saved)
            BY <3>2, <3>3, <3>4 DEF HitSound, Holders
        <3>6. task' = [task EXCEPT ![t] = Holding("findWinner", row)]
            BY <2>1, <2>4
        <3> HIDE DEF row
        <3> QED BY <1>1, <2>2, <3>4, <3>5, <3>6, QuietStep DEF IInv, SuggestionTypeOK
    <2> QED BY <2>3, <2>4
<1> QED BY <1>2, <1>3

LEMMA JudgeStep == ASSUME IInv, NEW t \in Judges, Judge(t) PROVE IInv'
<1> DEFINE row == [suggestion EXCEPT !.status = Verdict(t)]
<1>1. t \in Tasks /\ t \notin Hits
    BY TasksAssumption DEF Tasks
<1>2. /\ suggestion \in Row
      /\ Earned(suggestion, Cardinality(saved))
    BY DEF Judge, IInv, SuggestionTypeOK, TallyIsEarned, Earned
<1>3. CASE suggestion.status # "PENDING"
    <2>1. task' = [task EXCEPT ![t] = At("done")]
        BY <1>3 DEF Judge
    <2> QED BY <1>1, <2>1, DoneSound, QuietStep DEF Judge, tallies, IInv, SuggestionTypeOK
<1>4. CASE suggestion.status = "PENDING"
    <2>1. task' = [task EXCEPT ![t] = Holding("save", row)]
        BY <1>4 DEF Judge
    <2>2. /\ row \in Row /\ row.status = Verdict(t)
          /\ row.keywords = suggestion.keywords /\ row.total = suggestion.total
        BY <1>2, JudgedLemma
    <2> HIDE DEF row
    <2>3. /\ Holding("save", row) \in Task
          /\ Holding("save", row).pc = "save" /\ Holding("save", row).row = row
          /\ row # NoSuggestion
        BY <2>2, HoldingType DEF TaskPC
    <2>4. OperatorSound(t, Holding("save", row), suggestion, saved, winners)
        BY <1>2, <2>2, <2>3 DEF OperatorSound, Earned
    <2> QED BY <1>1, <2>1, <2>3, <2>4, QuietStep DEF Judge, tallies, IInv, SuggestionTypeOK
<1> QED BY <1>3, <1>4

LEMMA AcceptedVerdict ==
    ASSUME IInv, NEW t \in Judges, task[t].pc = "save", Accepts(task[t].row)
    PROVE  /\ suggestion # NoSuggestion /\ suggestion.status = "PENDING"
           /\ task[t].row \in Row /\ task[t].row.status = Verdict(t)
           /\ Written(task[t].row) = task[t].row
           /\ Earned(task[t].row, Cardinality(saved))
           /\ Kept(suggestion, task[t].row)
<1> DEFINE row == task[t].row
<1>1. OperatorSound(t, task[t], suggestion, saved, winners) /\ task[t] \in Task
    BY DEF IInv, SuggestionTypeOK, OperatorsSound, Tasks
<1>2. row # NoSuggestion /\ row.status = Verdict(t) /\ Earned(row, Cardinality(saved))
    BY <1>1 DEF OperatorSound
<1>3. row \in Row
    BY <1>1, <1>2 DEF Task
<1>4. row.status # "PENDING"
    BY <1>2 DEF Verdict
<1>5. VerdictFits(row)
    BY <1>4 DEF Accepts
<1>6. Written(row) = row
    BY <1>4 DEF Written
<1>7. Kept(suggestion, row)
    BY <1>2, <1>5 DEF VerdictFits, Kept
<1> QED BY <1>2, <1>3, <1>5, <1>6, <1>7 DEF VerdictFits

LEMMA SaveVerdictStep == ASSUME IInv, NEW t \in Judges, SaveVerdict(t) PROVE IInv'
<1> DEFINE row == task[t].row
<1>1. t \in Tasks /\ t \notin Hits /\ task[t].pc = "save"
    BY TasksAssumption DEF Tasks, SaveVerdict
<1>2. CASE Accepts(row)
    <2>1. /\ suggestion' = Written(row) /\ winners' = winners \cup {t}
          /\ task' = [task EXCEPT ![t] = At(AfterVerdict(t))]
          /\ UNCHANGED <<competitor, suggestionFaults, saved, created, dropped>>
        BY <1>2 DEF SaveVerdict
    <2>2. /\ suggestion # NoSuggestion /\ row \in Row /\ row.status = Verdict(t)
          /\ Written(row) = row /\ Earned(row, Cardinality(saved))
          /\ Kept(suggestion, row)
        BY <1>1, <1>2, AcceptedVerdict
    <2> DEFINE s == At(AfterVerdict(t))
    <2>3. s \in Task /\ s.pc = AfterVerdict(t) /\ s.row = NoSuggestion
        BY AtType DEF AfterVerdict, TaskPC
    <2> HIDE DEF s, row
    <2>4. OperatorSound(t, s, suggestion', saved', winners')
        BY <2>1, <2>2, <2>3, NoSuggestionAssumption DEF OperatorSound, AfterVerdict, Verdict
    <2>5. /\ Cardinality(suggestion'.keywords) <= suggestion'.total
          /\ suggestion'.total <= Cardinality(saved')
        BY <2>1, <2>2 DEF Earned
    <2>6. task' = [task EXCEPT ![t] = s]
        BY <2>1 DEF s
    <2> QED BY <1>1, <2>1, <2>2, <2>3, <2>4, <2>5, <2>6, SaveStep
<1>3. CASE ~Accepts(row)
    <2>1. task' = [task EXCEPT ![t] = At("done")]
        BY <1>3 DEF SaveVerdict
    <2> QED BY <1>1, <1>3, <2>1, DoneSound, QuietStep DEF SaveVerdict, IInv, SuggestionTypeOK
<1> QED BY <1>2, <1>3

LEMMA CreateStep == ASSUME IInv, NEW t \in Judges, Create(t) PROVE IInv'
<1>1. t \in Tasks /\ t \notin Hits
    BY TasksAssumption DEF Tasks
<1>2. t \in Promotes
    BY <1>1 DEF IInv, OperatorsSound, OperatorSound, Create
<1>3. created' \subseteq Promotes
    BY <1>2 DEF Create, IInv, SuggestionTypeOK
<1>4. competitor' \in BOOLEAN /\ dropped' \in BOOLEAN
    BY Zenon DEF Create, IInv, SuggestionTypeOK
<1> QED BY <1>1, <1>3, <1>4, DoneSound, QuietStep DEF Create, IInv, SuggestionTypeOK

LEMMA FailsStep == ASSUME IInv, NEW t \in Tasks, Fails(t) PROVE IInv'
<1>1. suggestionFaults' \in 0 .. MaxSuggestionFaults
    BY SuggestionBoundAssumption DEF Fails, IInv, SuggestionTypeOK
<1> QED BY <1>1, DoneSound, QuietStep DEF Fails, tallies, IInv, SuggestionTypeOK

LEMMA CompetitorSteps == ASSUME IInv, Add \/ Remove PROVE IInv'
<1>1. competitor' \in BOOLEAN
    BY Zenon DEF Add, Remove
<1>2. dropped' \in BOOLEAN
    <2>1. CASE Add
        BY <2>1 DEF Add, tallies, IInv, SuggestionTypeOK
    <2>2. CASE Remove
        BY <2>2, Zenon DEF Remove
    <2> QED BY <2>1, <2>2
<1>3. UNCHANGED <<suggestion, task, suggestionFaults, saved, winners, created>>
    BY DEF Add, Remove, tallies
<1> QED BY <1>1, <1>2, <1>3, StutterStep

LEMMA Inductive == IInv /\ [SuggestionNext]_suggestionVars => IInv'
<1> SUFFICES ASSUME IInv, [SuggestionNext]_suggestionVars PROVE IInv'
    OBVIOUS
<1>1. ASSUME NEW t \in Hits, Record(t) PROVE IInv'
    BY <1>1, FilterStep, FindStep, SaveHitStep, FindWinnerStep DEF Record
<1>2. ASSUME NEW t \in Judges, Judge(t) \/ Conclude(t) PROVE IInv'
    BY <1>2, JudgeStep, SaveVerdictStep, CreateStep DEF Conclude
<1>3. ASSUME NEW t \in Tasks, Fails(t) PROVE IInv'
    BY <1>3, FailsStep
<1>4. CASE Add \/ Remove
    BY <1>4, CompetitorSteps
<1>5. CASE UNCHANGED suggestionVars
    BY <1>5, StutterStep DEF suggestionVars, IInv, SuggestionTypeOK
<1> QED BY <1>1, <1>2, <1>3, <1>4, <1>5 DEF SuggestionNext

\* The invariant the theorems rest on.
THEOREM Invariance == SuggestionSpec => []IInv
BY InitSound, Inductive, PTL DEF SuggestionSpec

\* Types: a saved suggestion has a hit, a verdict is one of the three.
THEOREM TypeCorrect == SuggestionSpec => []SuggestionTypeOK
<1>1. IInv => SuggestionTypeOK
    BY DEF IInv
<1> QED BY <1>1, Invariance, PTL

\* However jobs, verdicts and failures interleave, a suggestion never claims a
\* hit that was not saved, nor more keywords than hits: hits are lost, not made.
THEOREM TallyEarned == SuggestionSpec => []TallyIsEarned
<1>1. IInv => TallyIsEarned
    BY DEF IInv
<1> QED BY <1>1, Invariance, PTL

-----------------------------------------------------------------------------
\* The refinement.

LEMMA LifecycleInit == SuggestionInit => Lifecycle!Init
BY DEF SuggestionInit, Lifecycle!Init

\* A step that leaves the suggestion, or its status, alone.
LEMMA LifecycleStutter ==
    ASSUME suggestion' = NoSuggestion <=> suggestion = NoSuggestion,
           suggestion # NoSuggestion => suggestion'.status = suggestion.status,
           UNCHANGED <<winners, created>>
    PROVE  UNCHANGED Lifecycle!vars
BY DEF Lifecycle!vars

LEMMA LifecycleHit ==
    ASSUME IInv, NEW t \in Hits, SaveHit(t)
    PROVE  [Lifecycle!Next]_(Lifecycle!vars)
<1>1. task[t].pc \in {"save", "saveWinner"} /\ UNCHANGED <<winners, created>>
    BY DEF SaveHit
<1>2. CASE Accepts(task[t].row)
    <2>1. suggestion' = Written(task[t].row)
        BY <1>2 DEF SaveHit
    <2>2. /\ suggestion' \in Row
          /\ suggestion = NoSuggestion => suggestion'.status = "PENDING"
          /\ suggestion # NoSuggestion => suggestion'.status = suggestion.status
        BY <1>1, <1>2, <2>1, AcceptedHit
    <2>3. suggestion' # NoSuggestion
        BY <2>2, NoSuggestionAssumption
    <2>4. CASE suggestion # NoSuggestion
        BY <1>1, <2>2, <2>3, <2>4, LifecycleStutter
    <2>5. CASE suggestion = NoSuggestion
        <3>1. Lifecycle!Observe
            BY <1>1, <2>2, <2>3, <2>5 DEF Lifecycle!Observe
        <3> QED BY <3>1 DEF Lifecycle!Next
    <2> QED BY <2>4, <2>5
<1>3. CASE ~Accepts(task[t].row)
    <2>1. UNCHANGED suggestion
        BY <1>3 DEF SaveHit
    <2> QED BY <1>1, <2>1, LifecycleStutter
<1> QED BY <1>2, <1>3

LEMMA LifecycleVerdict ==
    ASSUME IInv, NEW t \in Judges, SaveVerdict(t)
    PROVE  [Lifecycle!Next]_(Lifecycle!vars)
<1>1. task[t].pc = "save" /\ UNCHANGED created
    BY DEF SaveVerdict
<1>2. CASE Accepts(task[t].row)
    <2>1. suggestion' = Written(task[t].row) /\ winners' = winners \cup {t}
        BY <1>2 DEF SaveVerdict
    <2>2. /\ suggestion # NoSuggestion /\ suggestion.status = "PENDING"
          /\ suggestion' \in Row /\ suggestion'.status = Verdict(t)
        BY <1>1, <1>2, <2>1, AcceptedVerdict
    <2>3. suggestion' # NoSuggestion
        BY <2>2, NoSuggestionAssumption
    <2>4. Lifecycle!Verdict(t, Verdict(t))
        BY <1>1, <2>1, <2>2, <2>3 DEF Lifecycle!Verdict
    <2>5. \/ t \in Promotes /\ Verdict(t) = "PROMOTED"
          \/ t \in Dismisses /\ Verdict(t) = "DISMISSED"
        BY DEF Judges, Verdict
    <2> QED BY <2>4, <2>5 DEF Lifecycle!Next
<1>3. CASE ~Accepts(task[t].row)
    <2>1. UNCHANGED <<suggestion, winners>>
        BY <1>3 DEF SaveVerdict
    <2> QED BY <1>1, <2>1, LifecycleStutter
<1> QED BY <1>2, <1>3

LEMMA LifecycleCreate ==
    ASSUME IInv, NEW t \in Judges, Create(t)
    PROVE  [Lifecycle!Next]_(Lifecycle!vars)
<1>1. UNCHANGED <<suggestion, winners>>
    BY DEF Create
<1>2. CASE UNCHANGED created
    BY <1>1, <1>2, LifecycleStutter
<1>3. CASE ~UNCHANGED created
    <2>1. /\ t \in Promotes /\ t \in winners
          /\ suggestion # NoSuggestion /\ suggestion.status = "PROMOTED"
        BY DEF Create, IInv, OperatorsSound, OperatorSound
    <2>2. created' = created \cup {t}
        BY <1>3 DEF Create
    <2>3. Lifecycle!Create(t)
        BY <1>1, <2>1, <2>2 DEF Lifecycle!Create
    <2> QED BY <2>1, <2>3 DEF Lifecycle!Next
<1> QED BY <1>2, <1>3

LEMMA LifecycleStep == IInv /\ [SuggestionNext]_suggestionVars => [Lifecycle!Next]_(Lifecycle!vars)
<1> SUFFICES ASSUME IInv, [SuggestionNext]_suggestionVars PROVE [Lifecycle!Next]_(Lifecycle!vars)
    OBVIOUS
<1>1. ASSUME NEW t \in Hits, Record(t) PROVE [Lifecycle!Next]_(Lifecycle!vars)
    <2>1. CASE SaveHit(t)
        BY <2>1, LifecycleHit
    <2>2. CASE Filter(t) \/ Find(t) \/ FindWinner(t)
        BY <2>2, LifecycleStutter DEF Filter, Find, FindWinner, tallies
    <2> QED BY <1>1, <2>1, <2>2 DEF Record
<1>2. ASSUME NEW t \in Judges, Judge(t) \/ Conclude(t)
      PROVE  [Lifecycle!Next]_(Lifecycle!vars)
    <2>1. CASE SaveVerdict(t)
        BY <2>1, LifecycleVerdict
    <2>2. CASE Create(t)
        BY <2>2, LifecycleCreate
    <2>3. CASE Judge(t)
        BY <2>3, LifecycleStutter DEF Judge, tallies
    <2> QED BY <1>2, <2>1, <2>2, <2>3 DEF Conclude
<1>3. ASSUME NEW t \in Tasks, Fails(t) PROVE [Lifecycle!Next]_(Lifecycle!vars)
    BY <1>3, LifecycleStutter DEF Fails, tallies
<1>4. CASE Add \/ Remove
    BY <1>4, LifecycleStutter DEF Add, Remove, tallies
<1>5. CASE UNCHANGED suggestionVars
    BY <1>5, LifecycleStutter DEF suggestionVars
<1> QED BY <1>1, <1>2, <1>3, <1>4, <1>5 DEF SuggestionNext

\* For any number of jobs, operators and failures: the suggestion gets one
\* verdict, keeps it, and only the promote that gave it makes a competitor.
THEOREM LifecycleImplemented == SuggestionSpec => LifecycleSpec
BY LifecycleInit, LifecycleStep, Invariance, PTL DEF SuggestionSpec, LifecycleSpec, Lifecycle!Spec

-----------------------------------------------------------------------------
\* No suggestion is promoted in vain.

\* A suggestion that is promoted is tracked, or was refused or removed by hand,
\* or a call broke off, or its promote is still about to create the competitor.
PromotedAwaits ==
    Promoted => \/ competitor \/ dropped \/ suggestionFaults > 0
                \/ \E t \in Promotes : task[t].pc = "create"

\* A verdict that is saved takes the promote on to the competitor.
LEMMA VerdictAwaits ==
    ASSUME IInv, PromotedAwaits, NEW t \in Judges, SaveVerdict(t)
    PROVE  PromotedAwaits'
<1> DEFINE row == task[t].row
<1>1. UNCHANGED <<competitor, dropped, suggestionFaults>>
    BY DEF SaveVerdict
<1>2. row.status = Verdict(t) /\ row.status # "PENDING"
    BY DEF IInv, OperatorsSound, OperatorSound, SaveVerdict, Verdict
<1>3. CASE /\ suggestion' = Written(row)
           /\ task' = [task EXCEPT ![t] = At(AfterVerdict(t))]
    <2>1. suggestion' = row
        BY <1>2, <1>3 DEF Written
    <2>2. Promoted' => t \in Promotes
        BY <1>2, <2>1 DEF Promoted, Verdict
    <2>3. t \in Promotes => task'[t].pc = "create"
        BY <1>3 DEF AfterVerdict, At, IInv, SuggestionTypeOK, Tasks
    <2> QED BY <2>2, <2>3 DEF PromotedAwaits
<1>4. CASE UNCHANGED suggestion /\ task' = [task EXCEPT ![t] = At("done")]
    <2>1. \A u \in Promotes : task[u].pc = "create" => u # t
        BY DEF SaveVerdict
    <2>2. \A u \in Promotes : task[u].pc = "create" => task'[u].pc = "create"
        BY <1>4, <2>1 DEF IInv, SuggestionTypeOK, Tasks, Judges
    <2> QED BY <1>1, <1>4, <2>2 DEF PromotedAwaits, Promoted
<1> QED BY <1>3, <1>4 DEF SaveVerdict

\* A step that leaves the verdict alone and no promote short of its competitor.
LEMMA OthersAwait ==
    ASSUME PromotedAwaits, Promoted' => Promoted,
           UNCHANGED <<competitor, dropped, suggestionFaults>>,
           \A u \in Promotes : task[u].pc = "create" => task'[u].pc = "create"
    PROVE  PromotedAwaits'
BY DEF PromotedAwaits

\* The hit of a job never promotes.
LEMMA RecordAwaits ==
    ASSUME IInv, PromotedAwaits, NEW t \in Hits, Record(t)
    PROVE  PromotedAwaits'
<1>1. UNCHANGED <<competitor, dropped, suggestionFaults>>
    BY DEF Record, Filter, Find, SaveHit, FindWinner, tallies
<1>2. \A u \in Promotes : task'[u] = task[u]
    <2>1. \A u \in Promotes : u # t /\ u \in Tasks
        BY TasksAssumption DEF Judges, Tasks
    <2>2. \E s : task' = [task EXCEPT ![t] = s]
        BY DEF Record, Filter, Find, SaveHit, FindWinner
    <2> QED BY <2>1, <2>2 DEF IInv, SuggestionTypeOK
<1>3. Promoted' => Promoted
    <2>1. CASE UNCHANGED suggestion
        BY <2>1 DEF Promoted
    <2>2. CASE SaveHit(t) /\ Accepts(task[t].row) /\ suggestion' = Written(task[t].row)
        <3>1. task[t].row.status = "PENDING"
            BY <2>2 DEF IInv, HitsSound, HitSound, SaveHit, Accepts, VerdictFits
        <3>2. suggestion # NoSuggestion => suggestion \in Row
            BY DEF IInv, SuggestionTypeOK
        <3>3. Promoted' => suggestion # NoSuggestion /\ suggestion.status = "PROMOTED"
            BY <2>2, <3>1, <3>2 DEF Written, Promoted, Row
        <3> QED BY <3>3 DEF Promoted
    <2> QED BY <2>1, <2>2 DEF Record, Filter, Find, SaveHit, FindWinner
<1> QED BY <1>1, <1>2, <1>3, OthersAwait

LEMMA AwaitsStep ==
    IInv /\ PromotedAwaits /\ [SuggestionNext]_suggestionVars => PromotedAwaits'
<1> SUFFICES ASSUME IInv, PromotedAwaits, [SuggestionNext]_suggestionVars PROVE PromotedAwaits'
    OBVIOUS
<1>1. ASSUME NEW t \in Judges, Judge(t) PROVE PromotedAwaits'
    <2>1. PICK s : task' = [task EXCEPT ![t] = s]
        BY <1>1 DEF Judge
    <2>2. \A u \in Promotes : task[u].pc = "create" => task'[u].pc = "create"
        BY <1>1, <2>1 DEF Judge, IInv, SuggestionTypeOK, Tasks, Judges
    <2> QED BY <1>1, <2>2, OthersAwait DEF Judge, Promoted, tallies
<1>2. ASSUME NEW t \in Judges, Create(t) PROVE PromotedAwaits'
    BY <1>2 DEF Create, PromotedAwaits
<1>3. ASSUME NEW t \in Tasks, Fails(t) PROVE PromotedAwaits'
    BY <1>3 DEF Fails, PromotedAwaits, IInv, SuggestionTypeOK
<1>4. ASSUME Add PROVE PromotedAwaits'
    BY <1>4 DEF Add, PromotedAwaits
<1>5. ASSUME Remove PROVE PromotedAwaits'
    BY <1>5 DEF Remove, PromotedAwaits, Promoted
<1>6. ASSUME UNCHANGED suggestionVars PROVE PromotedAwaits'
    BY <1>6 DEF suggestionVars, PromotedAwaits, Promoted
<1> QED BY RecordAwaits, VerdictAwaits, <1>1, <1>2, <1>3, <1>4, <1>5, <1>6
        DEF SuggestionNext, Conclude

\* Whatever interleaves, the call that made a suggestion PROMOTED is the one
\* that stays responsible for its competitor: of PromotedIsTracked, only that
\* this call goes on is left to fairness.
THEOREM PromotionsAwait ==
    SuggestionSpec => []PromotedAwaits
<1>1. SuggestionInit => PromotedAwaits
    BY DEF SuggestionInit, PromotedAwaits, Promoted
<1> QED BY <1>1, AwaitsStep, Invariance, PTL DEF SuggestionSpec
=============================================================================
