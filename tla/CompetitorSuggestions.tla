----------------------- MODULE CompetitorSuggestions -----------------------
(***************************************************************************)
(* The suggestion to track a domain as a competitor of a project.  SERP    *)
(* jobs in the worker tally the keywords whose top ten the domain appears  *)
(* in; operators promote or dismiss the suggestion in the API process.     *)
(* All of them read the whole row, change it in memory and save it, with   *)
(* each awaited call an action of its own.                                 *)
(*                                                                         *)
(* One project and one domain: the use case records the domains of a SERP  *)
(* one after the other, and the failure of one does not touch the others.  *)
(***************************************************************************)
EXTENDS Naturals, FiniteSets

CONSTANTS
    Keywords,   \* tracked keywords of the project
    Hits,       \* SERP jobs that found the domain in a top ten
    Promotes,   \* calls of PromoteCompetitorSuggestionUseCase
    Dismisses,  \* calls of DismissCompetitorSuggestionUseCase
    MaxSuggestionFaults, \* bound: calls to Postgres that reject, and crashes
    NoSuggestion         \* no row, and "not yet"

Judges == Promotes \cup Dismisses
Tasks == Hits \cup Judges

SuggestionStatuses == {"PENDING", "PROMOTED", "DISMISSED"}

\* A suggestion; the job that first observed the domain generates its id.
Row == [id : Hits, keywords : SUBSET Keywords, total : Nat \ {0},
        status : SuggestionStatuses]

TaskPC == {"ready", "find", "save", "findWinner", "saveWinner", "create", "done"}

\* A call, with the suggestion it holds in memory.
Task == [pc : TaskPC, row : Row \cup {NoSuggestion}]

ASSUME NoSuggestionAssumption == NoSuggestion \notin Row
ASSUME TasksAssumption ==
    /\ Hits \cap Judges = {}
    /\ Promotes \cap Dismisses = {}
ASSUME TallyAssumption == IsFiniteSet(Keywords) /\ IsFiniteSet(Hits)
ASSUME SuggestionBoundAssumption == MaxSuggestionFaults \in Nat

VARIABLES
    suggestion,  \* the row of competitor_suggestions
    competitor,  \* whether the domain is in the competitors table
    task,        \* the call each task is making
    suggestionFaults, \* faults so far
    saved,       \* history: the jobs whose hit was saved
    winners,     \* history: the operators' calls whose verdict was saved
    created,     \* history: the promotes that inserted the competitor
    dropped      \* history: whether the competitor of a promoted suggestion was
                 \* refused for its label or removed by hand

tallies == <<saved, winners, created, dropped>>
suggestionVars ==
    <<suggestion, competitor, task, suggestionFaults, saved, winners, created, dropped>>

Promoted == suggestion # NoSuggestion /\ suggestion.status = "PROMOTED"

At(pc) == [pc |-> pc, row |-> NoSuggestion]
Holding(pc, row) == [pc |-> pc, row |-> row]

-----------------------------------------------------------------------------
\* The aggregate.

\* Mutant of Observed: a new suggestion starts without its first hit.
ObservedEmpty(t, k) == [id |-> t, keywords |-> {k}, total |-> 0, status |-> "PENDING"]

\* CompetitorSuggestion.observe.
Observed(t, k) == [id |-> t, keywords |-> {k}, total |-> 1, status |-> "PENDING"]

\* recordTop10Hit: a suggestion that is not pending stays as it is.
WithHit(row, k) ==
    IF row.status = "PENDING"
    THEN [row EXCEPT !.keywords = @ \cup {k}, !.total = @ + 1]
    ELSE row

-----------------------------------------------------------------------------
\* DrizzleCompetitorSuggestionRepository.save, and when it does not throw.

\* The row is new, or the one in the table: the unique index on project and
\* domain refuses another id.
Fits(row) == suggestion # NoSuggestion => suggestion.id = row.id

\* Mutant of VerdictFits: the update is not gated on the status.
VerdictUngated(row) == suggestion # NoSuggestion /\ suggestion.id = row.id

\* A verdict is only written over a pending row.
VerdictFits(row) ==
    suggestion # NoSuggestion /\ suggestion.id = row.id /\ suggestion.status = "PENDING"

Accepts(row) == IF row.status = "PENDING" THEN Fits(row) ELSE VerdictFits(row)

\* Mutant of Written: the update forgets the total.
WrittenForgetful(row) ==
    IF suggestion = NoSuggestion \/ row.status # "PENDING" THEN row
    ELSE [suggestion EXCEPT !.keywords = row.keywords]

\* The row the table has then: of a pending one, only the tally is updated.
Written(row) ==
    IF suggestion = NoSuggestion \/ row.status # "PENDING" THEN row
    ELSE [suggestion EXCEPT !.keywords = row.keywords, !.total = row.total]

-----------------------------------------------------------------------------
\* The SERP fan-out of the worker, for one domain of the top ten.

\* A domain that is a competitor already is left out.
Filter(t) ==
    /\ task[t].pc = "ready"
    /\ task' = [task EXCEPT ![t] = At(IF competitor THEN "done" ELSE "find")]
    /\ UNCHANGED <<suggestion, competitor, suggestionFaults, tallies>>

\* recordSingleDomain: hit the suggestion that is there, or observe a new one.
Find(t) ==
    /\ task[t].pc = "find"
    /\ \E k \in Keywords :
          LET row == IF suggestion = NoSuggestion THEN Observed(t, k) ELSE WithHit(suggestion, k)
          IN task' = [task EXCEPT ![t] = Holding("save", row)]
    /\ UNCHANGED <<suggestion, competitor, suggestionFaults, tallies>>

\* A new suggestion that lost the race for the unique index gives way to the
\* winner; any other refusal ends in the log.
SaveHit(t) ==
    LET row == task[t].row
    IN /\ task[t].pc \in {"save", "saveWinner"}
       /\ \/ /\ Accepts(row)
             /\ suggestion' = Written(row)
             /\ saved' = saved \cup {t}
             /\ task' = [task EXCEPT ![t] = At("done")]
          \/ /\ ~Accepts(row)
             /\ task' = [task EXCEPT ![t] =
                   IF row.id = t THEN Holding("findWinner", row) ELSE At("done")]
             /\ UNCHANGED <<suggestion, saved>>
       /\ UNCHANGED <<competitor, suggestionFaults, winners, created, dropped>>

\* The refetch after the lost race; a suggestion is never deleted.
FindWinner(t) ==
    /\ task[t].pc = "findWinner"
    /\ \E k \in task[t].row.keywords :
          task' = [task EXCEPT ![t] = Holding("saveWinner", WithHit(suggestion, k))]
    /\ UNCHANGED <<suggestion, competitor, suggestionFaults, tallies>>

-----------------------------------------------------------------------------
\* The operators.

Verdict(t) == IF t \in Promotes THEN "PROMOTED" ELSE "DISMISSED"

\* Read the suggestion and change its status in memory; a suggestion that has
\* its verdict is refused.
Judge(t) ==
    /\ task[t].pc = "ready"
    /\ suggestion # NoSuggestion
    /\ task' = [task EXCEPT ![t] =
          IF suggestion.status = "PENDING"
          THEN Holding("save", [suggestion EXCEPT !.status = Verdict(t)])
          ELSE At("done")]
    /\ UNCHANGED <<suggestion, competitor, suggestionFaults, tallies>>

\* Mutant of AfterVerdict: the competitor is left to a listener nobody wired.
AfterVerdictDone(t) == "done"

AfterVerdict(t) == IF t \in Promotes THEN "create" ELSE "done"

SaveVerdict(t) ==
    LET row == task[t].row
    IN /\ task[t].pc = "save"
       /\ \/ /\ Accepts(row)
             /\ suggestion' = Written(row)
             /\ winners' = winners \cup {t}
             /\ task' = [task EXCEPT ![t] = At(AfterVerdict(t))]
          \/ /\ ~Accepts(row)
             /\ task' = [task EXCEPT ![t] = At("done")]
             /\ UNCHANGED <<suggestion, winners>>
       /\ UNCHANGED <<competitor, suggestionFaults, saved, created, dropped>>

\* Insert the competitor; its unique index refuses a second one, and the entity
\* a blank label, which the request's schema lets through.  The call throws.
Create(t) ==
    /\ task[t].pc = "create"
    /\ \/ /\ competitor' = TRUE
          /\ created' = IF competitor THEN created ELSE created \cup {t}
          /\ UNCHANGED dropped
       \/ /\ dropped' = TRUE
          /\ UNCHANGED <<competitor, created>>
    /\ task' = [task EXCEPT ![t] = At("done")]
    /\ UNCHANGED <<suggestion, suggestionFaults, saved, winners>>

\* AddCompetitorUseCase.  Its check decides what the caller is told; the insert
\* is refused by the unique index or not.
Add ==
    /\ ~competitor
    /\ competitor' = TRUE
    /\ UNCHANGED <<suggestion, task, suggestionFaults, tallies>>

\* RemoveCompetitorUseCase: a delete by id, that of the only row there can be.
Remove ==
    /\ competitor
    /\ competitor' = FALSE
    /\ dropped' = (dropped \/ Promoted)
    /\ UNCHANGED <<suggestion, task, suggestionFaults, saved, winners, created>>

-----------------------------------------------------------------------------
\* The call a task is at rejects, or its process dies: it goes no further.
Fails(t) ==
    /\ suggestionFaults < MaxSuggestionFaults
    /\ task[t].pc \notin {"ready", "done"}
    /\ task' = [task EXCEPT ![t] = At("done")]
    /\ suggestionFaults' = suggestionFaults + 1
    /\ UNCHANGED <<suggestion, competitor, tallies>>

SuggestionInit ==
    /\ suggestion = NoSuggestion
    /\ competitor \in BOOLEAN
    /\ task = [t \in Tasks |-> At("ready")]
    /\ suggestionFaults = 0
    /\ saved = {}
    /\ winners = {}
    /\ created = {}
    /\ dropped = FALSE

Record(t) == Filter(t) \/ Find(t) \/ SaveHit(t) \/ FindWinner(t)

\* What an operator's call does once it has read the suggestion.
Conclude(t) == SaveVerdict(t) \/ Create(t)

SuggestionNext ==
    \/ \E t \in Hits : Record(t)
    \/ \E t \in Judges : Judge(t) \/ Conclude(t)
    \/ \E t \in Tasks : Fails(t)
    \/ Add
    \/ Remove

SuggestionSpec == SuggestionInit /\ [][SuggestionNext]_suggestionVars

\* An operator's call that has begun goes on.
SuggestionFairSpec == SuggestionSpec /\ \A t \in Judges : WF_suggestionVars(Conclude(t))

-----------------------------------------------------------------------------
SuggestionTypeOK ==
    /\ suggestion \in Row \cup {NoSuggestion}
    /\ competitor \in BOOLEAN
    /\ task \in [Tasks -> Task]
    /\ suggestionFaults \in 0 .. MaxSuggestionFaults
    /\ saved \subseteq Hits
    /\ winners \subseteq Judges
    /\ created \subseteq Promotes
    /\ dropped \in BOOLEAN

\* Concurrent jobs lose each other's hits, but never invent any: a suggestion
\* claims no more hits than were saved, and no more keywords than hits.  What
\* the policy calls eligible was seen that often.
TallyIsEarned ==
    suggestion # NoSuggestion =>
        /\ Cardinality(suggestion.keywords) <= suggestion.total
        /\ suggestion.total <= Cardinality(saved)

\* Marking the suggestion first leaves none promoted without a competitor, even
\* when the competitor is added by hand meanwhile: unless a call fails, the label
\* is blank, or the competitor is removed again.
PromotedIsTracked == Promoted ~> competitor \/ dropped \/ suggestionFaults > 0

\* One verdict, for good, and a competitor only of who promoted; see
\* SuggestionLifecycle.
Lifecycle == INSTANCE SuggestionLifecycle WITH
    status <- IF suggestion = NoSuggestion THEN "absent" ELSE suggestion.status
LifecycleSpec == Lifecycle!Spec
=============================================================================
