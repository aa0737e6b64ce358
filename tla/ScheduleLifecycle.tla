------------------------- MODULE ScheduleLifecycle -------------------------
(***************************************************************************)
(* The life of a job definition, in the two places that hold it: its row   *)
(* in Postgres and its job scheduler in Redis.  API requests and event     *)
(* handlers create, patch and delete definitions, the worker reads a row   *)
(* and writes it back, and a script reconciles Redis with the rows on      *)
(* every deploy.  Every awaited call is an action of its own.              *)
(*                                                                         *)
(* The definitions are those of one project and endpoint.  The params tell *)
(* the schedules of one linked entity apart (their variant: a locale, say) *)
(* and carry the entity's id, by which a second schedule of the entity is  *)
(* recognised, or not.                                                     *)
(***************************************************************************)
EXTENDS Naturals, FiniteSets

CONSTANTS
    Defs,          \* ids of job definitions
    Variants,      \* what the params of an entity's schedules differ in
    Crons,         \* cron expressions
    Schedules,     \* calls of ScheduleEndpointFetchUseCase
    Patches,       \* calls of UpdateJobDefinitionUseCase
    Deletes,       \* calls of DeleteJobDefinitionUseCase
    Executions,    \* executions of ProviderFetchProcessor.handle
    Keyed,         \* whether the endpoint is bound to an entity, so that every
                   \* schedule carries the entity's key
    KeyPreserved,  \* whether SYSTEM_PARAM_KEYS lists the entity's key
    MaxFaults,     \* bound: calls to Postgres or Redis that reject
    None           \* no row, no scheduler, and "not yet"

Tasks == Schedules \cup Patches \cup Deletes \cup Executions

Params == [variant : Variants, keyed : BOOLEAN]

\* hash is the params_hash column: the params the row was inserted with.
Row == [enabled : BOOLEAN, cron : Crons, params : Params, hash : Params]

TaskPC == {"ready", "check", "insert", "save", "unregister", "register",
           "delete", "saveRun", "done"}

\* A call, with the definition it works on and the row it holds in memory.
Task == [pc : TaskPC, def : Defs \cup {None}, row : Row \cup {None}]

ScriptPC == {"idle", "register", "providers", "list", "drop"}

\* The reconcile script: the cron of each definition that was enabled when it
\* began, the definitions or scheduler keys it has yet to go through, and
\* (history) the definitions nothing else has worked on since.
Script == [pc : ScriptPC, read : [Defs -> Crons \cup {None}],
           todo : SUBSET Defs, clean : SUBSET Defs]

ASSUME NoneAssumption == None \notin Defs \cup Crons \cup Row \cup Params
ASSUME TasksAssumption ==
    /\ Schedules \cap (Patches \cup Deletes \cup Executions) = {}
    /\ Patches \cap (Deletes \cup Executions) = {}
    /\ Deletes \cap Executions = {}
ASSUME KeyAssumption == Keyed \in BOOLEAN /\ KeyPreserved \in BOOLEAN
ASSUME BoundAssumption == MaxFaults \in Nat

At(pc) == [pc |-> pc, def |-> None, row |-> None]
Quiet == [pc |-> "idle", read |-> [d \in Defs |-> None], todo |-> {}, clean |-> {}]

VARIABLES
    definitions,  \* provider_job_definitions
    schedulers,   \* the cron of each definition's job scheduler in Redis
    task,         \* the call each task is making
    script,       \* the reconcile script
    faults,       \* rejected calls so far
    origin,       \* history: the params each id was scheduled with
    skipped,      \* history: the params of calls that returned an existing row
    suspect       \* history: definitions whose row and scheduler may differ
                  \* because calls overlapped or one of them failed half-way

vars == <<definitions, schedulers, task, script, faults, origin, skipped, suspect>>

Exists(d) == definitions[d] # None
Enabled(d) == Exists(d) /\ definitions[d].enabled
Busy(d) == \E t \in Tasks : task[t].def = d

\* History: a call begins to work on d.
Begin(d) ==
    /\ suspect' = IF Busy(d) \/ script.pc # "idle" THEN suspect \cup {d} ELSE suspect
    /\ script' = [script EXCEPT !.clean = @ \ {d}]

-----------------------------------------------------------------------------
\* The repository and the scheduler.

\* Mutant of Conflicts: no unique index on the params hash.
NoUniqueIndex(d, row) == FALSE

\* Inserting the row of d violates the unique index on the params hash.
Conflicts(d, row) ==
    /\ ~Exists(d)
    /\ \E e \in Defs : Exists(e) /\ definitions[e].hash = row.params

\* Mutant of Saved: the conflict branch of the upsert rewrites the hash too.
SavedRehashed(d, row) ==
    [definitions EXCEPT ![d] = [row EXCEPT !.hash = row.params]]

\* Upsert of the row; a row that is there keeps the hash it was inserted with.
Saved(d, row) ==
    LET hash == IF Exists(d) THEN definitions[d].hash ELSE row.params
    IN [definitions EXCEPT ![d] = [row EXCEPT !.hash = hash]]

\* Mutant of Upserted: schedulers are keyed by provider and cron (bug #194).
UpsertedByCron(d, cron) ==
    [e \in Defs |-> IF e = d THEN cron
                    ELSE IF schedulers[e] = cron THEN None ELSE schedulers[e]]

\* One scheduler per definition, keyed by its id.
Upserted(d, cron) == [schedulers EXCEPT ![d] = cron]
Removed(d) == [schedulers EXCEPT ![d] = None]

\* BullMqJobScheduler.register: of a disabled definition, it unregisters.
Registered(d, row) == IF row.enabled THEN Upserted(d, row.cron) ELSE Removed(d)

-----------------------------------------------------------------------------
\* ScheduleEndpointFetchUseCase, called by an auto-schedule handler or, for an
\* endpoint no entity is bound to and without an idempotency key, by the
\* controller.  All schedules of an entity share one key.  A call refused before
\* it inserts (invalid params or cron, no such project) changes nothing.

NewRow(variant, cron) ==
    LET params == [variant |-> variant, keyed |-> Keyed]
    IN [enabled |-> TRUE, cron |-> cron, params |-> params, hash |-> params]

BeginSchedule(t) ==
    /\ task[t].pc = "ready"
    /\ \E v \in Variants, c \in Crons :
          task' = [task EXCEPT ![t] = [At("check") EXCEPT !.row = NewRow(v, c)]]
    /\ UNCHANGED <<definitions, schedulers, script, faults, origin, skipped, suspect>>

\* findByProjectEndpointAndSystemParam.
SameKey(row) == {d \in Defs : row.params.keyed /\ Exists(d) /\ definitions[d].params.keyed}

\* A definition with the key exists and is returned, or the call goes on.
Check(t) ==
    LET row == task[t].row
    IN /\ task[t].pc = "check"
       /\ \/ /\ SameKey(row) # {}
             /\ skipped' = skipped \cup {row.params}
             /\ task' = [task EXCEPT ![t] = At("done")]
          \/ /\ SameKey(row) = {}
             /\ task' = [task EXCEPT ![t].pc = "insert"]
             /\ UNCHANGED skipped
       /\ UNCHANGED <<definitions, schedulers, script, faults, origin, suspect>>

\* Insert under a new id, unless the unique index refuses: then the call throws
\* (a handler logs it).
Insert(t) ==
    LET row == task[t].row
    IN /\ task[t].pc = "insert"
       /\ \E d \in {e \in Defs : origin[e] = None} :
             IF Conflicts(d, row)
             THEN /\ task' = [task EXCEPT ![t] = At("done")]
                  /\ UNCHANGED <<definitions, script, origin, suspect>>
             ELSE /\ definitions' = Saved(d, row)
                  /\ origin' = [origin EXCEPT ![d] = row.params]
                  /\ task' = [task EXCEPT ![t].pc = "register", ![t].def = d]
                  /\ Begin(d)
       /\ UNCHANGED <<schedulers, faults, skipped>>

\* The last call of a schedule and of a patch.
Register(t) ==
    /\ task[t].pc = "register"
    /\ schedulers' = Registered(task[t].def, task[t].row)
    /\ task' = [task EXCEPT ![t] = At("done")]
    /\ UNCHANGED <<definitions, script, faults, origin, skipped, suspect>>

-----------------------------------------------------------------------------
\* UpdateJobDefinitionUseCase: save, then swap the scheduler.

\* Mutant of PatchedParams: the params are replaced wholesale (bug #51).
ReplacedParams(old) == [variant : Variants]

\* The params after a patch.  What is not a system key is replaced or dropped.
PatchedParams(old) ==
    {p \in Params : KeyPreserved => p.keyed = old.keyed}

ReadForPatch(t, d) ==
    /\ task[t].pc = "ready"
    /\ Exists(d)
    /\ \E e \in BOOLEAN, c \in Crons, p \in PatchedParams(definitions[d].params) :
          task' = [task EXCEPT ![t] =
              [pc |-> "save", def |-> d,
               row |-> [definitions[d] EXCEPT !.enabled = e, !.cron = c, !.params = p]]]
    /\ Begin(d)
    /\ UNCHANGED <<definitions, schedulers, faults, origin, skipped>>

\* The upsert inserts a row that was deleted meanwhile again.
SavePatch(t) ==
    LET d == task[t].def
        row == task[t].row
    IN /\ task[t].pc = "save"
       /\ IF Conflicts(d, row)
          THEN /\ task' = [task EXCEPT ![t] = At("done")]
               /\ UNCHANGED definitions
          ELSE /\ definitions' = Saved(d, row)
               /\ task' = [task EXCEPT ![t].pc = "unregister"]
       /\ UNCHANGED <<schedulers, script, faults, origin, skipped, suspect>>

\* The second call of a patch and the first of a delete.
Unregister(t) ==
    /\ task[t].pc = "unregister"
    /\ schedulers' = Removed(task[t].def)
    /\ task' = [task EXCEPT ![t].pc = IF t \in Patches THEN "register" ELSE "delete"]
    /\ UNCHANGED <<definitions, script, faults, origin, skipped, suspect>>

-----------------------------------------------------------------------------
\* DeleteJobDefinitionUseCase.

ReadForDelete(t, d) ==
    /\ task[t].pc = "ready"
    /\ Exists(d)
    /\ task' = [task EXCEPT ![t] = [At("unregister") EXCEPT !.def = d]]
    /\ Begin(d)
    /\ UNCHANGED <<definitions, schedulers, faults, origin, skipped>>

Delete(t) ==
    /\ task[t].pc = "delete"
    /\ definitions' = [definitions EXCEPT ![task[t].def] = None]
    /\ task' = [task EXCEPT ![t] = At("done")]
    /\ UNCHANGED <<schedulers, script, faults, origin, skipped, suspect>>

-----------------------------------------------------------------------------
\* ProviderFetchProcessor.handle: it reads the row and writes it back, disabled
\* if the run failed for good.  It never touches a scheduler.

ReadForRun(t, d) ==
    /\ task[t].pc = "ready"
    /\ Enabled(d)
    /\ \E e \in BOOLEAN :
          task' = [task EXCEPT ![t] =
              [pc |-> "saveRun", def |-> d, row |-> [definitions[d] EXCEPT !.enabled = e]]]
    /\ Begin(d)
    /\ UNCHANGED <<definitions, schedulers, faults, origin, skipped>>

SaveRun(t) ==
    LET d == task[t].def
        row == task[t].row
    IN /\ task[t].pc = "saveRun"
       /\ definitions' = IF Conflicts(d, row) THEN definitions ELSE Saved(d, row)
       /\ task' = [task EXCEPT ![t] = At("done")]
       /\ UNCHANGED <<schedulers, script, faults, origin, skipped, suspect>>

-----------------------------------------------------------------------------
\* reconcile-schedules.ts.

ReadEnabled ==
    /\ script.pc = "idle"
    /\ script' = [pc |-> "register",
                  read |-> [d \in Defs |-> IF Enabled(d) THEN definitions[d].cron ELSE None],
                  todo |-> {d \in Defs : Enabled(d)},
                  clean |-> {d \in Defs : ~Busy(d)}]
    /\ suspect' = suspect \cup {d \in Defs : Busy(d)}
    /\ UNCHANGED <<definitions, schedulers, task, faults, origin, skipped>>

\* Register the next definition, with the cron that was read.
RegisterEnabled ==
    /\ script.pc = "register"
    /\ \/ \E d \in script.todo :
             /\ schedulers' = Upserted(d, script.read[d])
             /\ script' = [script EXCEPT !.todo = @ \ {d}]
       \/ /\ script.todo = {}
          /\ script' = [script EXCEPT !.pc = "providers"]
          /\ UNCHANGED schedulers
    /\ UNCHANGED <<definitions, task, faults, origin, skipped, suspect>>

\* Only the queue of a provider that has a definition is looked at.
ReadProviders ==
    /\ script.pc = "providers"
    /\ script' = IF \E d \in Defs : Exists(d)
                 THEN [script EXCEPT !.pc = "list"]
                 ELSE Quiet
    /\ UNCHANGED <<definitions, schedulers, task, faults, origin, skipped, suspect>>

\* Mutant of Stale: only the schedulers of disabled definitions.
StaleDisabled == {d \in Defs : schedulers[d] # None /\ Exists(d) /\ script.read[d] = None}

\* Mutant of Stale: every scheduler, as if its key were compared with the
\* definitions that are still to be registered.
StaleAll == {d \in Defs : schedulers[d] # None /\ d \notin script.todo}

\* The schedulers of definitions that were not enabled at the start.
Stale == {d \in Defs : schedulers[d] # None /\ script.read[d] = None}

ListSchedulers ==
    /\ script.pc = "list"
    /\ script' = [script EXCEPT !.pc = "drop", !.todo = Stale]
    /\ UNCHANGED <<definitions, schedulers, task, faults, origin, skipped, suspect>>

\* Remove the next one; when there is none left, the script is done, and what
\* nothing else worked on meanwhile is back in order.
DropStale ==
    /\ script.pc = "drop"
    /\ \/ \E d \in script.todo :
             /\ schedulers' = Removed(d)
             /\ script' = [script EXCEPT !.todo = @ \ {d}]
             /\ UNCHANGED suspect
       \/ /\ script.todo = {}
          /\ script' = Quiet
          /\ suspect' = suspect \ script.clean
          /\ UNCHANGED schedulers
    /\ UNCHANGED <<definitions, task, faults, origin, skipped>>

-----------------------------------------------------------------------------
\* The call a task is at rejects, or its process dies: it goes no further.
TaskFails(t) ==
    /\ faults < MaxFaults
    /\ task[t].pc \notin {"ready", "done"}
    /\ task' = [task EXCEPT ![t] = At("done")]
    /\ suspect' = IF task[t].pc \in {"unregister", "register", "delete"}
                  THEN suspect \cup {task[t].def}
                  ELSE suspect
    /\ faults' = faults + 1
    /\ UNCHANGED <<definitions, schedulers, script, origin, skipped>>

ScriptFails ==
    /\ faults < MaxFaults
    /\ script.pc # "idle"
    /\ script' = Quiet
    /\ faults' = faults + 1
    /\ UNCHANGED <<definitions, schedulers, task, origin, skipped, suspect>>

-----------------------------------------------------------------------------
\* Some definitions exist already, no two with the same params.
Init ==
    /\ definitions \in [Defs -> {None} \cup
           {NewRow(v, c) : v \in Variants, c \in Crons}]
    /\ \A d, e \in Defs :
           Exists(d) /\ Exists(e) /\ d # e => definitions[d].hash # definitions[e].hash
    /\ schedulers = [d \in Defs |-> IF Exists(d) THEN definitions[d].cron ELSE None]
    /\ task = [t \in Tasks |-> At("ready")]
    /\ script = Quiet
    /\ faults = 0
    /\ origin = [d \in Defs |-> IF Exists(d) THEN definitions[d].params ELSE None]
    /\ skipped = {}
    /\ suspect = {}

Start(t) ==
    \/ t \in Schedules /\ BeginSchedule(t)
    \/ \E d \in Defs :
          \/ t \in Patches /\ ReadForPatch(t, d)
          \/ t \in Deletes /\ ReadForDelete(t, d)
          \/ t \in Executions /\ ReadForRun(t, d)

Continue(t) ==
    \/ Check(t) \/ Insert(t) \/ SavePatch(t) \/ Unregister(t) \/ Register(t)
    \/ Delete(t) \/ SaveRun(t)

Reconcile ==
    ReadEnabled \/ RegisterEnabled \/ ReadProviders \/ ListSchedulers \/ DropStale

Next ==
    \/ \E t \in Tasks : Start(t) \/ Continue(t) \/ TaskFails(t)
    \/ Reconcile
    \/ ScriptFails

Spec == Init /\ [][Next]_vars

\* A call that has begun goes on, and the script runs on every deploy.  No
\* request has to arrive.
FairSpec == Spec /\ WF_vars(Reconcile) /\ \A t \in Tasks : WF_vars(Continue(t))

-----------------------------------------------------------------------------
TypeOK ==
    /\ definitions \in [Defs -> Row \cup {None}]
    /\ schedulers \in [Defs -> Crons \cup {None}]
    /\ task \in [Tasks -> Task]
    /\ script \in Script
    /\ faults \in 0 .. MaxFaults
    /\ origin \in [Defs -> Params \cup {None}]
    /\ skipped \subseteq Params
    /\ suspect \subseteq Defs

Scheduled(d) == schedulers[d] = definitions[d].cron

\* A definition that is enabled has its scheduler, with its cron, as soon as no
\* call is working on it: overlapping calls and a call that failed between the
\* database and the queue are the only ways to lose it, and one run of the
\* reconcile script that overlaps none makes up for them.
EnabledIsScheduled ==
    \A d \in Defs : Enabled(d) /\ ~Busy(d) /\ d \notin suspect => Scheduled(d)

\* A definition that is gone has no scheduler that would tick for ever, with
\* the same exceptions.
DeletedIsUnscheduled ==
    \A d \in Defs : ~Exists(d) /\ ~Busy(d) /\ d \notin suspect => schedulers[d] = None

\* Whatever calls overlapped: once requests stop arriving, the script
\* brings every enabled definition's scheduler back for good ("Rebuilding from
\* the DB on every deploy keeps Postgres the single source of truth").
EventuallyScheduled == <>[](\A d \in Defs : Enabled(d) => Scheduled(d))

\* Of ADR 0001 ("Every auto-schedule handler MUST be idempotent"): an event
\* delivered twice, even concurrently and with patches in between, leaves one
\* definition for what it schedules.  Holds where nothing is deleted.
OneSchedulePerLink ==
    \A d, e \in Defs : Exists(d) /\ Exists(e) /\ d # e => origin[d] # origin[e]

\* Of the script's "This never removes a valid schedule, so there is no window
\* where an enabled definition is left unscheduled": the script takes away no
\* scheduler of a definition that is enabled.
ReconcileKeepsValid ==
    [][Reconcile => \A d \in Defs :
          Enabled(d) /\ schedulers[d] # None => schedulers'[d] # None]_vars

\* Of the AI-search auto-schedule ("so different locales + providers don't
\* collide despite sharing the key"): a call is only skipped for a definition
\* that was scheduled for the same variant.
VariantsDoNotCollide ==
    \A p \in skipped : \E d \in Defs : origin[d] = p
=============================================================================
