---------------------- MODULE ScheduleLifecycleProofs ----------------------
(***************************************************************************)
(* Proofs about ScheduleLifecycle: types, that a definition no call is     *)
(* working on and no overlap or failure has put in doubt has the scheduler *)
(* its row asks for, that an event leaves one definition, what the         *)
(* reconcile script loses and restores, and when schedules are mistaken    *)
(* for each other.                                                         *)
(***************************************************************************)
EXTENDS ScheduleLifecycle, TLAPS

Holding == {"save", "unregister", "register", "delete", "saveRun"}
WithRow == {"check", "insert", "save", "register", "saveRun"}

\* What the steps rely on the record s of task t to hold.
Equipped(t, s) ==
    /\ s.pc \in Holding <=> s.def # None
    /\ s.pc \in WithRow => s.row # None
    /\ s.pc = "unregister" /\ t \in Patches => s.row # None

TInv == TypeOK /\ \A t \in Tasks : Equipped(t, task[t])

\* Row and scheduler of d agree.
Synced(d) ==
    /\ Enabled(d) => Scheduled(d)
    /\ ~Exists(d) => schedulers[d] = None

RowIsSaved(t) ==
    LET d == task[t].def
    IN Exists(d) /\ definitions[d].enabled = task[t].row.enabled
                 /\ definitions[d].cron = task[t].row.cron

\* What holds of the definition a task works on, while nothing else does.
Fits(t) ==
    LET d == task[t].def
    IN /\ task[t].pc = "save" => Exists(d) /\ Synced(d)
       /\ task[t].pc = "unregister" /\ t \in Patches => RowIsSaved(t)
       /\ task[t].pc = "register" => RowIsSaved(t)
       /\ task[t].pc = "delete" => schedulers[d] = None
       /\ task[t].pc = "saveRun" => /\ Enabled(d) /\ Scheduled(d)
                                    /\ task[t].row.cron = definitions[d].cron

\* What holds of a definition that nothing is suspected about.
Trusted(d) ==
    /\ \A t, u \in Tasks : task[t].def = d /\ task[u].def = d => t = u
    /\ script.pc # "idle" => d \in script.clean
    /\ ~Busy(d) => Synced(d)
    /\ \A t \in Tasks : task[t].def = d => Fits(t)

\* How far the script is with a definition that nothing has worked on since it
\* began, suspected or not.
Restored(d) ==
    /\ ~Busy(d)
    /\ script.read[d] = IF Enabled(d) THEN definitions[d].cron ELSE None
    /\ Enabled(d) => Scheduled(d) \/ (script.pc = "register" /\ d \in script.todo)
    /\ script.pc = "drop" /\ ~Enabled(d) => schedulers[d] = None \/ d \in script.todo

\* The script registers what it read and drops what it did not.
Split ==
    /\ script.pc = "register" => \A d \in script.todo : script.read[d] # None
    /\ script.pc = "drop" => \A d \in script.todo : script.read[d] = None

Sound(d) ==
    /\ d \notin suspect => Trusted(d)
    /\ script.pc # "idle" /\ d \in script.clean => Restored(d)

IInv == TInv /\ Split /\ \A d \in Defs : Sound(d)

-----------------------------------------------------------------------------
\* The repository and the scheduler.

LEMMA SavedLemma ==
    ASSUME TypeOK, NEW d \in Defs, NEW row \in Row
    PROVE  /\ Saved(d, row) \in [Defs -> Row \cup {None}]
           /\ Saved(d, row)[d] # None
           /\ Saved(d, row)[d].enabled = row.enabled
           /\ Saved(d, row)[d].cron = row.cron
           /\ Saved(d, row)[d].hash = IF Exists(d) THEN definitions[d].hash ELSE row.params
           /\ \A e \in Defs \ {d} : Saved(d, row)[e] = definitions[e]
<1> DEFINE hash == IF Exists(d) THEN definitions[d].hash ELSE row.params
           new == [row EXCEPT !.hash = hash]
<1>1. hash \in Params
    <2>1. definitions[d] \in Row \cup {None}
        BY DEF TypeOK
    <2>2. Exists(d) => definitions[d].hash \in Params
        BY <2>1 DEF Exists, Row
    <2> QED BY <2>2 DEF Row
<1>2. new \in Row /\ new.enabled = row.enabled /\ new.cron = row.cron /\ new.hash = hash
    BY <1>1 DEF Row
<1>3. new # None
    BY <1>2, NoneAssumption
<1>4. Saved(d, row) = [definitions EXCEPT ![d] = new]
    BY DEF Saved
<1> HIDE DEF new
<1> QED BY <1>2, <1>3, <1>4 DEF TypeOK

LEMMA SchedulerLemma ==
    ASSUME TypeOK, NEW d \in Defs
    PROVE  /\ \A c \in Crons : Upserted(d, c) \in [Defs -> Crons \cup {None}]
           /\ Removed(d) \in [Defs -> Crons \cup {None}]
           /\ \A row \in Row : Registered(d, row) \in [Defs -> Crons \cup {None}]
BY DEF TypeOK, Upserted, Removed, Registered, Row

-----------------------------------------------------------------------------
\* Types.

\* The five fields of a task record, and the states a task is put in.
LEMMA AtLemma ==
    ASSUME NEW pc \in TaskPC
    PROVE  At(pc) \in Task /\ At(pc).pc = pc /\ At(pc).def = None /\ At(pc).row = None
BY DEF At, Task

LEMMA InitTypes ==
    Init => TInv
<1> SUFFICES ASSUME Init PROVE TInv
    OBVIOUS
<1>1. \A v \in Variants, c \in Crons : NewRow(v, c) \in Row
    BY KeyAssumption DEF NewRow, Row, Params
<1>2. definitions \in [Defs -> Row \cup {None}]
    BY <1>1 DEF Init
<1>3. /\ \A d \in Defs : Exists(d) => definitions[d] \in Row
      /\ \A d \in Defs : Exists(d) => /\ definitions[d].cron \in Crons
                                      /\ definitions[d].params \in Params
    BY <1>2 DEF Exists, Row
<1>4. At("ready") \in Task /\ At("ready").pc = "ready" /\ At("ready").def = None
    BY AtLemma DEF TaskPC
<1>5. Quiet \in Script
    BY DEF Quiet, Script, ScriptPC
<1>6. TypeOK
    BY <1>2, <1>3, <1>4, <1>5, BoundAssumption DEF Init, TypeOK
<1>7. \A t \in Tasks : Equipped(t, task[t])
    BY <1>4 DEF Init, Equipped, Holding, WithRow
<1> QED BY <1>6, <1>7 DEF TInv

\* A step that gives t the record s keeps the tasks typed and equipped.
LEMMA TaskStep ==
    ASSUME TInv, NEW t \in Tasks, NEW s \in Task, Equipped(t, s),
           task' = [task EXCEPT ![t] = s]
    PROVE  task' \in [Tasks -> Task] /\ \A u \in Tasks : Equipped(u, task'[u])
BY DEF TInv, TypeOK

\* A finished task.
LEMMA TaskEnds ==
    ASSUME TInv, NEW t \in Tasks, task' = [task EXCEPT ![t] = At("done")]
    PROVE  task' \in [Tasks -> Task] /\ \A u \in Tasks : Equipped(u, task'[u])
<1>1. At("done") \in Task /\ Equipped(t, At("done"))
    BY AtLemma DEF TaskPC, Equipped, Holding, WithRow
<1> QED BY <1>1, TaskStep

\* A task that moves on with the definition and the row it holds.
LEMMA TaskMoves ==
    ASSUME TInv, NEW t \in Tasks, NEW pc \in TaskPC,
           pc \in Holding <=> task[t].def # None,
           pc \in WithRow \/ (pc = "unregister" /\ t \in Patches) => task[t].row # None,
           task' = [task EXCEPT ![t].pc = pc]
    PROVE  task' \in [Tasks -> Task] /\ \A u \in Tasks : Equipped(u, task'[u])
<1> DEFINE s == [task[t] EXCEPT !.pc = pc]
<1>1. s \in Task /\ s.pc = pc /\ s.def = task[t].def /\ s.row = task[t].row
    BY DEF TInv, TypeOK, Task
<1>2. Equipped(t, s)
    BY <1>1 DEF Equipped
<1>3. task' = [task EXCEPT ![t] = s]
    BY DEF TInv, TypeOK
<1> HIDE DEF s
<1> QED BY <1>1, <1>2, <1>3, TaskStep

\* The fields of a task that is at work.
LEMMA TaskFields ==
    ASSUME TInv, NEW t \in Tasks
    PROVE  /\ task[t] \in Task
           /\ task[t].pc \in Holding => task[t].def \in Defs
           /\ task[t].pc \in WithRow => task[t].row \in Row
           /\ task[t].pc = "unregister" /\ t \in Patches => task[t].row \in Row
           /\ task[t].pc \notin Holding => task[t].def = None
BY DEF TInv, TypeOK, Task, Equipped

LEMMA BeginTypes ==
    ASSUME TypeOK, NEW d \in Defs, Begin(d)
    PROVE  /\ suspect' \subseteq Defs
           /\ script' \in Script
           /\ script' = [script EXCEPT !.clean = script.clean \ {d}]
<1>1. script' = [script EXCEPT !.clean = script.clean \ {d}]
    BY DEF Begin
<1>2. script' \in Script
    BY <1>1 DEF TypeOK, Script
<1> QED BY <1>1, <1>2 DEF Begin, TypeOK

LEMMA StepTypes ==
    TInv /\ [Next]_vars => TInv'
<1> SUFFICES ASSUME TInv, [Next]_vars PROVE TInv'
    OBVIOUS
<1> USE DEF TInv
<1>1. ASSUME NEW t \in Tasks, BeginSchedule(t) PROVE TInv'
    <2>1. PICK v \in Variants, c \in Crons :
              task' = [task EXCEPT ![t] = [At("check") EXCEPT !.row = NewRow(v, c)]]
        BY <1>1 DEF BeginSchedule
    <2>2. NewRow(v, c) \in Row
        BY KeyAssumption DEF NewRow, Row, Params
    <2> DEFINE s == [At("check") EXCEPT !.row = NewRow(v, c)]
    <2>3. s \in Task /\ s.pc = "check" /\ s.def = None /\ s.row \in Row
        BY <2>2 DEF At, Task, TaskPC
    <2>4. Equipped(t, s)
        BY <2>3, NoneAssumption DEF Equipped, Holding, WithRow
    <2> HIDE DEF s
    <2> QED BY <1>1, <2>1, <2>3, <2>4, TaskStep DEF BeginSchedule, TypeOK, s
<1>2. ASSUME NEW t \in Tasks, Check(t) PROVE TInv'
    <2>1. task[t].row \in Row /\ task[t].row # None /\ task[t].def = None
        BY <1>2, TaskFields, NoneAssumption DEF Check, WithRow, Holding
    <2>2. task[t].row.params \in Params
        BY <2>1 DEF Row
    <2>3. skipped' \subseteq Params
        BY <1>2, <2>2 DEF Check, TypeOK
    <2>4. task' \in [Tasks -> Task] /\ \A u \in Tasks : Equipped(u, task'[u])
        <3>1. CASE task' = [task EXCEPT ![t] = At("done")]
            BY <3>1, TaskEnds
        <3>2. CASE task' = [task EXCEPT ![t].pc = "insert"]
            BY <3>2, <2>1, TaskMoves DEF TaskPC, Holding, WithRow
        <3> QED BY <1>2, <3>1, <3>2 DEF Check
    <2> QED BY <1>2, <2>3, <2>4 DEF Check, TypeOK
<1>3. ASSUME NEW t \in Tasks, Insert(t) PROVE TInv'
    <2>1. task[t].row \in Row /\ task[t].row # None
        BY <1>3, TaskFields, NoneAssumption DEF Insert, WithRow
    <2>2. PICK d \in Defs :
             IF Conflicts(d, task[t].row)
             THEN /\ task' = [task EXCEPT ![t] = At("done")]
                  /\ UNCHANGED <<definitions, script, origin, suspect>>
             ELSE /\ definitions' = Saved(d, task[t].row)
                  /\ origin' = [origin EXCEPT ![d] = task[t].row.params]
                  /\ task' = [task EXCEPT ![t].pc = "register", ![t].def = d]
                  /\ Begin(d)
        BY <1>3 DEF Insert
    <2>3. CASE Conflicts(d, task[t].row)
        BY <1>3, <2>2, <2>3, TaskEnds DEF Insert, TypeOK
    <2>4. CASE ~Conflicts(d, task[t].row)
        <3> DEFINE s == [task[t] EXCEPT !.pc = "register", !.def = d]
        <3>1. s \in Task /\ s.pc = "register" /\ s.def = d /\ s.row = task[t].row
            BY TaskFields DEF Task, TaskPC
        <3>2. Equipped(t, s)
            BY <2>1, <3>1, NoneAssumption DEF Equipped, Holding, WithRow
        <3>3. task' = [task EXCEPT ![t] = s]
            BY <2>2, <2>4 DEF TypeOK
        <3> HIDE DEF s
        <3>4. task' \in [Tasks -> Task] /\ \A u \in Tasks : Equipped(u, task'[u])
            BY <3>1, <3>2, <3>3, TaskStep
        <3>5. definitions' \in [Defs -> Row \cup {None}]
            BY <2>1, <2>2, <2>4, SavedLemma
        <3>6. task[t].row.params \in Params
            BY <2>1 DEF Row
        <3> QED BY <1>3, <2>2, <2>4, <3>4, <3>5, <3>6, BeginTypes DEF Insert, TypeOK
    <2> QED BY <2>3, <2>4
<1>4. ASSUME NEW t \in Tasks, Register(t) PROVE TInv'
    <2>1. task[t].row \in Row /\ task[t].def \in Defs
        BY <1>4, TaskFields DEF Register, WithRow, Holding
    <2> QED BY <1>4, <2>1, TaskEnds, SchedulerLemma DEF Register, TypeOK
<1>5. ASSUME NEW t \in Tasks, NEW d \in Defs, ReadForPatch(t, d) PROVE TInv'
    <2>1. definitions[d] \in Row
        BY <1>5 DEF ReadForPatch, Exists, TypeOK
    <2>2. PICK e \in BOOLEAN, c \in Crons, p \in PatchedParams(definitions[d].params) :
              task' = [task EXCEPT ![t] =
                  [pc |-> "save", def |-> d,
                   row |-> [definitions[d] EXCEPT !.enabled = e, !.cron = c, !.params = p]]]
        BY <1>5 DEF ReadForPatch
    <2> DEFINE row == [definitions[d] EXCEPT !.enabled = e, !.cron = c, !.params = p]
               s == [pc |-> "save", def |-> d, row |-> row]
    <2>3. row \in Row
        BY <2>1 DEF Row, PatchedParams
    <2> HIDE DEF row
    <2>4. s \in Task /\ Equipped(t, s)
        BY <2>3, NoneAssumption DEF Task, TaskPC, Equipped, Holding, WithRow
    <2>5. task' = [task EXCEPT ![t] = s]
        BY <2>2 DEF row
    <2> HIDE DEF s
    <2> QED BY <1>5, <2>4, <2>5, TaskStep, BeginTypes DEF ReadForPatch, TypeOK
<1>6. ASSUME NEW t \in Tasks, SavePatch(t) PROVE TInv'
    <2>1. task[t].row \in Row /\ task[t].def \in Defs
        BY <1>6, TaskFields DEF SavePatch, WithRow, Holding
    <2>2. definitions' \in [Defs -> Row \cup {None}]
        BY <1>6, <2>1, SavedLemma DEF SavePatch, TypeOK
    <2>3. task' \in [Tasks -> Task] /\ \A u \in Tasks : Equipped(u, task'[u])
        <3>1. CASE task' = [task EXCEPT ![t] = At("done")]
            BY <3>1, TaskEnds
        <3>2. CASE task' = [task EXCEPT ![t].pc = "unregister"]
            BY <3>2, <2>1, NoneAssumption, TaskMoves DEF TaskPC, Holding, WithRow
        <3> QED BY <1>6, <3>1, <3>2 DEF SavePatch
    <2> QED BY <1>6, <2>2, <2>3 DEF SavePatch, TypeOK
<1>7. ASSUME NEW t \in Tasks, Unregister(t) PROVE TInv'
    <2>1. task[t].def \in Defs /\ (t \in Patches => task[t].row \in Row)
        BY <1>7, TaskFields DEF Unregister, Holding
    <2>2. task' \in [Tasks -> Task] /\ \A u \in Tasks : Equipped(u, task'[u])
        <3>1. CASE t \in Patches
            BY <1>7, <2>1, <3>1, NoneAssumption, TaskMoves DEF Unregister, TaskPC, Holding, WithRow
        <3>2. CASE t \notin Patches
            BY <1>7, <2>1, <3>2, NoneAssumption, TaskMoves DEF Unregister, TaskPC, Holding, WithRow
        <3> QED BY <3>1, <3>2
    <2> QED BY <1>7, <2>1, <2>2, SchedulerLemma DEF Unregister, TypeOK
<1>8. ASSUME NEW t \in Tasks, NEW d \in Defs, ReadForDelete(t, d), t \in Deletes PROVE TInv'
    <2> DEFINE s == [At("unregister") EXCEPT !.def = d]
    <2>1. s \in Task /\ s.pc = "unregister" /\ s.def = d
        BY DEF At, Task, TaskPC
    <2>2. Equipped(t, s)
        BY <1>8, <2>1, NoneAssumption, TasksAssumption DEF Equipped, Holding, WithRow
    <2>3. task' = [task EXCEPT ![t] = s]
        BY <1>8 DEF ReadForDelete
    <2> HIDE DEF s
    <2> QED BY <1>8, <2>1, <2>2, <2>3, TaskStep, BeginTypes DEF ReadForDelete, TypeOK
<1>9. ASSUME NEW t \in Tasks, Delete(t) PROVE TInv'
    BY <1>9, TaskEnds DEF Delete, TypeOK
<1>10. ASSUME NEW t \in Tasks, NEW d \in Defs, ReadForRun(t, d) PROVE TInv'
    <2>1. definitions[d] \in Row
        BY <1>10 DEF ReadForRun, Enabled, Exists, TypeOK
    <2>2. PICK e \in BOOLEAN :
              task' = [task EXCEPT ![t] =
                  [pc |-> "saveRun", def |-> d, row |-> [definitions[d] EXCEPT !.enabled = e]]]
        BY <1>10 DEF ReadForRun
    <2> DEFINE row == [definitions[d] EXCEPT !.enabled = e]
               s == [pc |-> "saveRun", def |-> d, row |-> row]
    <2>3. row \in Row
        BY <2>1 DEF Row
    <2> HIDE DEF row
    <2>4. s \in Task /\ Equipped(t, s)
        BY <2>3, NoneAssumption DEF Task, TaskPC, Equipped, Holding, WithRow
    <2>5. task' = [task EXCEPT ![t] = s]
        BY <2>2 DEF row
    <2> HIDE DEF s
    <2> QED BY <1>10, <2>4, <2>5, TaskStep, BeginTypes DEF ReadForRun, TypeOK
<1>11. ASSUME NEW t \in Tasks, SaveRun(t) PROVE TInv'
    <2>1. task[t].row \in Row /\ task[t].def \in Defs
        BY <1>11, TaskFields DEF SaveRun, WithRow, Holding
    <2> QED BY <1>11, <2>1, TaskEnds, SavedLemma DEF SaveRun, TypeOK
<1>12. ASSUME Reconcile \/ ScriptFails PROVE TInv'
    <2>1. /\ schedulers' \in [Defs -> Crons \cup {None}]
          /\ script' \in Script
          /\ suspect' \subseteq Defs
          /\ faults' \in 0 .. MaxFaults
        <3>1. Quiet \in Script
            BY DEF Quiet, Script, ScriptPC
        <3>2. CASE ReadEnabled
            <4>1. \A d \in Defs : Enabled(d) => definitions[d].cron \in Crons
                BY DEF Enabled, Exists, TypeOK, Row
            <4> QED BY <3>2, <4>1 DEF ReadEnabled, Script, ScriptPC, TypeOK
        <3>3. CASE RegisterEnabled
            <4>1. ASSUME NEW d \in script.todo PROVE script.read[d] \in Crons \cup {None}
                BY DEF TypeOK, Script
            <4> QED BY <3>3, <4>1 DEF RegisterEnabled, Upserted, Script, ScriptPC, TypeOK
        <3>4. CASE ReadProviders
            BY <3>1, <3>4 DEF ReadProviders, Script, ScriptPC, TypeOK
        <3>5. CASE ListSchedulers
            BY <3>5 DEF ListSchedulers, Stale, Script, ScriptPC, TypeOK
        <3>6. CASE DropStale
            BY <3>1, <3>6 DEF DropStale, Removed, Script, ScriptPC, TypeOK
        <3>7. CASE ScriptFails
            BY <3>1, <3>7, BoundAssumption DEF ScriptFails, TypeOK
        <3> QED BY <1>12, <3>2, <3>3, <3>4, <3>5, <3>6, <3>7 DEF Reconcile
    <2>2. UNCHANGED <<definitions, task, origin, skipped>>
        BY <1>12 DEF Reconcile, ReadEnabled, RegisterEnabled, ReadProviders,
                     ListSchedulers, DropStale, ScriptFails
    <2> QED BY <2>1, <2>2 DEF TypeOK
<1>13. ASSUME NEW t \in Tasks, TaskFails(t) PROVE TInv'
    <2>1. task[t].pc \in Holding => task[t].def \in Defs
        BY TaskFields
    <2>2. suspect' \subseteq Defs /\ faults' \in 0 .. MaxFaults
        BY <1>13, <2>1, BoundAssumption DEF TaskFails, Holding, TypeOK
    <2> QED BY <1>13, <2>2, TaskEnds DEF TaskFails, TypeOK
<1>14. ASSUME UNCHANGED vars PROVE TInv'
    BY <1>14 DEF vars, TypeOK
<1> QED BY <1>1, <1>2, <1>3, <1>4, <1>5, <1>6, <1>7, <1>8, <1>9, <1>10, <1>11, <1>12,
           <1>13, <1>14 DEF Next, Start, Continue

\* The model is well typed for every number of definitions and calls.
THEOREM TypeCorrect ==
    Spec => []TypeOK
<1>1. Spec => []TInv
    BY InitTypes, StepTypes, PTL DEF Spec
<1>2. TInv => TypeOK
    BY DEF TInv
<1> QED BY <1>1, <1>2, PTL

-----------------------------------------------------------------------------
\* A step of a task, seen from the definitions.

\* A definition the task neither works on nor comes to work on.
LEMMA Elsewhere ==
    ASSUME TInv, NEW d \in Defs, Sound(d),
           NEW t \in Tasks, NEW s \in Task, task' = [task EXCEPT ![t] = s],
           task[t].def # d, s.def # d,
           definitions'[d] = definitions[d], schedulers'[d] = schedulers[d],
           script'.pc = script.pc, script'.read = script.read, script'.todo = script.todo,
           d \in script'.clean <=> d \in script.clean,
           d \in suspect' <=> d \in suspect
    PROVE  Sound(d)'
<1>1. \A u \in Tasks : /\ task'[u].def = d <=> task[u].def = d
                       /\ task'[u].def = d => task'[u] = task[u]
    BY DEF TInv, TypeOK
<1>2. Busy(d)' <=> Busy(d)
    BY <1>1 DEF Busy
<1>3. /\ Exists(d)' <=> Exists(d)
      /\ Enabled(d)' <=> Enabled(d)
      /\ Scheduled(d)' <=> Scheduled(d)
      /\ Synced(d)' <=> Synced(d)
    BY DEF Exists, Enabled, Scheduled, Synced
<1>4. Trusted(d) => Trusted(d)'
    <2> SUFFICES ASSUME Trusted(d) PROVE Trusted(d)'
        OBVIOUS
    <2>1. ASSUME NEW u \in Tasks, task'[u].def = d PROVE Fits(u)'
        <3>1. task'[u] = task[u] /\ task[u].def = d /\ Fits(u)
            BY <1>1, <2>1 DEF Trusted
        <3> QED BY <1>3, <3>1 DEF Fits, RowIsSaved, Exists, Enabled, Scheduled, Synced
    <2> QED BY <1>1, <1>2, <1>3, <2>1 DEF Trusted
<1>5. Restored(d) => Restored(d)'
    BY <1>2, <1>3 DEF Restored
<1> QED BY <1>4, <1>5 DEF Sound

\* A task that works on no definition, before and after.
LEMMA IdleStep ==
    ASSUME IInv, NEW t \in Tasks, NEW s \in Task, task' = [task EXCEPT ![t] = s],
           task[t].def = None, s.def = None,
           UNCHANGED <<definitions, schedulers, script, suspect>>
    PROVE  Split' /\ \A d \in Defs : Sound(d)'
<1>1. \A d \in Defs : Sound(d)'
    BY Elsewhere, NoneAssumption DEF IInv
<1>2. Split'
    BY DEF IInv, Split
<1> QED BY <1>1, <1>2

\* A task that goes on working on d, or stops.
LEMMA OwnStep ==
    ASSUME IInv, NEW t \in Tasks, NEW s \in Task, task' = [task EXCEPT ![t] = s],
           NEW d \in Defs, task[t].def = d, s.def \in {d, None},
           UNCHANGED script, suspect' \in {suspect, suspect \cup {d}},
           \A e \in Defs \ {d} : definitions'[e] = definitions[e] /\ schedulers'[e] = schedulers[e],
           d \notin suspect' /\ Fits(t) => IF s.def = d THEN Fits(t)' ELSE Synced(d)'
    PROVE  Split' /\ \A e \in Defs : Sound(e)'
<1>1. ASSUME NEW e \in Defs \ {d} PROVE Sound(e)'
    <2>1. s.def # e /\ task[t].def # e
        BY NoneAssumption
    <2>2. e \in suspect' <=> e \in suspect
        OBVIOUS
    <2> QED BY <2>1, <2>2, Elsewhere DEF IInv
<1>2. Sound(d)'
    <2>1. Sound(d) /\ Busy(d)
        BY DEF IInv, Busy
    <2>2. ~(script.pc # "idle" /\ d \in script.clean)
        BY <2>1 DEF Sound, Restored
    <2>3. ASSUME d \notin suspect' PROVE Trusted(d)'
        <3>1. Trusted(d)
            BY <2>1, <2>3 DEF Sound
        <3>2. \A u \in Tasks : task[u].def = d => u = t
            BY <3>1 DEF Trusted
        <3>3. \A u \in Tasks : task'[u].def = d => u = t
            BY <3>2 DEF IInv, TInv, TypeOK
        <3>4. task'[t] = s
            BY DEF IInv, TInv, TypeOK
        <3>5. IF s.def = d THEN Fits(t)' ELSE Synced(d)'
            BY <2>3, <3>1 DEF Trusted
        <3>6. s.def = d => Busy(d)'
            BY <3>4 DEF Busy
        <3>7. s.def # d => \A u \in Tasks : task'[u].def # d
            BY <3>3, <3>4
        <3>8. s.def # d => ~Busy(d)'
            BY <3>7 DEF Busy
        <3> QED BY <2>2, <3>1, <3>3, <3>5, <3>6, <3>7, <3>8 DEF Trusted
    <2> QED BY <2>2, <2>3 DEF Sound
<1>3. Split'
    BY DEF IInv, Split
<1> QED BY <1>1, <1>2, <1>3

\* A task that begins to work on d.
LEMMA BeginStep ==
    ASSUME IInv, NEW t \in Tasks, NEW s \in Task, task' = [task EXCEPT ![t] = s],
           NEW d \in Defs, task[t].def = None, s.def = d, Begin(d),
           UNCHANGED schedulers,
           \A e \in Defs \ {d} : definitions'[e] = definitions[e],
           Synced(d) => Fits(t)'
    PROVE  Split' /\ \A e \in Defs : Sound(e)'
<1>1. /\ script'.pc = script.pc /\ script'.read = script.read /\ script'.todo = script.todo
      /\ script'.clean = script.clean \ {d}
    BY DEF IInv, TInv, TypeOK, Script, Begin
<1>2. ASSUME NEW e \in Defs \ {d} PROVE Sound(e)'
    <2>1. s.def # e /\ task[t].def # e
        BY NoneAssumption
    <2>2. /\ e \in suspect' <=> e \in suspect
          /\ e \in script'.clean <=> e \in script.clean
        BY <1>1 DEF Begin
    <2> QED BY <1>1, <2>1, <2>2, Elsewhere DEF IInv
<1>3. Sound(d)'
    <2>1. d \notin script'.clean
        BY <1>1
    <2>2. ASSUME d \notin suspect' PROVE Trusted(d)'
        <3>1. ~Busy(d) /\ script.pc = "idle" /\ d \notin suspect
            BY <2>2 DEF Begin
        <3>2. Synced(d)
            BY <3>1 DEF IInv, Sound, Trusted
        <3>3. \A u \in Tasks : task[u].def # d
            BY <3>1 DEF Busy
        <3>4. task'[t] = s /\ \A u \in Tasks \ {t} : task'[u] = task[u]
            BY DEF IInv, TInv, TypeOK
        <3>5. \A u \in Tasks : task'[u].def = d => u = t
            BY <3>3, <3>4
        <3>6. Busy(d)'
            BY <3>4 DEF Busy
        <3> QED BY <1>1, <3>1, <3>2, <3>5, <3>6 DEF Trusted
    <2> QED BY <2>1, <2>2 DEF Sound
<1>4. Split'
    BY <1>1 DEF IInv, Split
<1> QED BY <1>2, <1>3, <1>4

-----------------------------------------------------------------------------
\* The invariant, task by task.

\* The two forms in which a task's record changes.
LEMMA Records ==
    ASSUME TInv, NEW t \in Tasks
    PROVE  /\ At("done") \in Task /\ At("done").def = None
           /\ \A pc \in TaskPC :
                 LET s == [task[t] EXCEPT !.pc = pc]
                 IN /\ s \in Task /\ s.pc = pc /\ s.def = task[t].def /\ s.row = task[t].row
                    /\ [task EXCEPT ![t].pc = pc] = [task EXCEPT ![t] = s]
BY AtLemma DEF TInv, TypeOK, Task, TaskPC

LEMMA ScheduleSteps ==
    ASSUME IInv, NEW t \in Tasks, BeginSchedule(t) \/ Check(t) \/ Insert(t)
    PROVE  Split' /\ \A d \in Defs : Sound(d)'
<1>1. CASE BeginSchedule(t)
    <2>1. PICK v \in Variants, c \in Crons :
              task' = [task EXCEPT ![t] = [At("check") EXCEPT !.row = NewRow(v, c)]]
        BY <1>1 DEF BeginSchedule
    <2> DEFINE s == [At("check") EXCEPT !.row = NewRow(v, c)]
    <2>2. NewRow(v, c) \in Row
        BY KeyAssumption DEF NewRow, Row, Params
    <2>3. s \in Task /\ s.def = None
        BY <2>2 DEF At, Task, TaskPC
    <2>4. task[t].def = None
        BY <1>1, TaskFields DEF BeginSchedule, Holding, IInv
    <2> HIDE DEF s
    <2> QED BY <1>1, <2>1, <2>3, <2>4, IdleStep DEF BeginSchedule, s
<1>2. CASE Check(t)
    <2>1. task[t].def = None
        BY <1>2, TaskFields DEF Check, Holding, IInv
    <2>2. PICK s \in Task : s.def = None /\ task' = [task EXCEPT ![t] = s]
        BY <1>2, <2>1, Records DEF Check, TaskPC, IInv
    <2> QED BY <1>2, <2>1, <2>2, IdleStep DEF Check
<1>3. CASE Insert(t)
    <2>1. task[t].row \in Row /\ task[t].def = None
        BY <1>3, TaskFields DEF Insert, WithRow, Holding, IInv
    <2>2. PICK d \in Defs :
             IF Conflicts(d, task[t].row)
             THEN /\ task' = [task EXCEPT ![t] = At("done")]
                  /\ UNCHANGED <<definitions, script, origin, suspect>>
             ELSE /\ definitions' = Saved(d, task[t].row)
                  /\ origin' = [origin EXCEPT ![d] = task[t].row.params]
                  /\ task' = [task EXCEPT ![t].pc = "register", ![t].def = d]
                  /\ Begin(d)
        BY <1>3 DEF Insert
    <2>3. CASE Conflicts(d, task[t].row)
        <3>1. task' = [task EXCEPT ![t] = At("done")]
              /\ UNCHANGED <<definitions, schedulers, script, suspect>>
            BY <1>3, <2>2, <2>3 DEF Insert
        <3> QED BY <2>1, <3>1, Records, IdleStep DEF IInv
    <2>4. CASE ~Conflicts(d, task[t].row)
        <3> DEFINE s == [task[t] EXCEPT !.pc = "register", !.def = d]
        <3>1. s \in Task /\ s.pc = "register" /\ s.def = d /\ s.row = task[t].row
            BY TaskFields DEF Task, TaskPC, IInv
        <3>2. task' = [task EXCEPT ![t] = s]
            BY <2>2, <2>4 DEF IInv, TInv, TypeOK
        <3> HIDE DEF s
        <3>3. task'[t] = s
            BY <3>2 DEF IInv, TInv, TypeOK
        <3>4. Fits(t)'
            BY <2>1, <2>2, <2>4, <3>1, <3>3, SavedLemma
            DEF Fits, RowIsSaved, Exists, IInv, TInv
        <3>5. \A e \in Defs \ {d} : definitions'[e] = definitions[e]
            BY <2>1, <2>2, <2>4, SavedLemma DEF IInv, TInv
        <3>6. Begin(d) /\ UNCHANGED schedulers
            BY <1>3, <2>2, <2>4 DEF Insert
        <3> QED BY <2>1, <3>1, <3>2, <3>4, <3>5, <3>6, BeginStep
    <2> QED BY <2>3, <2>4
<1> QED BY <1>1, <1>2, <1>3

LEMMA ReadSteps ==
    ASSUME IInv, NEW t \in Tasks, NEW d \in Defs,
           ReadForPatch(t, d) \/ (ReadForDelete(t, d) /\ t \in Deletes) \/ ReadForRun(t, d)
    PROVE  Split' /\ \A e \in Defs : Sound(e)'
<1>1. task[t].def = None /\ Begin(d) /\ Exists(d) /\ UNCHANGED <<definitions, schedulers>>
    BY TaskFields DEF ReadForPatch, ReadForDelete, ReadForRun, Enabled, Holding, IInv
<1>2. definitions[d] \in Row
    BY <1>1 DEF Exists, IInv, TInv, TypeOK
<1>3. CASE ReadForPatch(t, d)
    <2>1. PICK e \in BOOLEAN, c \in Crons, p \in PatchedParams(definitions[d].params) :
              task' = [task EXCEPT ![t] =
                  [pc |-> "save", def |-> d,
                   row |-> [definitions[d] EXCEPT !.enabled = e, !.cron = c, !.params = p]]]
        BY <1>3 DEF ReadForPatch
    <2> DEFINE row == [definitions[d] EXCEPT !.enabled = e, !.cron = c, !.params = p]
               s == [pc |-> "save", def |-> d, row |-> row]
    <2>2. row \in Row
        BY <1>2 DEF Row, PatchedParams
    <2> HIDE DEF row
    <2>3. s \in Task /\ s.pc = "save" /\ s.def = d
        BY <2>2 DEF Task, TaskPC
    <2>4. task' = [task EXCEPT ![t] = s]
        BY <2>1 DEF row
    <2> HIDE DEF s
    <2>5. task'[t] = s
        BY <2>4 DEF IInv, TInv, TypeOK
    <2>6. Synced(d) => Fits(t)'
        BY <1>1, <2>3, <2>5 DEF Fits, Synced, Exists, Enabled, Scheduled
    <2> QED BY <1>1, <2>3, <2>4, <2>6, BeginStep
<1>4. CASE ReadForDelete(t, d) /\ t \in Deletes
    <2> DEFINE s == [At("unregister") EXCEPT !.def = d]
    <2>1. s \in Task /\ s.pc = "unregister" /\ s.def = d
        BY DEF At, Task, TaskPC
    <2>2. task' = [task EXCEPT ![t] = s]
        BY <1>4 DEF ReadForDelete
    <2> HIDE DEF s
    <2>3. task'[t] = s
        BY <2>2 DEF IInv, TInv, TypeOK
    <2>4. Fits(t)'
        BY <1>4, <2>1, <2>3, TasksAssumption DEF Fits
    <2> QED BY <1>1, <2>1, <2>2, <2>4, BeginStep
<1>5. CASE ReadForRun(t, d)
    <2>1. PICK e \in BOOLEAN :
              task' = [task EXCEPT ![t] =
                  [pc |-> "saveRun", def |-> d, row |-> [definitions[d] EXCEPT !.enabled = e]]]
        BY <1>5 DEF ReadForRun
    <2> DEFINE row == [definitions[d] EXCEPT !.enabled = e]
               s == [pc |-> "saveRun", def |-> d, row |-> row]
    <2>2. row \in Row /\ row.cron = definitions[d].cron
        BY <1>2 DEF Row
    <2> HIDE DEF row
    <2>3. s \in Task /\ s.pc = "saveRun" /\ s.def = d /\ s.row = row
        BY <2>2 DEF Task, TaskPC
    <2>4. task' = [task EXCEPT ![t] = s]
        BY <2>1 DEF row
    <2> HIDE DEF s
    <2>5. task'[t] = s
        BY <2>4 DEF IInv, TInv, TypeOK
    <2>6. Enabled(d)
        BY <1>5 DEF ReadForRun
    <2>7. Synced(d) => Fits(t)'
        BY <1>1, <2>2, <2>3, <2>5, <2>6 DEF Fits, Synced, Exists, Enabled, Scheduled
    <2> QED BY <1>1, <2>3, <2>4, <2>7, BeginStep
<1> QED BY <1>3, <1>4, <1>5

LEMMA SavePatchStep ==
    ASSUME IInv, NEW t \in Tasks, SavePatch(t)
    PROVE  Split' /\ \A d \in Defs : Sound(d)'
<1>0. PICK d \in Defs : d = task[t].def
    BY TaskFields DEF SavePatch, Holding, IInv
<1> DEFINE row == task[t].row
<1>1. row \in Row /\ task[t].pc = "save"
    BY TaskFields DEF SavePatch, WithRow, Holding, IInv
<1>2. UNCHANGED <<schedulers, script, suspect>>
    BY <1>0 DEF SavePatch
<1>3. CASE Conflicts(d, row)
    <2>1. task' = [task EXCEPT ![t] = At("done")] /\ UNCHANGED definitions
        BY <1>0, <1>3 DEF SavePatch
    <2>2. ~Fits(t)
        BY <1>0, <1>1, <1>3 DEF Fits, Conflicts
    <2> QED BY <1>0, <1>1, <1>2, <2>1, <2>2, Records, OwnStep DEF IInv
<1>4. CASE ~Conflicts(d, row)
    <2> DEFINE s == [task[t] EXCEPT !.pc = "unregister"]
    <2>1. s \in Task /\ s.pc = "unregister" /\ s.def = d /\ s.row = row
          /\ task' = [task EXCEPT ![t] = s] /\ definitions' = Saved(d, row)
        BY <1>0, <1>4, Records DEF SavePatch, TaskPC, IInv
    <2> HIDE DEF s
    <2>2. task'[t] = s
        BY <2>1 DEF IInv, TInv, TypeOK
    <2>3. /\ definitions'[d] # None
          /\ definitions'[d].enabled = row.enabled
          /\ definitions'[d].cron = row.cron
          /\ \A e \in Defs \ {d} : definitions'[e] = definitions[e]
        BY <1>0, <1>1, <2>1, SavedLemma DEF IInv, TInv
    <2>4. Fits(t)'
        BY <2>1, <2>2, <2>3 DEF Fits, RowIsSaved, Exists
    <2> QED BY <1>0, <1>1, <1>2, <2>1, <2>3, <2>4, OwnStep
<1> QED BY <1>3, <1>4

LEMMA UnregisterStep ==
    ASSUME IInv, NEW t \in Tasks, Unregister(t)
    PROVE  Split' /\ \A d \in Defs : Sound(d)'
<1>0. PICK d \in Defs : d = task[t].def
    BY TaskFields DEF Unregister, Holding, IInv
<1> DEFINE pc == IF t \in Patches THEN "register" ELSE "delete"
           s == [task[t] EXCEPT !.pc = pc]
<1>1. task[t].pc = "unregister"
    BY TaskFields DEF Unregister, Holding, IInv
<1>2. UNCHANGED <<definitions, script, suspect>> /\ schedulers' = [schedulers EXCEPT ![d] = None]
    BY <1>0 DEF Unregister, Removed
<1>3. s \in Task /\ s.pc = pc /\ s.def = d /\ s.row = task[t].row
      /\ task' = [task EXCEPT ![t] = s]
    <2>1. pc \in TaskPC /\ task' = [task EXCEPT ![t].pc = pc]
        BY DEF Unregister, TaskPC
    <2> HIDE DEF pc
    <2> QED BY <1>0, <2>1, Records DEF IInv
<1> HIDE DEF s
<1>4. task'[t] = s
    BY <1>3 DEF IInv, TInv, TypeOK
<1>5. schedulers'[d] = None /\ \A e \in Defs \ {d} : schedulers'[e] = schedulers[e]
    BY <1>0, <1>1, <1>2 DEF IInv, TInv, TypeOK
<1>6. Fits(t) => Fits(t)'
    BY <1>0, <1>1, <1>2, <1>3, <1>4, <1>5 DEF Fits, RowIsSaved, Exists
<1> QED BY <1>0, <1>1, <1>2, <1>3, <1>5, <1>6, OwnStep

LEMMA RegisterStep ==
    ASSUME IInv, NEW t \in Tasks, Register(t)
    PROVE  Split' /\ \A d \in Defs : Sound(d)'
<1>0. PICK d \in Defs : d = task[t].def
    BY TaskFields DEF Register, Holding, IInv
<1> DEFINE row == task[t].row
<1>1. row \in Row /\ task[t].pc = "register"
    BY TaskFields DEF Register, WithRow, Holding, IInv
<1>2. /\ UNCHANGED <<definitions, script, suspect>>
      /\ schedulers' = Registered(d, row)
      /\ task' = [task EXCEPT ![t] = At("done")]
    BY <1>0 DEF Register
<1>3. /\ row.enabled => schedulers'[d] = row.cron
      /\ \A e \in Defs \ {d} : schedulers'[e] = schedulers[e]
    BY <1>0, <1>1, <1>2 DEF Registered, Upserted, Removed, IInv, TInv, TypeOK
<1>4. Fits(t) => Synced(d)'
    BY <1>0, <1>1, <1>2, <1>3 DEF Fits, RowIsSaved, Synced, Exists, Enabled, Scheduled
<1>5. At("done") \in Task /\ At("done").def = None
    BY Records DEF IInv
<1> QED BY <1>0, <1>1, <1>2, <1>3, <1>4, <1>5, NoneAssumption, OwnStep

LEMMA DeleteStep ==
    ASSUME IInv, NEW t \in Tasks, Delete(t)
    PROVE  Split' /\ \A d \in Defs : Sound(d)'
<1>0. PICK d \in Defs : d = task[t].def
    BY TaskFields DEF Delete, Holding, IInv
<1>1. task[t].pc = "delete"
    BY TaskFields DEF Delete, Holding, IInv
<1>2. /\ UNCHANGED <<schedulers, script, suspect>>
      /\ definitions' = [definitions EXCEPT ![d] = None]
      /\ task' = [task EXCEPT ![t] = At("done")]
    BY <1>0 DEF Delete
<1>3. definitions'[d] = None /\ \A e \in Defs \ {d} : definitions'[e] = definitions[e]
    BY <1>0, <1>1, <1>2 DEF IInv, TInv, TypeOK
<1>4. Fits(t) => Synced(d)'
    BY <1>0, <1>1, <1>2, <1>3 DEF Fits, Synced, Exists, Enabled
<1>5. At("done") \in Task /\ At("done").def = None
    BY Records DEF IInv
<1> QED BY <1>0, <1>1, <1>2, <1>3, <1>4, <1>5, NoneAssumption, OwnStep

LEMMA SaveRunStep ==
    ASSUME IInv, NEW t \in Tasks, SaveRun(t)
    PROVE  Split' /\ \A d \in Defs : Sound(d)'
<1>0. PICK d \in Defs : d = task[t].def
    BY TaskFields DEF SaveRun, Holding, IInv
<1> DEFINE row == task[t].row
<1>1. row \in Row /\ task[t].pc = "saveRun"
    BY TaskFields DEF SaveRun, WithRow, Holding, IInv
<1>2. /\ UNCHANGED <<schedulers, script, suspect>>
      /\ definitions' = IF Conflicts(d, row) THEN definitions ELSE Saved(d, row)
      /\ task' = [task EXCEPT ![t] = At("done")]
    BY <1>0 DEF SaveRun
<1>3. \A e \in Defs \ {d} : definitions'[e] = definitions[e]
    BY <1>0, <1>1, <1>2, SavedLemma DEF IInv, TInv
<1>4. Fits(t) => Synced(d)'
    <2> SUFFICES ASSUME Fits(t) PROVE Synced(d)'
        OBVIOUS
    <2>1. Enabled(d) /\ Scheduled(d) /\ row.cron = definitions[d].cron
        BY <1>0, <1>1 DEF Fits
    <2>2. ~Conflicts(d, row)
        BY <2>1 DEF Conflicts, Enabled
    <2>3. definitions'[d] # None /\ definitions'[d].cron = row.cron
        BY <1>0, <1>1, <1>2, <2>2, SavedLemma DEF IInv, TInv
    <2> QED BY <1>2, <2>1, <2>3 DEF Synced, Exists, Scheduled
<1>5. At("done") \in Task /\ At("done").def = None
    BY Records DEF IInv
<1> QED BY <1>0, <1>1, <1>2, <1>3, <1>4, <1>5, NoneAssumption, OwnStep

\* A call that fails where the database and the queue agree leaves them so.
LEMMA TaskFailsStep ==
    ASSUME IInv, NEW t \in Tasks, TaskFails(t)
    PROVE  Split' /\ \A d \in Defs : Sound(d)'
<1>1. /\ UNCHANGED <<definitions, schedulers, script>>
      /\ task' = [task EXCEPT ![t] = At("done")]
      /\ At("done") \in Task /\ At("done").def = None
    BY Records DEF TaskFails, IInv
<1>2. CASE task[t].pc \notin Holding
    <2>1. task[t].def = None /\ suspect' = suspect
        BY <1>2, TaskFields DEF TaskFails, Holding, IInv
    <2> QED BY <1>1, <2>1, IdleStep
<1>3. CASE task[t].pc \in Holding
    <2>1. PICK d \in Defs : d = task[t].def
        BY <1>3, TaskFields DEF IInv
    <2>2. suspect' \in {suspect, suspect \cup {d}}
        BY <2>1 DEF TaskFails
    <2>3. d \notin suspect' => task[t].pc \in {"save", "saveRun"}
        BY <1>3, <2>1 DEF TaskFails, Holding
    <2>4. d \notin suspect' /\ Fits(t) => Synced(d)'
        BY <1>1, <2>1, <2>3 DEF Fits, Synced, Exists, Enabled, Scheduled
    <2> QED BY <1>1, <2>1, <2>2, <2>4, NoneAssumption, OwnStep
<1> QED BY <1>2, <1>3

-----------------------------------------------------------------------------
\* The invariant, step by step of the script.

LEMMA ReadEnabledStep ==
    ASSUME IInv, ReadEnabled
    PROVE  Split' /\ \A d \in Defs : Sound(d)'
<1>1. /\ UNCHANGED <<definitions, schedulers, task>>
      /\ script'.pc = "register" /\ script.pc = "idle"
      /\ script'.todo = {d \in Defs : Enabled(d)}
      /\ script'.clean = {d \in Defs : ~Busy(d)}
      /\ suspect' = suspect \cup {d \in Defs : Busy(d)}
      /\ \A d \in Defs : script'.read[d] = IF Enabled(d) THEN definitions[d].cron ELSE None
    BY DEF ReadEnabled
<1>2. ASSUME NEW d \in Defs PROVE Sound(d)'
    <2>1. ASSUME ~Busy(d) PROVE Restored(d)'
        BY <1>1, <2>1 DEF Restored, Busy, Enabled, Exists, Scheduled
    <2>2. ASSUME d \notin suspect' PROVE Trusted(d)'
        <3>1. ~Busy(d) /\ Trusted(d)
            BY <1>1, <2>2 DEF IInv, Sound
        <3> QED BY <1>1, <3>1 DEF Trusted, Busy, Synced, Enabled, Exists, Scheduled
    <2> QED BY <1>1, <2>1, <2>2 DEF Sound
<1>3. Split'
    <2>1. ASSUME NEW d \in Defs, Enabled(d) PROVE definitions[d].cron # None
        BY <2>1, NoneAssumption DEF Enabled, Exists, Row, IInv, TInv, TypeOK
    <2> QED BY <1>1, <2>1 DEF Split
<1> QED BY <1>2, <1>3

\* A step of the script that changes nothing of definition d but its scheduler.
LEMMA ScriptStep ==
    ASSUME IInv, NEW d \in Defs, UNCHANGED <<definitions, task>>,
           script.pc # "idle", d \in suspect' <=> d \in suspect,
           script'.clean = script.clean \/ script'.pc = "idle",
           d \in script.clean /\ Restored(d) => Synced(d)' \/ ~Synced(d),
           script'.pc # "idle" /\ d \in script.clean /\ Restored(d) => Restored(d)'
    PROVE  Sound(d)'
<1>1. /\ Sound(d)
      /\ Busy(d)' <=> Busy(d)
    BY DEF IInv, Busy
<1>2. d \notin suspect => Trusted(d) /\ d \in script.clean /\ Restored(d)
    BY <1>1 DEF Sound, Trusted
<1>3. ASSUME d \notin suspect PROVE Trusted(d)'
    <2>1. ~Busy(d)
        BY <1>2, <1>3 DEF Restored
    <2>2. \A t \in Tasks : task'[t].def # d
        BY <2>1 DEF Busy
    <2>3. Synced(d)'
        BY <1>2, <1>3, <2>1 DEF Trusted
    <2> QED BY <1>2, <1>3, <2>2, <2>3 DEF Trusted
<1> QED BY <1>1, <1>3 DEF Sound

LEMMA RegisterEnabledStep ==
    ASSUME IInv, RegisterEnabled, NEW d \in Defs
    PROVE  Split' /\ Sound(d)'
<1>1. UNCHANGED <<definitions, task, suspect>> /\ script.pc = "register"
    BY DEF RegisterEnabled
<1>2. CASE \E e \in script.todo :
              /\ schedulers' = Upserted(e, script.read[e])
              /\ script' = [script EXCEPT !.todo = @ \ {e}]
    <2>1. PICK e \in script.todo :
              /\ schedulers' = [schedulers EXCEPT ![e] = script.read[e]]
              /\ script' = [script EXCEPT !.todo = script.todo \ {e}]
        BY <1>2 DEF Upserted
    <2>2. /\ script'.pc = "register" /\ script'.clean = script.clean
          /\ script'.read = script.read /\ script'.todo = script.todo \ {e}
        BY <1>1, <2>1 DEF IInv, TInv, TypeOK, Script
    <2>3. script.read[e] # None /\ e \in Defs
        BY <1>1 DEF IInv, Split, TInv, TypeOK, Script
    <2>4. schedulers'[d] = IF d = e THEN script.read[d] ELSE schedulers[d]
        BY <2>1 DEF IInv, TInv, TypeOK
    <2>5. d = e /\ Restored(d) => Enabled(d) /\ script.read[d] = definitions[d].cron
        BY <2>3 DEF Restored
    <2>6. Restored(d) => Synced(d)' \/ ~Synced(d)
        BY <1>1, <2>4, <2>5 DEF Synced, Enabled, Exists, Scheduled
    <2>7. Restored(d) => Restored(d)'
        BY <1>1, <2>2, <2>4, <2>5 DEF Restored, Busy, Enabled, Exists, Scheduled
    <2>8. Sound(d)'
        BY <1>1, <2>2, <2>6, <2>7, ScriptStep
    <2> QED BY <1>1, <2>2, <2>8 DEF IInv, Split
<1>3. CASE script.todo = {} /\ script' = [script EXCEPT !.pc = "providers"] /\ UNCHANGED schedulers
    <2>1. /\ script'.pc = "providers" /\ script'.clean = script.clean
          /\ script'.read = script.read /\ script'.todo = {}
        BY <1>3 DEF IInv, TInv, TypeOK, Script
    <2>2. Synced(d)' \/ ~Synced(d)
        BY <1>1, <1>3 DEF Synced, Enabled, Exists, Scheduled
    <2>3. Restored(d) => Restored(d)'
        BY <1>1, <1>3, <2>1 DEF Restored, Busy, Enabled, Exists, Scheduled
    <2>4. Sound(d)'
        BY <1>1, <2>1, <2>2, <2>3, ScriptStep
    <2> QED BY <2>1, <2>4 DEF Split
<1> QED BY <1>2, <1>3 DEF RegisterEnabled

LEMMA ReadProvidersStep ==
    ASSUME IInv, ReadProviders, NEW d \in Defs
    PROVE  Split' /\ Sound(d)'
<1>1. UNCHANGED <<definitions, schedulers, task, suspect>> /\ script.pc = "providers"
    BY DEF ReadProviders
<1>2. \/ /\ script'.pc = "list" /\ script'.clean = script.clean
         /\ script'.read = script.read /\ script'.todo = script.todo
      \/ script'.pc = "idle"
    BY DEF ReadProviders, Quiet, IInv, TInv, TypeOK, Script
<1>3. Synced(d)' \/ ~Synced(d)
    BY <1>1 DEF Synced, Enabled, Exists, Scheduled
<1>4. script'.pc # "idle" /\ Restored(d) => Restored(d)'
    BY <1>1, <1>2 DEF Restored, Busy, Enabled, Exists, Scheduled
<1>5. Sound(d)'
    BY <1>1, <1>2, <1>3, <1>4, ScriptStep
<1> QED BY <1>2, <1>5 DEF Split

LEMMA ListSchedulersStep ==
    ASSUME IInv, ListSchedulers, NEW d \in Defs
    PROVE  Split' /\ Sound(d)'
<1>1. UNCHANGED <<definitions, schedulers, task, suspect>> /\ script.pc = "list"
    BY DEF ListSchedulers
<1>2. /\ script'.pc = "drop" /\ script'.clean = script.clean
      /\ script'.read = script.read /\ script'.todo = Stale
    BY DEF ListSchedulers, IInv, TInv, TypeOK, Script
<1>3. Synced(d)' \/ ~Synced(d)
    BY <1>1 DEF Synced, Enabled, Exists, Scheduled
<1>4. Restored(d) => Restored(d)'
    BY <1>1, <1>2 DEF Restored, Busy, Enabled, Exists, Scheduled, Stale
<1>5. Sound(d)'
    BY <1>1, <1>2, <1>3, <1>4, ScriptStep
<1> QED BY <1>2, <1>5 DEF Split, Stale

LEMMA DropStaleStep ==
    ASSUME IInv, DropStale, NEW d \in Defs
    PROVE  Split' /\ Sound(d)'
<1>1. UNCHANGED <<definitions, task>> /\ script.pc = "drop"
    BY DEF DropStale
<1>2. CASE \E e \in script.todo :
              /\ schedulers' = Removed(e)
              /\ script' = [script EXCEPT !.todo = @ \ {e}]
              /\ UNCHANGED suspect
    <2>1. PICK e \in script.todo :
              /\ schedulers' = [schedulers EXCEPT ![e] = None]
              /\ script' = [script EXCEPT !.todo = script.todo \ {e}]
        BY <1>2 DEF Removed
    <2>2. /\ script'.pc = "drop" /\ script'.clean = script.clean
          /\ script'.read = script.read /\ script'.todo = script.todo \ {e}
        BY <1>1, <2>1 DEF IInv, TInv, TypeOK, Script
    <2>3. script.read[e] = None /\ e \in Defs
        BY <1>1 DEF IInv, Split, TInv, TypeOK, Script
    <2>4. schedulers'[d] = IF d = e THEN None ELSE schedulers[d]
        BY <2>1 DEF IInv, TInv, TypeOK
    <2>5. ASSUME d = e, Restored(d) PROVE ~Enabled(d)
        <3>1. Enabled(d) => definitions[d].cron # None
            BY NoneAssumption DEF Enabled, Exists, Row, IInv, TInv, TypeOK
        <3> QED BY <2>3, <2>5, <3>1 DEF Restored
    <2>6. Restored(d) => Synced(d)' \/ ~Synced(d)
        BY <1>1, <2>4, <2>5 DEF Synced, Enabled, Exists, Scheduled
    <2>7. Restored(d) => Restored(d)'
        BY <1>1, <2>2, <2>4, <2>5 DEF Restored, Busy, Enabled, Exists, Scheduled
    <2>8. Sound(d)'
        BY <1>1, <1>2, <2>2, <2>6, <2>7, ScriptStep
    <2> QED BY <1>1, <2>2, <2>8 DEF IInv, Split
<1>3. CASE /\ script.todo = {}
           /\ script' = Quiet
           /\ suspect' = suspect \ script.clean
           /\ UNCHANGED schedulers
    <2>1. script'.pc = "idle"
        BY <1>3 DEF Quiet
    <2>2. d \in script.clean => Restored(d)
        BY <1>1 DEF IInv, Sound
    <2>3. d \notin suspect => d \in script.clean
        BY <1>1 DEF IInv, Sound, Trusted
    <2>4. ASSUME d \in script.clean PROVE Trusted(d)'
        <3>1. ~Busy(d) /\ Synced(d)
            BY <1>1, <1>3, <2>2, <2>4 DEF Restored, Synced, Enabled
        <3> QED BY <1>1, <1>3, <2>1, <3>1 DEF Trusted, Busy, Synced, Enabled, Exists, Scheduled
    <2>5. Sound(d)'
        BY <1>3, <2>1, <2>3, <2>4 DEF Sound
    <2> QED BY <2>1, <2>5 DEF Split
<1> QED BY <1>2, <1>3 DEF DropStale

LEMMA ScriptFailsStep ==
    ASSUME IInv, ScriptFails, NEW d \in Defs
    PROVE  Split' /\ Sound(d)'
<1>1. UNCHANGED <<definitions, schedulers, task, suspect>> /\ script.pc # "idle"
    BY DEF ScriptFails
<1>2. script'.pc = "idle"
    BY DEF ScriptFails, Quiet
<1>3. Synced(d)' \/ ~Synced(d)
    BY <1>1 DEF Synced, Enabled, Exists, Scheduled
<1>4. Sound(d)'
    BY <1>1, <1>2, <1>3, ScriptStep
<1> QED BY <1>2, <1>4 DEF Split

-----------------------------------------------------------------------------
\* The invariant, put together.

LEMMA InitSound ==
    Init => IInv
<1> SUFFICES ASSUME Init PROVE IInv
    OBVIOUS
<1>1. \A t \in Tasks : task[t].def = None
    BY DEF Init, At
<1>2. ASSUME NEW d \in Defs PROVE Trusted(d)
    <2>1. d # None
        BY NoneAssumption
    <2>2. \A t \in Tasks : task[t].def # d
        BY <1>1, <2>1
    <2>3. ~Busy(d)
        BY <2>2 DEF Busy
    <2>4. Synced(d)
        BY DEF Init, Synced, Enabled, Exists, Scheduled
    <2> QED BY <2>2, <2>3, <2>4 DEF Trusted, Init, Quiet
<1>3. (\A d \in Defs : Sound(d)) /\ Split
    BY <1>2 DEF Sound, Split, Init, Quiet
<1> QED BY <1>3, InitTypes DEF IInv

LEMMA StepSound ==
    IInv /\ [Next]_vars => IInv'
<1> SUFFICES ASSUME IInv, [Next]_vars PROVE IInv'
    OBVIOUS
<1>1. TInv'
    BY StepTypes DEF IInv
<1>a. Defs = {} => Split'
    BY <1>1 DEF TInv, TypeOK, Script, Split
<1>2. ASSUME NEW t \in Tasks, Start(t) PROVE Split' /\ \A d \in Defs : Sound(d)'
    <2>1. CASE BeginSchedule(t)
        BY <2>1, ScheduleSteps
    <2>2. CASE ~BeginSchedule(t)
        <3>1. PICK e \in Defs :
                 ReadForPatch(t, e) \/ (ReadForDelete(t, e) /\ t \in Deletes) \/ ReadForRun(t, e)
            BY <1>2, <2>2 DEF Start
        <3> QED BY <3>1, ReadSteps
    <2> QED BY <2>1, <2>2
<1>3. ASSUME NEW t \in Tasks, Continue(t) PROVE Split' /\ \A d \in Defs : Sound(d)'
    BY <1>3, ScheduleSteps, SavePatchStep, UnregisterStep, RegisterStep, DeleteStep,
       SaveRunStep DEF Continue
<1>4. ASSUME NEW t \in Tasks, TaskFails(t) PROVE Split' /\ \A d \in Defs : Sound(d)'
    BY <1>4, TaskFailsStep
<1>5. ASSUME Reconcile PROVE Split' /\ \A d \in Defs : Sound(d)'
    BY <1>a, <1>5, ReadEnabledStep, RegisterEnabledStep, ReadProvidersStep, ListSchedulersStep,
       DropStaleStep DEF Reconcile
<1>6. ASSUME ScriptFails PROVE Split' /\ \A d \in Defs : Sound(d)'
    BY <1>a, <1>6, ScriptFailsStep
<1>7. ASSUME UNCHANGED vars PROVE Split' /\ \A d \in Defs : Sound(d)'
    BY <1>7 DEF vars, IInv, Split, Sound, Trusted, Restored, Fits, RowIsSaved, Busy,
                Synced, Enabled, Exists, Scheduled
<1> QED BY <1>1, <1>2, <1>3, <1>4, <1>5, <1>6, <1>7 DEF IInv, Next

THEOREM Invariance ==
    Spec => []IInv
BY InitSound, StepSound, PTL DEF Spec

\* Whatever the number of definitions, requests and failures: an enabled
\* definition lacks its scheduler, or ticks on another cron, only while a call
\* works on it, or after calls overlapped or one failed half-way.
THEOREM EnabledScheduled ==
    Spec => []EnabledIsScheduled
<1>1. IInv => EnabledIsScheduled
    BY DEF IInv, Sound, Trusted, Synced, EnabledIsScheduled
<1> QED BY <1>1, Invariance, PTL

\* With the same exceptions, a deleted definition has no scheduler.
THEOREM DeletedUnscheduled ==
    Spec => []DeletedIsUnscheduled
<1>1. IInv => DeletedIsUnscheduled
    BY DEF IInv, Sound, Trusted, Synced, DeletedIsUnscheduled
<1> QED BY <1>1, Invariance, PTL

-----------------------------------------------------------------------------
\* One definition for what an event schedules, where nothing is deleted.

\* Of the calls, only a patch saves and then unregisters; none deletes.
InPlace(t, s) ==
    /\ s.pc \in {"save", "unregister"} => t \in Patches
    /\ s.pc # "delete"

\* A row keeps the hash it was inserted with, no two rows have the same, and no
\* call holds a row that is gone: so no save inserts one again.
UInv ==
    /\ \A d \in Defs : Exists(d) => definitions[d].hash = origin[d]
    /\ \A d, e \in Defs :
           Exists(d) /\ Exists(e) /\ d # e => definitions[d].hash # definitions[e].hash
    /\ \A t \in Tasks : InPlace(t, task[t]) /\ (task[t].def # None => Exists(task[t].def))

\* A save of a row that is there changes no hash.
LEMMA SaveKeepsHash ==
    ASSUME TInv, NEW d \in Defs, NEW row \in Row, Exists(d)
    PROVE  /\ ~Conflicts(d, row)
           /\ \A e \in Defs : /\ Saved(d, row)[e] # None <=> Exists(e)
                              /\ Exists(e) => Saved(d, row)[e].hash = definitions[e].hash
<1>1. ~Conflicts(d, row)
    BY DEF Conflicts
<1>2. ASSUME NEW e \in Defs PROVE /\ Saved(d, row)[e] # None <=> Exists(e)
                                  /\ Exists(e) => Saved(d, row)[e].hash = definitions[e].hash
    <2>1. CASE e = d
        BY <2>1, SavedLemma DEF TInv
    <2>2. CASE e # d
        BY <2>2, SavedLemma DEF TInv, Exists
    <2> QED BY <2>1, <2>2
<1> QED BY <1>1, <1>2

\* A step that leaves rows and hashes as they are.
LEMMA HashesKept ==
    ASSUME TInv, UInv, UNCHANGED origin,
           \A d \in Defs : /\ definitions'[d] # None <=> Exists(d)
                           /\ Exists(d) => definitions'[d].hash = definitions[d].hash,
           \A t \in Tasks : InPlace(t, task'[t]) /\ (task'[t].def # None => Exists(task'[t].def)),
           TInv'
    PROVE  UInv'
<1>1. \A d \in Defs : Exists(d)' <=> Exists(d)
    BY DEF Exists
<1>2. \A t \in Tasks : task'[t].def # None => task'[t].def \in Defs
    BY DEF TInv, TypeOK, Task
<1>3. \A t \in Tasks : task'[t].def # None => Exists(task[t].def)'
    BY <1>1, <1>2 DEF Exists
<1> QED BY <1>1, <1>3 DEF UInv, InPlace

LEMMA InsertUnique ==
    ASSUME TInv, UInv, TInv', NEW t \in Tasks, Insert(t)
    PROVE  UInv'
<1>1. task[t].row \in Row
    BY TaskFields DEF Insert, WithRow
<1>2. PICK d \in Defs :
         /\ origin[d] = None
         /\ IF Conflicts(d, task[t].row)
            THEN /\ task' = [task EXCEPT ![t] = At("done")]
                 /\ UNCHANGED <<definitions, script, origin, suspect>>
            ELSE /\ definitions' = Saved(d, task[t].row)
                 /\ origin' = [origin EXCEPT ![d] = task[t].row.params]
                 /\ task' = [task EXCEPT ![t].pc = "register", ![t].def = d]
                 /\ Begin(d)
    BY DEF Insert
<1>3. CASE Conflicts(d, task[t].row)
    <2>1. task' = [task EXCEPT ![t] = At("done")] /\ UNCHANGED <<definitions, origin>>
        BY <1>2, <1>3
    <2>2. At("done").def = None /\ At("done").pc = "done"
        BY DEF At
    <2>3. \A u \in Tasks : task'[u] = IF u = t THEN At("done") ELSE task[u]
        BY <2>1 DEF TInv, TypeOK
    <2>4. InPlace(t, At("done"))
        BY <2>2 DEF InPlace
    <2> QED BY <2>1, <2>2, <2>3, <2>4, HashesKept DEF UInv, Exists
<1>4. CASE ~Conflicts(d, task[t].row)
    <2> DEFINE row == task[t].row
    <2>1. definitions' = Saved(d, row) /\ origin' = [origin EXCEPT ![d] = row.params]
        BY <1>2, <1>4
    <2>2. ~Exists(d)
        <3>1. definitions[d] \in Row => definitions[d].hash # None
            BY NoneAssumption DEF Row
        <3> QED BY <1>2, <3>1 DEF UInv, Exists, TInv, TypeOK
    <2>3. /\ definitions'[d] # None /\ definitions'[d].hash = row.params
          /\ \A e \in Defs \ {d} : definitions'[e] = definitions[e]
        BY <1>1, <2>1, <2>2, SavedLemma DEF TInv
    <2>4. origin'[d] = row.params /\ \A e \in Defs \ {d} : origin'[e] = origin[e]
        BY <2>1 DEF TInv, TypeOK
    <2>5. \A e \in Defs : Exists(e) => definitions[e].hash # row.params
        BY <1>4, <2>2 DEF Conflicts
    <2>6. \A u \in Tasks : u # t => task'[u] = task[u]
        BY <1>2, <1>4 DEF TInv, TypeOK
    <2>7. task'[t].pc = "register" /\ task'[t].def = d
        BY <1>2, <1>4 DEF TInv, TypeOK, Task
    <2>8. \A u \in Tasks : task'[u].def # None => task'[u].def \in Defs
        BY DEF TInv, TypeOK, Task
    <2>9. ASSUME NEW u \in Tasks
          PROVE  InPlace(u, task'[u]) /\ (task'[u].def # None => Exists(task[u].def)')
        <3>1. CASE u = t
            BY <2>3, <2>7, <3>1 DEF Exists, InPlace
        <3>2. CASE u # t
            BY <2>2, <2>3, <2>6, <2>8, <3>2 DEF UInv, Exists
        <3> QED BY <3>1, <3>2
    <2>10. \A e \in Defs : Exists(e)' => definitions'[e].hash = origin'[e]
        BY <2>3, <2>4 DEF UInv, Exists
    <2>11. \A e, f \in Defs : Exists(e)' /\ Exists(f)' /\ e # f
                            => definitions'[e].hash # definitions'[f].hash
        BY <2>3, <2>5 DEF UInv, Exists
    <2> QED BY <2>9, <2>10, <2>11 DEF UInv, InPlace
<1> QED BY <1>3, <1>4

\* A task goes on, or stops, and saves the row it holds or changes none.
LEMMA HashStep ==
    ASSUME TInv, UInv, TInv', NEW t \in Tasks, NEW s, task' = [task EXCEPT ![t] = s],
           InPlace(t, s), s.def \in {None, task[t].def}, UNCHANGED origin,
           \/ UNCHANGED definitions
           \/ /\ task[t].def \in Defs /\ task[t].row \in Row
              /\ definitions' = Saved(task[t].def, task[t].row)
    PROVE  UInv'
<1>1. \A u \in Tasks : task'[u] = IF u = t THEN s ELSE task[u]
    BY DEF TInv, TypeOK
<1>2. \A u \in Tasks : InPlace(u, task'[u]) /\ (task'[u].def # None => Exists(task'[u].def))
    BY <1>1 DEF UInv
<1>3. \A d \in Defs : /\ definitions'[d] # None <=> Exists(d)
                      /\ Exists(d) => definitions'[d].hash = definitions[d].hash
    <2>1. CASE UNCHANGED definitions
        BY <2>1 DEF Exists
    <2>2. CASE /\ task[t].def \in Defs /\ task[t].row \in Row
               /\ definitions' = Saved(task[t].def, task[t].row)
        <3>1. Exists(task[t].def)
            BY <2>2, NoneAssumption DEF UInv
        <3> QED BY <2>2, <3>1, SaveKeepsHash
    <2> QED BY <2>1, <2>2
<1> QED BY <1>2, <1>3, HashesKept

\* A task that moves on with what it holds, or is done.
LEMMA HashMove ==
    ASSUME TInv, UInv, TInv', NEW t \in Tasks,
           \/ task' = [task EXCEPT ![t] = At("done")]
           \/ \E pc \in TaskPC : InPlace(t, [pc |-> pc]) /\ task' = [task EXCEPT ![t].pc = pc],
           UNCHANGED origin,
           \/ UNCHANGED definitions
           \/ /\ task[t].def \in Defs /\ task[t].row \in Row
              /\ definitions' = Saved(task[t].def, task[t].row)
    PROVE  UInv'
<1>1. CASE task' = [task EXCEPT ![t] = At("done")]
    <2>1. At("done").def = None /\ InPlace(t, At("done"))
        BY DEF At, InPlace
    <2> QED BY <1>1, <2>1, HashStep
<1>2. ASSUME NEW pc \in TaskPC, InPlace(t, [pc |-> pc]), task' = [task EXCEPT ![t].pc = pc]
      PROVE  UInv'
    <2> DEFINE s == [task[t] EXCEPT !.pc = pc]
    <2>1. s.pc = pc /\ s.def = task[t].def /\ task' = [task EXCEPT ![t] = s]
        BY <1>2, Records
    <2> HIDE DEF s
    <2>2. InPlace(t, s)
        BY <1>2, <2>1 DEF InPlace
    <2> QED BY <2>1, <2>2, HashStep
<1> QED BY <1>1, <1>2

\* A task begins to work on a row that is there.
LEMMA HashBegin ==
    ASSUME TInv, UInv, TInv', NEW t \in Tasks, NEW s, task' = [task EXCEPT ![t] = s],
           InPlace(t, s), s.def = None \/ Exists(s.def), UNCHANGED <<definitions, origin>>
    PROVE  UInv'
<1>1. \A u \in Tasks : task'[u] = IF u = t THEN s ELSE task[u]
    BY DEF TInv, TypeOK
<1>2. \A u \in Tasks : InPlace(u, task'[u]) /\ (task'[u].def # None => Exists(task'[u].def))
    BY <1>1 DEF UInv
<1> QED BY <1>2, HashesKept DEF Exists

LEMMA StepUnique ==
    ASSUME Deletes = {}, TInv, UInv, TInv', [Next]_vars
    PROVE  UInv'
<1>1. ASSUME NEW t \in Tasks, BeginSchedule(t) PROVE UInv'
    <2>1. PICK v \in Variants, c \in Crons :
              task' = [task EXCEPT ![t] = [At("check") EXCEPT !.row = NewRow(v, c)]]
        BY <1>1 DEF BeginSchedule
    <2> DEFINE s == [At("check") EXCEPT !.row = NewRow(v, c)]
    <2>2. s.def = None /\ InPlace(t, s)
        BY DEF At, InPlace
    <2> HIDE DEF s
    <2> QED BY <1>1, <2>1, <2>2, HashBegin DEF BeginSchedule, s
<1>2. ASSUME NEW t \in Patches, NEW d \in Defs, ReadForPatch(t, d) PROVE UInv'
    <2>1. PICK e \in BOOLEAN, c \in Crons, p \in PatchedParams(definitions[d].params) :
              task' = [task EXCEPT ![t] =
                  [pc |-> "save", def |-> d,
                   row |-> [definitions[d] EXCEPT !.enabled = e, !.cron = c, !.params = p]]]
        BY <1>2 DEF ReadForPatch
    <2>2. PICK s : s.pc = "save" /\ s.def = d /\ task' = [task EXCEPT ![t] = s]
        BY <2>1
    <2>3. InPlace(t, s) /\ t \in Tasks
        BY <1>2, <2>2 DEF InPlace, Tasks
    <2> QED BY <1>2, <2>2, <2>3, HashBegin DEF ReadForPatch
<1>3. ASSUME NEW t \in Tasks, NEW d \in Defs, ReadForRun(t, d) PROVE UInv'
    <2>1. PICK e \in BOOLEAN :
              task' = [task EXCEPT ![t] =
                  [pc |-> "saveRun", def |-> d, row |-> [definitions[d] EXCEPT !.enabled = e]]]
        BY <1>3 DEF ReadForRun
    <2>2. PICK s : s.pc = "saveRun" /\ s.def = d /\ task' = [task EXCEPT ![t] = s]
        BY <2>1
    <2>3. InPlace(t, s)
        BY <2>2 DEF InPlace
    <2> QED BY <1>3, <2>2, <2>3, HashBegin DEF ReadForRun, Enabled
<1>4. ASSUME NEW t \in Tasks, Start(t) PROVE UInv'
    <2>1. CASE BeginSchedule(t)
        BY <1>1, <2>1
    <2>2. CASE ~BeginSchedule(t)
        <3>1. PICK d \in Defs : (t \in Patches /\ ReadForPatch(t, d)) \/ ReadForRun(t, d)
            BY <1>4, <2>2 DEF Start
        <3> QED BY <1>2, <1>3, <3>1
    <2> QED BY <2>1, <2>2
<1>5. ASSUME NEW t \in Tasks, Check(t) PROVE UInv'
    <2>1. InPlace(t, [pc |-> "insert"])
        BY DEF InPlace
    <2> QED BY <1>5, <2>1, HashMove DEF Check, TaskPC
<1>6. ASSUME NEW t \in Tasks, SavePatch(t) PROVE UInv'
    <2>1. task[t].row \in Row /\ task[t].def \in Defs
        BY <1>6, TaskFields DEF SavePatch, WithRow, Holding
    <2>2. t \in Patches
        BY <1>6 DEF SavePatch, UInv, InPlace
    <2>3. InPlace(t, [pc |-> "unregister"])
        BY <2>2 DEF InPlace
    <2> QED BY <1>6, <2>1, <2>3, HashMove DEF SavePatch, TaskPC
<1>7. ASSUME NEW t \in Tasks, Unregister(t) PROVE UInv'
    <2>1. t \in Patches
        BY <1>7 DEF Unregister, UInv, InPlace
    <2>2. task' = [task EXCEPT ![t].pc = "register"] /\ UNCHANGED <<definitions, origin>>
        BY <1>7, <2>1 DEF Unregister
    <2>3. InPlace(t, [pc |-> "register"])
        BY DEF InPlace
    <2> QED BY <2>2, <2>3, HashMove DEF TaskPC
<1>8. ASSUME NEW t \in Tasks, Register(t) PROVE UInv'
    BY <1>8, HashMove DEF Register
<1>9. ASSUME NEW t \in Tasks, Delete(t) PROVE UInv'
    BY <1>9 DEF Delete, UInv, InPlace
<1>10. ASSUME NEW t \in Tasks, SaveRun(t) PROVE UInv'
    <2>1. task[t].row \in Row /\ task[t].def \in Defs
        BY <1>10, TaskFields DEF SaveRun, WithRow, Holding
    <2> QED BY <1>10, <2>1, HashMove DEF SaveRun
<1>11. ASSUME NEW t \in Tasks, TaskFails(t) PROVE UInv'
    BY <1>11, HashMove DEF TaskFails
<1>12. ASSUME Reconcile \/ ScriptFails \/ UNCHANGED vars PROVE UInv'
    <2>1. UNCHANGED <<definitions, task, origin>>
        BY <1>12 DEF Reconcile, ReadEnabled, RegisterEnabled, ReadProviders,
                     ListSchedulers, DropStale, ScriptFails, vars
    <2> QED BY <2>1 DEF UInv, Exists, InPlace
<1> QED BY InsertUnique, <1>4, <1>5, <1>6, <1>7, <1>8, <1>9, <1>10, <1>11, <1>12
        DEF Next, Continue

LEMMA InitUnique ==
    Init => UInv
<1> SUFFICES ASSUME Init PROVE UInv
    OBVIOUS
<1>1. \A t \in Tasks : task[t].def = None /\ InPlace(t, task[t])
    BY DEF Init, At, InPlace
<1>2. \A d \in Defs : Exists(d) => definitions[d].hash = origin[d]
    BY DEF Init, Exists, NewRow
<1>3. \A d, e \in Defs : Exists(d) /\ Exists(e) /\ d # e
                        => definitions[d].hash # definitions[e].hash
    BY DEF Init
<1> QED BY <1>1, <1>2, <1>3 DEF UInv

\* Where nothing is deleted, an event delivered any number of times leaves one
\* definition for what it schedules, however patches rewrite its params.
THEOREM LinkScheduledOnce ==
    ASSUME Deletes = {}
    PROVE  Spec => []OneSchedulePerLink
<1>1. Init => TInv /\ UInv
    BY InitTypes, InitUnique
<1>2. (TInv /\ UInv) /\ [Next]_vars => (TInv /\ UInv)'
    BY StepTypes, StepUnique
<1>3. TInv /\ UInv => OneSchedulePerLink
    BY DEF UInv, OneSchedulePerLink
<1> QED BY <1>1, <1>2, <1>3, PTL DEF Spec

-----------------------------------------------------------------------------
\* The reconcile script: what it can lose, and what one run of it restores.

\* The script takes a scheduler only from definitions that a call has worked
\* on since the script began.
ScriptSparesUndisturbed ==
    [][Reconcile => \A d \in script.clean :
          Enabled(d) /\ Scheduled(d) => schedulers'[d] = schedulers[d]]_vars

\* Once the script has dropped the last stale scheduler, every definition no
\* call has worked on since it began has the scheduler its row asks for, and
\* none if the row is gone or disabled.
RunRestores ==
    script.pc = "drop" /\ script.todo = {} =>
        \A d \in script.clean :
            schedulers[d] = IF Enabled(d) THEN definitions[d].cron ELSE None

LEMMA ScriptSpares ==
    ASSUME IInv, Reconcile, NEW d \in script.clean, Enabled(d), Scheduled(d)
    PROVE  schedulers'[d] = schedulers[d]
<1>1. d \in Defs
    BY DEF IInv, TInv, TypeOK, Script
<1>2. script.pc # "idle" => script.read[d] = definitions[d].cron
    BY <1>1 DEF IInv, Sound, Restored
<1>3. definitions[d].cron # None
    BY <1>1, NoneAssumption DEF Enabled, Exists, Row, IInv, TInv, TypeOK
<1>4. CASE RegisterEnabled
    <2>1. CASE UNCHANGED schedulers
        BY <2>1
    <2>2. ASSUME NEW e \in script.todo, schedulers' = Upserted(e, script.read[e])
          PROVE  schedulers'[d] = schedulers[d]
        BY <1>1, <1>2, <1>4, <2>2 DEF RegisterEnabled, Upserted, Scheduled, IInv, TInv, TypeOK
    <2> QED BY <1>4, <2>1, <2>2 DEF RegisterEnabled
<1>5. CASE DropStale
    <2>1. CASE UNCHANGED schedulers
        BY <2>1
    <2>2. ASSUME NEW e \in script.todo, schedulers' = Removed(e)
          PROVE  schedulers'[d] = schedulers[d]
        <3>1. script.read[e] = None
            BY <1>5, <2>2 DEF DropStale, IInv, Split
        <3>2. d # e
            BY <1>2, <1>3, <1>5, <3>1 DEF DropStale
        <3> QED BY <1>1, <2>2, <3>2 DEF Removed, IInv, TInv, TypeOK
    <2> QED BY <1>5, <2>1, <2>2 DEF DropStale
<1> QED BY <1>4, <1>5 DEF Reconcile, ReadEnabled, ReadProviders, ListSchedulers

\* The limit of the gap the reconcile_gap run shows: in every run of the script,
\* whatever overlaps or fails, only definitions that a call worked on during
\* the run can lose a valid scheduler to it.
THEOREM ScriptLosesOnlyRaces ==
    Spec => ScriptSparesUndisturbed
<1>1. IInv /\ [Next]_vars =>
          [Reconcile => \A d \in script.clean :
              Enabled(d) /\ Scheduled(d) => schedulers'[d] = schedulers[d]]_vars
    BY ScriptSpares
<1> QED BY <1>1, Invariance, PTL DEF Spec, ScriptSparesUndisturbed

\* What one run of the script does for the definitions it has to itself: the
\* step of EventuallyScheduled that needs no fairness.
THEOREM OneRunRestores ==
    Spec => []RunRestores
<1>1. ASSUME IInv PROVE RunRestores
    <2> SUFFICES ASSUME script.pc = "drop", script.todo = {}, NEW d \in script.clean
                 PROVE  schedulers[d] = IF Enabled(d) THEN definitions[d].cron ELSE None
        BY DEF RunRestores
    <2>1. d \in Defs
        BY <1>1 DEF IInv, TInv, TypeOK, Script
    <2>2. Restored(d)
        BY <1>1, <2>1 DEF IInv, Sound
    <2> QED BY <2>2 DEF Restored, Scheduled
<1> QED BY <1>1, Invariance, PTL

-----------------------------------------------------------------------------
\* The limit of what the locale_collision run shows.

\* What an event schedules: an endpoint's schedules all carry the key or none does.
NewParams == {[variant |-> v, keyed |-> Keyed] : v \in Variants}

\* Every definition, also one that a call still works on after its deletion, was
\* scheduled with such params, and so was one for what a call was skipped for.
OriginInv ==
    /\ \A d \in Defs : origin[d] # None => origin[d] \in NewParams
    /\ \A d \in Defs : Exists(d) => origin[d] # None
    /\ \A t \in Tasks : task[t].def # None => origin[task[t].def] # None
    /\ \A t \in Tasks : task[t].pc \in {"check", "insert"} => task[t].row.params \in NewParams
    /\ VariantsDoNotCollide

LEMMA OriginInit ==
    Init => OriginInv
<1> SUFFICES ASSUME Init PROVE OriginInv
    OBVIOUS
<1>1. \A d \in Defs : Exists(d) => definitions[d].params \in NewParams
    BY DEF Init, Exists, NewRow, NewParams
<1>2. \A p \in NewParams : p # None
    BY NoneAssumption, KeyAssumption DEF NewParams, Params
<1>3. \A t \in Tasks : task[t].pc = "ready" /\ task[t].def = None
    BY DEF Init, At
<1> QED BY <1>1, <1>2, <1>3 DEF Init, OriginInv, VariantsDoNotCollide

\* A task goes on with s, and no row comes up that was not scheduled.
LEMMA OriginMove ==
    ASSUME TInv, OriginInv, NEW t \in Tasks, NEW s, task' = [task EXCEPT ![t] = s],
           s.def # None => s.def \in Defs /\ origin[s.def] # None,
           s.pc \in {"check", "insert"} => s.row.params \in NewParams,
           UNCHANGED <<origin, skipped>>,
           \A d \in Defs : definitions'[d] # None => origin[d] # None
    PROVE  OriginInv'
<1>1. \A u \in Tasks : task'[u] = IF u = t THEN s ELSE task[u]
    BY DEF TInv, TypeOK
<1>2. \A u \in Tasks : /\ task'[u].def # None => origin[task'[u].def] # None
                       /\ task'[u].pc \in {"check", "insert"}
                          => task'[u].row.params \in NewParams
    BY <1>1 DEF OriginInv
<1> QED BY <1>2 DEF OriginInv, Exists, VariantsDoNotCollide, NewParams

\* A save writes the row of a definition that was scheduled.
LEMMA OriginSaved ==
    ASSUME TInv, OriginInv, NEW t \in Tasks,
           \/ UNCHANGED definitions
           \/ /\ task[t].def \in Defs /\ task[t].row \in Row
              /\ definitions' = Saved(task[t].def, task[t].row)
           \/ /\ task[t].def \in Defs
              /\ definitions' = [definitions EXCEPT ![task[t].def] = None]
    PROVE  \A d \in Defs : definitions'[d] # None => origin[d] # None
<1>1. CASE UNCHANGED definitions
    BY <1>1 DEF OriginInv, Exists
<1>2. CASE /\ task[t].def \in Defs /\ task[t].row \in Row
           /\ definitions' = Saved(task[t].def, task[t].row)
    <2>0. PICK d \in Defs, row \in Row : d = task[t].def /\ row = task[t].row
        BY <1>2
    <2>1. \A e \in Defs \ {d} : definitions'[e] = definitions[e]
        BY <1>2, <2>0, SavedLemma DEF TInv
    <2>2. origin[d] # None
        BY <2>0, NoneAssumption DEF OriginInv
    <2> QED BY <2>1, <2>2 DEF OriginInv, Exists
<1>3. CASE /\ task[t].def \in Defs
           /\ definitions' = [definitions EXCEPT ![task[t].def] = None]
    BY <1>3 DEF OriginInv, Exists, TInv, TypeOK
<1> QED BY <1>1, <1>2, <1>3

\* A call that is skipped found a definition of the key.
LEMMA OriginCheck ==
    ASSUME ~Keyed \/ \A u, v \in Variants : u = v, TInv, OriginInv, NEW t \in Tasks, Check(t)
    PROVE  OriginInv'
<1> DEFINE row == task[t].row
<1>1. row.params \in NewParams /\ task[t].pc = "check"
    BY DEF OriginInv, Check
<1>2. CASE SameKey(row) # {} /\ skipped' = skipped \cup {row.params} /\ task' = [task EXCEPT ![t] = At("done")]
    <2>1. PICK d \in Defs : row.params.keyed /\ Exists(d)
        BY <1>2 DEF SameKey
    <2>2. row.params.keyed = Keyed
        BY <1>1 DEF NewParams
    <2>3. \A p, q \in NewParams : p = q
        BY <2>1, <2>2 DEF NewParams
    <2>4. origin[d] = row.params
        BY <1>1, <2>1, <2>3 DEF OriginInv
    <2>5. UNCHANGED <<definitions, origin>>
        BY DEF Check
    <2>6. VariantsDoNotCollide'
        BY <1>2, <2>4, <2>5 DEF OriginInv, VariantsDoNotCollide
    <2>7. At("done").def = None /\ At("done").pc = "done"
        BY DEF At
    <2>8. \A u \in Tasks : task'[u] = IF u = t THEN At("done") ELSE task[u]
        BY <1>2 DEF TInv, TypeOK
    <2>9. \A u \in Tasks : /\ task'[u].def # None => origin[task'[u].def] # None
                           /\ task'[u].pc \in {"check", "insert"}
                              => task'[u].row.params \in NewParams
        BY <2>7, <2>8 DEF OriginInv
    <2> QED BY <2>5, <2>6, <2>9 DEF OriginInv, Exists, NewParams
<1>3. CASE task' = [task EXCEPT ![t].pc = "insert"] /\ UNCHANGED skipped
    <2> DEFINE s == [task[t] EXCEPT !.pc = "insert"]
    <2>1. s.def = task[t].def /\ s.row = row /\ task' = [task EXCEPT ![t] = s]
        BY <1>3 DEF TInv, TypeOK, Task
    <2> HIDE DEF s
    <2>2. task[t].def = None
        BY <1>1, TaskFields DEF Holding
    <2>3. \A d \in Defs : definitions'[d] # None => origin[d] # None
        BY OriginSaved DEF Check
    <2> QED BY <1>1, <1>3, <2>1, <2>2, <2>3, OriginMove DEF Check
<1> QED BY <1>2, <1>3 DEF Check

LEMMA OriginInsert ==
    ASSUME TInv, OriginInv, NEW t \in Tasks, Insert(t)
    PROVE  OriginInv'
<1> DEFINE row == task[t].row
<1>0. row \in Row /\ row.params \in NewParams /\ row.params # None
    BY TaskFields, NoneAssumption DEF Insert, WithRow, OriginInv, Row
<1>1. PICK d \in Defs :
         /\ origin[d] = None
         /\ IF Conflicts(d, row)
            THEN /\ task' = [task EXCEPT ![t] = At("done")]
                 /\ UNCHANGED <<definitions, script, origin, suspect>>
            ELSE /\ definitions' = Saved(d, row)
                 /\ origin' = [origin EXCEPT ![d] = row.params]
                 /\ task' = [task EXCEPT ![t].pc = "register", ![t].def = d]
                 /\ Begin(d)
    BY DEF Insert
<1>2. skipped' = skipped
    BY DEF Insert
<1>3. CASE Conflicts(d, row)
    <2>1. At("done").def = None /\ At("done").pc = "done"
        BY DEF At
    <2>2. \A e \in Defs : definitions'[e] # None => origin[e] # None
        BY <1>1, <1>3 DEF OriginInv, Exists
    <2> QED BY <1>1, <1>2, <1>3, <2>1, <2>2, OriginMove
<1>4. CASE ~Conflicts(d, row)
    <2>1. /\ origin'[d] = row.params
          /\ \A e \in Defs : e # d => origin'[e] = origin[e]
          /\ \A e \in Defs : e # d => definitions'[e] = definitions[e]
        BY <1>0, <1>1, <1>4, SavedLemma DEF TInv, TypeOK
    <2>2. \A e \in Defs : origin[e] # None => origin'[e] = origin[e]
        BY <1>1, <2>1
    <2>3. task'[t].pc = "register" /\ task'[t].def = d
        BY <1>1, <1>4 DEF TInv, TypeOK, Task
    <2>4. \A u \in Tasks : u # t => task'[u] = task[u]
        BY <1>1, <1>4 DEF TInv, TypeOK
    <2>5. \A u \in Tasks : task[u].def # None => task[u].def \in Defs
        BY DEF TInv, TypeOK, Task
    <2>6. ASSUME NEW u \in Tasks
          PROVE  /\ task'[u].def # None => origin'[task'[u].def] # None
                 /\ task'[u].pc \in {"check", "insert"} => task'[u].row.params \in NewParams
        <3>1. CASE u = t
            BY <1>0, <2>1, <2>3, <3>1
        <3>2. CASE u # t
            BY <2>2, <2>4, <2>5, <3>2 DEF OriginInv
        <3> QED BY <3>1, <3>2
    <2>7. VariantsDoNotCollide'
        <3>1. \A p \in skipped : p # None
            BY NoneAssumption DEF TInv, TypeOK
        <3> QED BY <1>2, <2>2, <3>1 DEF OriginInv, VariantsDoNotCollide
    <2>8. \A e \in Defs : /\ origin'[e] # None => origin'[e] \in NewParams
                          /\ Exists(e)' => origin'[e] # None
        BY <1>0, <2>1 DEF OriginInv, Exists
    <2> QED BY <2>6, <2>7, <2>8 DEF OriginInv, NewParams
<1> QED BY <1>3, <1>4

\* A task that moves on with what it holds.
LEMMA OriginGoesOn ==
    ASSUME TInv, OriginInv, NEW t \in Tasks,
           \/ task' = [task EXCEPT ![t] = At("done")]
           \/ \E pc \in {"unregister", "register", "delete"} : task' = [task EXCEPT ![t].pc = pc],
           UNCHANGED <<origin, skipped>>,
           \A d \in Defs : definitions'[d] # None => origin[d] # None
    PROVE  OriginInv'
<1>1. task[t].def # None => task[t].def \in Defs /\ origin[task[t].def] # None
    BY DEF OriginInv, TInv, TypeOK, Task
<1>2. PICK s : /\ task' = [task EXCEPT ![t] = s]
               /\ s.def # None => s.def = task[t].def
               /\ s.pc \notin {"check", "insert"}
    <2>1. CASE task' = [task EXCEPT ![t] = At("done")]
        <3>1. At("done").def = None /\ At("done").pc = "done"
            BY DEF At
        <3> QED BY <2>1, <3>1
    <2>2. ASSUME NEW pc \in {"unregister", "register", "delete"},
                 task' = [task EXCEPT ![t].pc = pc]
          PROVE  \E s : /\ task' = [task EXCEPT ![t] = s]
                        /\ s.def # None => s.def = task[t].def
                        /\ s.pc \notin {"check", "insert"}
        <3> DEFINE s == [task[t] EXCEPT !.pc = pc]
        <3>1. s.pc = pc /\ s.def = task[t].def /\ task' = [task EXCEPT ![t] = s]
            BY <2>2, Records DEF TaskPC
        <3> QED BY <3>1
    <2> QED BY <2>1, <2>2
<1> QED BY <1>1, <1>2, OriginMove

\* A task begins to work on a row that is there, or to schedule one.
LEMMA OriginBegin ==
    ASSUME TInv, OriginInv, NEW t \in Tasks, Start(t)
    PROVE  OriginInv'
<1>1. UNCHANGED <<definitions, origin, skipped>>
    BY DEF Start, BeginSchedule, ReadForPatch, ReadForDelete, ReadForRun
<1>2. \A d \in Defs : definitions'[d] # None => origin[d] # None
    BY <1>1 DEF OriginInv, Exists
<1>3. CASE BeginSchedule(t)
    <2>1. PICK v \in Variants, c \in Crons :
              task' = [task EXCEPT ![t] = [At("check") EXCEPT !.row = NewRow(v, c)]]
        BY <1>3 DEF BeginSchedule
    <2> DEFINE s == [At("check") EXCEPT !.row = NewRow(v, c)]
    <2>2. s.def = None /\ s.row.params \in NewParams
        BY DEF At, NewRow, NewParams
    <2> HIDE DEF s
    <2> QED BY <1>1, <1>2, <2>1, <2>2, OriginMove DEF s
<1>4. ASSUME NEW d \in Defs, ReadForPatch(t, d) \/ ReadForDelete(t, d) \/ ReadForRun(t, d)
      PROVE  OriginInv'
    <2>1. Exists(d)
        BY <1>4 DEF ReadForPatch, ReadForDelete, ReadForRun, Enabled
    <2>2. PICK s : /\ task' = [task EXCEPT ![t] = s] /\ s.def = d
                   /\ s.pc \notin {"check", "insert"}
        <3>1. CASE ReadForPatch(t, d)
            BY <3>1 DEF ReadForPatch
        <3>2. CASE ReadForDelete(t, d)
            <4> DEFINE s == [At("unregister") EXCEPT !.def = d]
            <4>1. s.def = d /\ s.pc = "unregister"
                BY DEF At
            <4>2. task' = [task EXCEPT ![t] = s]
                BY <3>2 DEF ReadForDelete
            <4> HIDE DEF s
            <4> QED BY <4>1, <4>2
        <3>3. CASE ReadForRun(t, d)
            BY <3>3 DEF ReadForRun
        <3> QED BY <1>4, <3>1, <3>2, <3>3
    <2> QED BY <1>1, <1>2, <2>1, <2>2, OriginMove DEF OriginInv
<1> QED BY <1>3, <1>4 DEF Start

LEMMA OriginStep ==
    ASSUME ~Keyed \/ \A u, v \in Variants : u = v, TInv, OriginInv, [Next]_vars
    PROVE  OriginInv'
<1>1. ASSUME NEW t \in Tasks, SavePatch(t) \/ SaveRun(t) PROVE OriginInv'
    <2>1. task[t].row \in Row /\ task[t].def \in Defs
        BY <1>1, TaskFields DEF SavePatch, SaveRun, WithRow, Holding
    <2>2. \A d \in Defs : definitions'[d] # None => origin[d] # None
        BY <1>1, <2>1, OriginSaved DEF SavePatch, SaveRun
    <2> QED BY <1>1, <2>2, OriginGoesOn DEF SavePatch, SaveRun
<1>2. ASSUME NEW t \in Tasks, Unregister(t) \/ Register(t) \/ TaskFails(t) PROVE OriginInv'
    <2>1. \A d \in Defs : definitions'[d] # None => origin[d] # None
        BY <1>2, OriginSaved DEF Unregister, Register, TaskFails
    <2> QED BY <1>2, <2>1, OriginGoesOn DEF Unregister, Register, TaskFails
<1>3. ASSUME NEW t \in Tasks, Delete(t) PROVE OriginInv'
    <2>1. task[t].def \in Defs
        BY <1>3, TaskFields DEF Delete, Holding
    <2>2. \A d \in Defs : definitions'[d] # None => origin[d] # None
        BY <1>3, <2>1, OriginSaved DEF Delete
    <2> QED BY <1>3, <2>2, OriginGoesOn DEF Delete
<1>4. CASE Reconcile \/ ScriptFails \/ UNCHANGED vars
    <2>1. UNCHANGED <<definitions, task, origin, skipped>>
        BY <1>4 DEF Reconcile, ReadEnabled, RegisterEnabled, ReadProviders,
                    ListSchedulers, DropStale, ScriptFails, vars
    <2> QED BY <2>1 DEF OriginInv, Exists, VariantsDoNotCollide
<1> QED BY <1>1, <1>2, <1>3, <1>4, OriginBegin, OriginCheck, OriginInsert DEF Next, Continue

\* Schedules are only mistaken for each other where an entity has several and all of
\* them carry its key, as those of the AI search do: elsewhere, whatever is
\* patched, deleted and redelivered, a call is only skipped for a definition that
\* was scheduled for the same.
THEOREM OneVariantNeverCollides ==
    ASSUME ~Keyed \/ \A u, v \in Variants : u = v
    PROVE  Spec => []VariantsDoNotCollide
<1>1. Init => TInv /\ OriginInv
    BY InitTypes, OriginInit
<1>2. (TInv /\ OriginInv) /\ [Next]_vars => (TInv /\ OriginInv)'
    BY StepTypes, OriginStep
<1>3. TInv /\ OriginInv => VariantsDoNotCollide
    BY DEF OriginInv
<1> QED BY <1>1, <1>2, <1>3, PTL DEF Spec
=============================================================================
