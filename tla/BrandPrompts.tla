---------------------------- MODULE BrandPrompts ----------------------------
(***************************************************************************)
(* Brand prompts: the API registers, pauses, resumes and deletes them, an  *)
(* event listener of the same process fans a new prompt out into one job   *)
(* definition per AI provider, and the worker executes the definitions:    *)
(* one paid call each, whose answer is recorded for the prompt.  Nothing   *)
(* relational ties a definition to its prompt: deleting a prompt cascades  *)
(* in the application, and what the cascade misses is stopped by the       *)
(* worker.  Every awaited call is an action of its own.                    *)
(***************************************************************************)
EXTENDS Naturals, FiniteSets

CONSTANTS
    Prompts,     \* ids of brand prompts of one project, each generated by a call of
                 \* RegisterBrandPromptUseCase that goes by the same name
    TextOf,      \* the text of each
    Providers,   \* the AI-search providers, one endpoint each
    Toggles,     \* calls of PauseBrandPromptUseCase and ResumeBrandPromptUseCase
    Deletes,     \* calls of DeleteBrandPromptUseCase
    Executions,  \* workers' slots for ProviderFetchProcessor.handle
    MaxTriggers, \* bound: runs that operators trigger
    MaxFaults,   \* bound: rejected calls and crashes
    None         \* no prompt

Calls == Prompts \cup Toggles \cup Deletes
Schedules == Prompts \X Providers

ASSUME NoneAssumption == None \notin Prompts \cup Schedules
ASSUME CallsAssumption ==
    /\ Prompts \cap (Toggles \cup Deletes) = {}
    /\ Toggles \cap Deletes = {}
ASSUME TextAssumption == DOMAIN TextOf = Prompts
ASSUME BoundAssumption == MaxTriggers \in Nat /\ MaxFaults \in Nat

PromptStates == {"absent", "active", "paused"}
DefinitionStates == {"absent", "enabled", "disabled"}

\* A call, the prompt it works on, the state it is about to give the prompt and
\* the definitions it has yet to delete.
Call == [pc : {"ready", "insert", "save", "list", "drop", "done"},
         prompt : Prompts \cup {None}, to : PromptStates, todo : SUBSET Schedules]

\* What the listener is at, for each provider of a prompt.
FanOutPC == {"idle", "read", "insert", "register"}

\* An execution, its definition and the enabled flag it holds in memory.
Execution == [pc : {"idle", "start", "fetch", "store", "ingest", "save"},
              of : Schedules \cup {None}, enabled : BOOLEAN]

VARIABLES
    prompts,      \* brand_prompts
    definitions,  \* provider_job_definitions
    ticking,      \* the definitions that have a job scheduler in Redis
    payloads,     \* raw_payloads of today, by request
    call,         \* the API calls
    fanOut,       \* the listener of BrandPromptCreated
    execution,    \* the worker
    triggers,     \* runs triggered so far
    faults,       \* faults so far
    registered,   \* history: the ids that were ever inserted
    raced,        \* history: definitions that were worked on while their prompt
                  \* was being deleted
    unclean,      \* history: definitions executed twice at once or by an
                  \* execution that broke off
    wasted        \* history: paid calls since a prompt is gone, up to two, by
                  \* executions that are not unclean

vars == <<prompts, definitions, ticking, payloads, call, fanOut, execution, triggers,
          faults, registered, raced, unclean, wasted>>
history == <<registered, raced, unclean, wasted>>

Ready == [pc |-> "ready", prompt |-> None, to |-> "absent", todo |-> {}]
Done == [Ready EXCEPT !.pc = "done"]
Idle == [pc |-> "idle", of |-> None, enabled |-> TRUE]

Live(p) == prompts[p] # "absent"
Gone(p) == p \in registered /\ ~Live(p)
Exists(d) == definitions[d] # "absent"
Of(p) == {p} \X Providers

FanningOut(d) == fanOut[d] # "idle"
Executing(d) == \E e \in Executions : execution[e].of = d
Deleting(p) == \E c \in Deletes : call[c].prompt = p

-----------------------------------------------------------------------------
\* RegisterBrandPromptUseCase.

\* findExisting finds none: an id is generated.
BeginRegister(p) ==
    /\ call[p].pc = "ready"
    /\ \A q \in Prompts : TextOf[q] = TextOf[p] => ~Live(q)
    /\ call' = [call EXCEPT ![p] =
                   [pc |-> "insert", prompt |-> p, to |-> "active", todo |-> {}]]
    /\ UNCHANGED <<prompts, definitions, ticking, payloads, triggers, fanOut, execution, faults, history>>

\* Mutant of TextTaken: no unique index on project and text.
TextFree(p) == FALSE

\* Inserting the row of p violates the unique index on project and text.
TextTaken(p) == ~Live(p) /\ \E q \in Prompts : Live(q) /\ TextOf[q] = TextOf[p]

\* The row is inserted and the event published: the listener is called but not
\* awaited.
Insert(c) ==
    LET p == call[c].prompt
    IN /\ call[c].pc = "insert"
       /\ call' = [call EXCEPT ![c] = Done]
       /\ IF TextTaken(p)
          THEN UNCHANGED <<prompts, fanOut, registered>>
          ELSE /\ prompts' = [prompts EXCEPT ![p] = "active"]
               /\ fanOut' = [d \in Schedules |-> IF d \in Of(p) THEN "read" ELSE fanOut[d]]
               /\ registered' = registered \cup {p}
       /\ UNCHANGED <<definitions, ticking, payloads, triggers, execution, faults,
                      raced, unclean, wasted>>

-----------------------------------------------------------------------------
\* The auto-schedule handler of BrandPromptCreated, and the call of
\* ScheduleEndpointFetchUseCase it makes for each provider, all in parallel.
\* It never looks at the prompt again.

\* The project's locations and the credentials are read: no credential of a
\* provider, no definition (no location, none at all).
ReadConnected(p) ==
    /\ \A d \in Of(p) : fanOut[d] = "read"
    /\ \E connected \in SUBSET Of(p) :
          fanOut' = [d \in Schedules |->
                        IF d \notin Of(p) THEN fanOut[d]
                        ELSE IF d \in connected THEN "insert" ELSE "idle"]
    /\ UNCHANGED <<prompts, definitions, ticking, payloads, triggers, call, execution, faults,
                   history>>

\* findByProjectEndpointAndSystemParam, with the prompt's id as the key.
AlreadyScheduled(d) == Exists(d)

InsertDefinition(d) ==
    /\ fanOut[d] = "insert"
    /\ IF AlreadyScheduled(d)
       THEN /\ fanOut' = [fanOut EXCEPT ![d] = "idle"]
            /\ UNCHANGED definitions
       ELSE /\ fanOut' = [fanOut EXCEPT ![d] = "register"]
            /\ definitions' = [definitions EXCEPT ![d] = "enabled"]
    /\ UNCHANGED <<prompts, ticking, payloads, triggers, call, execution, faults, history>>

RegisterScheduler(d) ==
    /\ fanOut[d] = "register"
    /\ ticking' = ticking \cup {d}
    /\ fanOut' = [fanOut EXCEPT ![d] = "idle"]
    /\ UNCHANGED <<prompts, definitions, payloads, triggers, call, execution, faults, history>>

FanOut(p) ==
    \/ ReadConnected(p)
    \/ \E d \in Of(p) : InsertDefinition(d) \/ RegisterScheduler(d)

-----------------------------------------------------------------------------
\* PauseBrandPromptUseCase and ResumeBrandPromptUseCase.  Nothing listens to
\* their events, and neither the schedules nor the worker look at the state.

ReadForToggle(c, p) ==
    /\ call[c].pc = "ready"
    /\ Live(p)
    /\ call' = [call EXCEPT ![c] =
                   [pc |-> "save", prompt |-> p, todo |-> {},
                    to |-> IF prompts[p] = "active" THEN "paused" ELSE "active"]]
    /\ UNCHANGED <<prompts, definitions, ticking, payloads, triggers, fanOut, execution, faults, history>>

\* The upsert inserts a prompt again that was deleted meanwhile, unless its text
\* is taken: then the call throws.
SaveToggle(c) ==
    LET p == call[c].prompt
    IN /\ call[c].pc = "save"
       /\ prompts' = IF TextTaken(p) THEN prompts ELSE [prompts EXCEPT ![p] = call[c].to]
       /\ call' = [call EXCEPT ![c] = Done]
       /\ wasted' = IF TextTaken(p) THEN wasted
                    ELSE [d \in Schedules |-> IF d \in Of(p) THEN 0 ELSE wasted[d]]
       /\ UNCHANGED <<definitions, ticking, payloads, triggers, fanOut, execution, faults,
                      registered, raced, unclean>>

-----------------------------------------------------------------------------
\* DeleteBrandPromptUseCase: the schedules first, then the prompt.  The rows go,
\* the job schedulers stay until the reconcile script finds them.

BeginDelete(c, p) ==
    /\ call[c].pc = "ready"
    /\ Live(p)
    /\ call' = [call EXCEPT ![c] = [Ready EXCEPT !.pc = "list", !.prompt = p]]
    /\ raced' = raced \cup {d \in Of(p) : FanningOut(d) \/ Executing(d)}
    /\ UNCHANGED <<prompts, definitions, ticking, payloads, triggers, fanOut, execution, faults,
                   registered, unclean, wasted>>

\* Mutant of SchedulesOf: only those that would still run.
EnabledOf(p) == {d \in Of(p) : definitions[d] = "enabled" /\ d \in ticking}

\* The definitions of the project whose params name the prompt.
SchedulesOf(p) == {d \in Of(p) : Exists(d)}

ListSchedules(c) ==
    /\ call[c].pc = "list"
    /\ call' = [call EXCEPT ![c].pc = "drop", ![c].todo = SchedulesOf(call[c].prompt)]
    /\ UNCHANGED <<prompts, definitions, ticking, payloads, triggers, fanOut, execution, faults, history>>

DropSchedule(c) ==
    /\ call[c].pc = "drop"
    /\ \E d \in call[c].todo :
          /\ definitions' = [definitions EXCEPT ![d] = "absent"]
          /\ call' = [call EXCEPT ![c].todo = @ \ {d}]
    /\ UNCHANGED <<prompts, ticking, payloads, triggers, fanOut, execution, faults,
                   registered, raced, unclean, wasted>>

RemovePrompt(c) ==
    /\ call[c].pc = "drop"
    /\ call[c].todo = {}
    /\ prompts' = [prompts EXCEPT ![call[c].prompt] = "absent"]
    /\ call' = [call EXCEPT ![c] = Done]
    /\ UNCHANGED <<definitions, ticking, payloads, triggers, fanOut, execution, faults, history>>

-----------------------------------------------------------------------------
\* ProviderFetchProcessor.handle and RecordLlmAnswerUseCase, as far as an
\* AI-search definition goes.

Goes(e, pc) == execution' = [execution EXCEPT ![e].pc = pc]

\* A job of the definition is taken.  A job of a definition that is gone throws
\* and one of a disabled definition is skipped.
Take(e, d) ==
    /\ execution[e].pc = "idle"
    /\ definitions[d] = "enabled"
    /\ execution' = [execution EXCEPT ![e] = [pc |-> "start", of |-> d, enabled |-> TRUE]]
    /\ raced' = IF Deleting(d[1]) THEN raced \cup {d} ELSE raced
    /\ unclean' = IF Executing(d) THEN unclean \cup {d} ELSE unclean
    /\ UNCHANGED <<prompts, definitions, ticking, payloads, call, fanOut, faults,
                   registered, wasted>>

\* The scheduler ticks, once a day: the execution before has ended.
Tick(e, d) ==
    /\ d \in ticking
    /\ ~Executing(d)
    /\ Take(e, d)
    /\ UNCHANGED triggers

\* An operator runs the definition now, whatever else is running.
Trigger(e, d) ==
    /\ triggers < MaxTriggers
    /\ triggers' = triggers + 1
    /\ Take(e, d)

\* What a definition's request hash names, the day apart: brandPromptId is a key
\* of the paramsSchema of the AI endpoints, which deriveRequestIdentity keeps, so
\* prompt and provider, and two prompts of one text share no payload.
Request(d) == [brandPromptId |-> d[1], provider |-> d[2]]

\* The credential is resolved and the run saved, which its foreign key refuses
\* for a definition that is gone; then today's payload is looked up.
Start(e) ==
    LET d == execution[e].of
    IN /\ execution[e].pc = "start"
       /\ execution' = [execution EXCEPT ![e] =
              IF ~Exists(d) THEN Idle
              ELSE [@ EXCEPT !.pc = IF Request(d) \in payloads THEN "ingest" ELSE "fetch"]]
       /\ UNCHANGED <<prompts, definitions, ticking, payloads, triggers, call, fanOut, faults,
                      history>>

\* The paid call.
Fetch(e) ==
    LET d == execution[e].of
    IN /\ execution[e].pc = "fetch"
       /\ Goes(e, "store")
       /\ wasted' = IF Gone(d[1]) /\ d \notin unclean /\ wasted[d] < 2
                    THEN [wasted EXCEPT ![d] = @ + 1] ELSE wasted
       /\ UNCHANGED <<prompts, definitions, ticking, payloads, triggers, call, fanOut, faults,
                      registered, raced, unclean>>

\* The provider refuses it: the definition is saved as it is, or disabled if the
\* quota is exhausted.
FetchFails(e) ==
    /\ execution[e].pc = "fetch"
    /\ \E enabled \in BOOLEAN :
          execution' = [execution EXCEPT ![e].pc = "save", ![e].enabled = enabled]
    /\ UNCHANGED <<prompts, definitions, ticking, payloads, triggers, call, fanOut, faults, history>>

Store(e) ==
    /\ execution[e].pc = "store"
    /\ payloads' = payloads \cup {Request(execution[e].of)}
    /\ Goes(e, "ingest")
    /\ UNCHANGED <<prompts, definitions, ticking, triggers, call, fanOut, faults, history>>

\* Mutant of WhenMissing: the definition stays as it is (before #174).
KeepEnabled(enabled) == enabled

\* The prompt of a definition is gone: the definition is disabled, both after a
\* fetch and when the payload came from the cache.
WhenMissing(enabled) == FALSE

\* The prompt is looked up; the judge is called and the answer saved, whether or
\* not the prompt is still there by then (answers are kept, and nothing here
\* reads them).
Ingest(e) ==
    /\ execution[e].pc = "ingest"
    /\ execution' = [execution EXCEPT ![e].pc = "save",
           ![e].enabled = IF Live(execution[e].of[1]) THEN @ ELSE WhenMissing(@)]
    /\ UNCHANGED <<prompts, definitions, ticking, payloads, triggers, call, fanOut, faults,
                   history>>

\* The upsert of the definition, which inserts it again if it was deleted.
Save(e) ==
    LET x == execution[e]
    IN /\ x.pc = "save"
       /\ definitions' = [definitions EXCEPT ![x.of] =
                             IF x.enabled THEN "enabled" ELSE "disabled"]
       /\ execution' = [execution EXCEPT ![e] = Idle]
       /\ UNCHANGED <<prompts, ticking, payloads, triggers, call, fanOut, faults, history>>

Continue(e) ==
    Start(e) \/ Fetch(e) \/ FetchFails(e) \/ Store(e) \/ Ingest(e) \/ Save(e)

\* The date bucket of the request hash changes.
NextDay ==
    /\ payloads' = {}
    /\ UNCHANGED <<prompts, definitions, ticking, triggers, call, fanOut, execution, faults, history>>

-----------------------------------------------------------------------------
\* Faults.

\* A call rejects.  One that has begun to delete leaves what it has not reached.
CallFails(c) ==
    /\ faults < MaxFaults
    /\ call[c].prompt # None
    /\ call' = [call EXCEPT ![c] = Done]
    /\ faults' = faults + 1
    /\ UNCHANGED <<prompts, definitions, ticking, payloads, triggers, fanOut, execution, history>>

\* Scheduling one provider rejects and is logged; the others go on.
FanOutFails(d) ==
    /\ faults < MaxFaults
    /\ fanOut[d] \in {"insert", "register"}
    /\ fanOut' = [fanOut EXCEPT ![d] = "idle"]
    /\ faults' = faults + 1
    /\ UNCHANGED <<prompts, definitions, ticking, payloads, triggers, call, execution,
                   registered, raced, unclean, wasted>>

\* The API restarts: calls end where they are, and events that were not handled
\* are lost with the process.
ApiRestarts ==
    /\ faults < MaxFaults
    /\ call' = [c \in Calls |-> IF call[c].prompt = None THEN call[c] ELSE Done]
    /\ fanOut' = [d \in Schedules |-> "idle"]
    /\ faults' = faults + 1
    /\ UNCHANGED <<prompts, definitions, ticking, payloads, triggers, execution,
                   registered, raced, unclean, wasted>>

\* The worker dies, or cannot save what it did.
ExecutionFails(e) ==
    /\ faults < MaxFaults
    /\ execution[e].pc # "idle"
    /\ unclean' = unclean \cup {execution[e].of}
    /\ execution' = [execution EXCEPT ![e] = Idle]
    /\ faults' = faults + 1
    /\ UNCHANGED <<prompts, definitions, ticking, payloads, triggers, call, fanOut,
                   registered, raced, wasted>>

-----------------------------------------------------------------------------
Init ==
    /\ prompts = [p \in Prompts |-> "absent"]
    /\ definitions = [d \in Schedules |-> "absent"]
    /\ ticking = {}
    /\ payloads = {}
    /\ call = [c \in Calls |-> Ready]
    /\ fanOut = [d \in Schedules |-> "idle"]
    /\ execution = [e \in Executions |-> Idle]
    /\ triggers = 0
    /\ faults = 0
    /\ registered = {}
    /\ raced = {}
    /\ unclean = {}
    /\ wasted = [d \in Schedules |-> 0]

Begin ==
    \E p \in Prompts :
       \/ BeginRegister(p)
       \/ \E c \in Toggles : ReadForToggle(c, p)
       \/ \E c \in Deletes : BeginDelete(c, p)

Proceed(c) ==
    \/ Insert(c) \/ SaveToggle(c)
    \/ ListSchedules(c) \/ DropSchedule(c) \/ RemovePrompt(c)

Fault ==
    \/ \E c \in Calls : CallFails(c)
    \/ \E d \in Schedules : FanOutFails(d)
    \/ ApiRestarts
    \/ \E e \in Executions : ExecutionFails(e)

Next ==
    \/ Begin
    \/ \E c \in Calls : Proceed(c)
    \/ \E p \in Prompts : FanOut(p)
    \/ \E e \in Executions : Continue(e) \/ \E d \in Schedules : Tick(e, d) \/ Trigger(e, d)
    \/ NextDay
    \/ Fault

Spec == Init /\ [][Next]_vars

\* Calls and listeners that have begun go on and the worker goes on with its
\* jobs.  It takes a job of every definition that keeps ticking, and of the calls
\* for one definition a provider answers one now and then.  No request has to
\* arrive, and no operator has to trigger a run.
FairSpec ==
    /\ Spec
    /\ WF_vars((\E c \in Calls : Proceed(c)) \/ (\E p \in Prompts : FanOut(p)))
    /\ \A e \in Executions : WF_vars(Continue(e))
    /\ \A d \in Schedules :
          /\ SF_vars(\E e \in Executions : Tick(e, d))
          /\ SF_vars(\E e \in Executions : execution[e].of = d /\ Fetch(e))

-----------------------------------------------------------------------------
\* However registrations, resumes and deletes overlap (a resume may bring a
\* deleted prompt back after its text was registered again), a project never
\* has two prompts with the same text.
OnePromptPerText ==
    \A p, q \in Prompts : Live(p) /\ Live(q) /\ TextOf[p] = TextOf[q] => p = q

TypeOK ==
    /\ prompts \in [Prompts -> PromptStates]
    /\ definitions \in [Schedules -> DefinitionStates]
    /\ ticking \subseteq Schedules
    /\ payloads \subseteq [brandPromptId : Prompts, provider : Providers]
    /\ call \in [Calls -> Call]
    /\ fanOut \in [Schedules -> FanOutPC]
    /\ execution \in [Executions -> Execution]
    /\ triggers \in 0 .. MaxTriggers
    /\ faults \in 0 .. MaxFaults
    /\ registered \subseteq Prompts
    /\ raced \subseteq Schedules
    /\ unclean \subseteq Schedules
    /\ wasted \in [Schedules -> 0 .. 2]
    /\ OnePromptPerText

\* The cascade of a delete is complete: a definition survives its prompt only
\* if the fan-out or an execution was at work on it during the delete: the fan-out
\* inserts it after the schedules were listed, or the worker saves it again.
OrphansAreRaces ==
    \A d \in Schedules :
        Gone(d[1]) /\ Exists(d) /\ ~FanningOut(d) /\ ~Executing(d) => d \in raced

\* Of the delete ("auto-disables the definition on the first failed tick - no
\* second wasted API call"): a definition pays for at most one answer while its
\* prompt is gone, unless its executions overlapped or broke off.
OneWastedCall ==
    \A d \in Schedules : wasted[d] > 1 => d \in unclean

\* Whatever overlapped or failed, the schedules of a prompt that is gone for
\* good stop by themselves: in the end none is enabled and ticking.
OrphansGoQuiet ==
    <>[](\A d \in Schedules :
            Gone(d[1]) => ~(d \in ticking /\ definitions[d] = "enabled"))
=============================================================================
