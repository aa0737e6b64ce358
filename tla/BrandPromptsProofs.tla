------------------------- MODULE BrandPromptsProofs -------------------------
(***************************************************************************)
(* Proofs about brand prompts: types, one prompt per text, that the        *)
(* cascade of a delete misses a definition only when something else was    *)
(* working on it, that what it misses pays for one answer only, and that   *)
(* what has stopped stays so.                                              *)
(***************************************************************************)
EXTENDS BrandPrompts, TLAPS

\* What a call holds at each step.
CallSound(c) ==
    LET x == call[c]
    IN /\ x.pc \in {"ready", "done"} <=> x.prompt = None
       /\ c \in Prompts => x.pc \in {"ready", "insert", "done"}
       /\ c \in Toggles => x.pc \in {"ready", "save", "done"}
       /\ c \in Deletes => x.pc \in {"ready", "list", "drop", "done"}
       /\ x.pc = "insert" => x.prompt = c
       /\ x.pc = "save" => x.to # "absent"
       /\ c \notin Prompts /\ x.prompt # None => x.prompt \in registered

\* A prompt is inserted by the call of its name, once; afterwards only a resume
\* brings it back.
PromptSound(p) ==
    /\ Live(p) => p \in registered
    /\ p \in registered => call[p].pc = "done"

\* A definition that nothing raced with is quiet during a delete, on the delete's
\* list from the time there is one, and gone with its prompt.
DefinitionSound(d) ==
    d \notin raced
    => /\ Deleting(d[1]) => ~FanningOut(d) /\ ~Executing(d)
       /\ \A c \in Deletes :
             call[c].pc = "drop" /\ call[c].prompt = d[1] /\ Exists(d) => d \in call[c].todo
       /\ Gone(d[1]) => ~Exists(d) /\ ~FanningOut(d) /\ ~Executing(d)

PromptInv ==
    /\ TypeOK
    /\ \A c \in Calls : CallSound(c)
    /\ \A p \in Prompts : PromptSound(p)
    /\ \A e \in Executions : execution[e].pc # "idle" => execution[e].of \in Schedules
    /\ \A d \in Schedules : DefinitionSound(d)

-----------------------------------------------------------------------------
\* Schedules are pairs.

LEMMA ScheduleFacts ==
    /\ \A d \in Schedules : d[1] \in Prompts
    /\ \A p \in Prompts, d \in Schedules : d \in Of(p) <=> d[1] = p
    /\ \A p \in Prompts : Of(p) \subseteq Schedules
BY DEF Schedules, Of

LEMMA CallFacts ==
    /\ Prompts \subseteq Calls /\ Toggles \subseteq Calls /\ Deletes \subseteq Calls
    /\ \A c \in Deletes : c \notin Prompts /\ c \notin Toggles
    /\ \A c \in Toggles : c \notin Prompts /\ c \notin Deletes
BY CallsAssumption DEF Calls

LEMMA Initially == Init => PromptInv
<1> SUFFICES ASSUME Init PROVE PromptInv
    OBVIOUS
<1>1. Ready \in Call /\ Ready.pc = "ready" /\ Ready.prompt = None
    BY DEF Ready, Call, PromptStates
<1>2. Idle \in Execution /\ Idle.pc = "idle" /\ Idle.of = None
    BY DEF Idle, Execution
<1>3. /\ \A c \in Calls : call[c] = Ready
      /\ \A e \in Executions : execution[e] = Idle
      /\ \A p \in Prompts : prompts[p] = "absent"
      /\ \A d \in Schedules : definitions[d] = "absent" /\ fanOut[d] = "idle"
      /\ registered = {} /\ raced = {}
    BY DEF Init
<1>4. TypeOK
    BY <1>1, <1>2, BoundAssumption
       DEF Init, TypeOK, PromptStates, DefinitionStates, FanOutPC, OnePromptPerText, Live
<1>5. \A c \in Calls : CallSound(c)
    BY <1>1, <1>3 DEF CallSound
<1>6. \A p \in Prompts : PromptSound(p)
    BY <1>3 DEF PromptSound, Live
<1>7. \A e \in Executions : execution[e].pc = "idle"
    BY <1>2, <1>3
<1>8. \A d \in Schedules : DefinitionSound(d)
    BY <1>1, <1>3, ScheduleFacts, CallFacts, NoneAssumption
       DEF DefinitionSound, Deleting, Gone, Exists, FanningOut
<1> QED BY <1>4, <1>5, <1>6, <1>7, <1>8 DEF PromptInv

\* A step that touches neither prompts nor calls, and after which the definitions
\* that are being deleted or have lost their prompt are as quiet as before.
LEMMA DefinitionsStep ==
    ASSUME PromptInv, TypeOK', UNCHANGED <<prompts, call, registered>>, raced \subseteq raced',
           \A e \in Executions : execution'[e].pc # "idle" => execution'[e].of \in Schedules,
           \A d \in Schedules \ raced' :
              Deleting(d[1]) \/ Gone(d[1])
              => /\ Exists(d)' => Exists(d)
                 /\ FanningOut(d)' => FanningOut(d)
                 /\ Executing(d)' => Executing(d)
    PROVE  PromptInv'
<1>1. \A c \in Calls : CallSound(c)'
    BY DEF PromptInv, CallSound
<1>2. \A p \in Prompts : PromptSound(p)'
    BY DEF PromptInv, PromptSound, Live
<1>3. ASSUME NEW d \in Schedules, d \notin raced'
      PROVE  DefinitionSound(d)'
    <2>1. DefinitionSound(d) /\ d \notin raced
        BY <1>3 DEF PromptInv
    <2>2. /\ Deleting(d[1])' <=> Deleting(d[1])
          /\ Gone(d[1])' <=> Gone(d[1])
        BY DEF Deleting, Gone, Live
    <2>3. ASSUME NEW c \in Deletes, call[c].pc = "drop", call[c].prompt = d[1], Exists(d)'
          PROVE  d \in call[c].todo
        <3>1. Deleting(d[1])
            BY <2>3 DEF Deleting
        <3>2. Exists(d)
            BY <1>3, <2>3, <3>1
        <3> QED BY <2>1, <2>3, <3>2 DEF DefinitionSound
    <2> QED BY <1>3, <2>1, <2>2, <2>3 DEF DefinitionSound
<1>4. \A d \in Schedules : DefinitionSound(d)'
    BY <1>3 DEF DefinitionSound
<1> QED BY <1>1, <1>2, <1>4 DEF PromptInv

-----------------------------------------------------------------------------
\* The listener.

\* Only a definition that is being fanned out changes.
LEMMA FanOutMoves ==
    ASSUME PromptInv,
           UNCHANGED <<prompts, payloads, triggers, call, execution, history>>,
           faults' \in 0 .. MaxFaults, ticking' \subseteq Schedules,
           definitions' \in [Schedules -> DefinitionStates],
           fanOut' \in [Schedules -> FanOutPC],
           \A d \in Schedules : fanOut'[d] # "idle" => fanOut[d] # "idle",
           \A d \in Schedules : definitions'[d] # definitions[d] => fanOut[d] # "idle"
    PROVE  PromptInv'
<1>1. TypeOK'
    BY DEF PromptInv, TypeOK, OnePromptPerText, Live, history
<1>2. ASSUME NEW d \in Schedules \ raced', Deleting(d[1]) \/ Gone(d[1])
      PROVE  /\ Exists(d)' => Exists(d)
             /\ FanningOut(d)' => FanningOut(d)
             /\ Executing(d)' => Executing(d)
    <2>1. ~FanningOut(d)
        BY <1>2 DEF PromptInv, DefinitionSound, history
    <2>2. definitions'[d] = definitions[d]
        BY <2>1 DEF FanningOut
    <2> QED BY <2>1, <2>2 DEF Exists, FanningOut, Executing
<1> QED BY <1>1, <1>2, DefinitionsStep DEF history, PromptInv

LEMMA ReadConnectedStep ==
    ASSUME PromptInv, NEW p \in Prompts, ReadConnected(p)
    PROVE  PromptInv'
<1>1. /\ UNCHANGED <<prompts, definitions, ticking, payloads, triggers, call, execution, faults,
                     history>>
      /\ \A d \in Of(p) : fanOut[d] = "read"
    BY DEF ReadConnected
<1>2. PICK connected \in SUBSET Of(p) :
          fanOut' = [d \in Schedules |->
                        IF d \notin Of(p) THEN fanOut[d]
                        ELSE IF d \in connected THEN "insert" ELSE "idle"]
    BY DEF ReadConnected
<1>3. /\ fanOut' \in [Schedules -> FanOutPC]
      /\ \A d \in Schedules : fanOut'[d] # "idle" => fanOut[d] # "idle"
    BY <1>1, <1>2 DEF PromptInv, TypeOK, FanOutPC
<1> QED BY <1>1, <1>3, FanOutMoves DEF PromptInv, TypeOK

LEMMA InsertDefinitionStep ==
    ASSUME PromptInv, NEW d \in Schedules, InsertDefinition(d)
    PROVE  PromptInv'
<1>1. /\ UNCHANGED <<prompts, ticking, payloads, triggers, call, execution, faults, history>>
      /\ fanOut[d] = "insert"
    BY DEF InsertDefinition
<1>2. /\ fanOut' \in [Schedules -> FanOutPC]
      /\ \A x \in Schedules : x # d => fanOut'[x] = fanOut[x]
    BY DEF InsertDefinition, PromptInv, TypeOK, FanOutPC
<1>3. /\ definitions' \in [Schedules -> DefinitionStates]
      /\ \A x \in Schedules : x # d => definitions'[x] = definitions[x]
    BY DEF InsertDefinition, PromptInv, TypeOK, DefinitionStates
<1> QED BY <1>1, <1>2, <1>3, FanOutMoves DEF PromptInv, TypeOK

LEMMA RegisterSchedulerStep ==
    ASSUME PromptInv, NEW d \in Schedules, RegisterScheduler(d)
    PROVE  PromptInv'
<1>1. /\ UNCHANGED <<prompts, definitions, payloads, triggers, call, execution, faults, history>>
      /\ fanOut' = [fanOut EXCEPT ![d] = "idle"] /\ ticking' = ticking \cup {d}
    BY DEF RegisterScheduler
<1>2. /\ fanOut' \in [Schedules -> FanOutPC]
      /\ \A x \in Schedules : fanOut'[x] # "idle" => fanOut'[x] = fanOut[x]
    BY <1>1 DEF PromptInv, TypeOK, FanOutPC
<1> QED BY <1>1, <1>2, FanOutMoves DEF PromptInv, TypeOK

LEMMA FanOutFailsStep ==
    ASSUME PromptInv, NEW d \in Schedules, FanOutFails(d)
    PROVE  PromptInv'
<1>1. /\ UNCHANGED <<prompts, definitions, ticking, payloads, triggers, call, execution, history>>
      /\ fanOut' = [fanOut EXCEPT ![d] = "idle"]
      /\ faults' = faults + 1 /\ faults < MaxFaults
    BY DEF FanOutFails, history
<1>2. /\ fanOut' \in [Schedules -> FanOutPC]
      /\ \A x \in Schedules : fanOut'[x] # "idle" => fanOut'[x] = fanOut[x]
    BY <1>1 DEF PromptInv, TypeOK, FanOutPC
<1>3. faults' \in 0 .. MaxFaults
    BY <1>1, BoundAssumption DEF PromptInv, TypeOK
<1> QED BY <1>1, <1>2, <1>3, FanOutMoves DEF PromptInv, TypeOK

-----------------------------------------------------------------------------
\* The worker.

\* An execution goes on with its definition, or ends, and no other definition
\* changes.
LEMMA ExecutionMoves ==
    ASSUME PromptInv, NEW e \in Executions, NEW x \in Execution,
           execution' = [execution EXCEPT ![e] = x],
           execution[e].pc # "idle",
           x = Idle \/ x.of = execution[e].of,
           UNCHANGED <<prompts, ticking, call, fanOut, triggers, registered, raced>>,
           payloads' \subseteq [brandPromptId : Prompts, provider : Providers],
           faults' \in 0 .. MaxFaults, unclean' \subseteq Schedules,
           wasted' \in [Schedules -> 0 .. 2],
           definitions' \in [Schedules -> DefinitionStates],
           \A d \in Schedules : definitions'[d] # definitions[d] => d = execution[e].of
    PROVE  PromptInv'
<1>1. /\ execution' \in [Executions -> Execution] /\ execution'[e] = x
      /\ \A f \in Executions : f # e => execution'[f] = execution[f]
    BY DEF PromptInv, TypeOK
<1>2. TypeOK'
    BY <1>1 DEF PromptInv, TypeOK, OnePromptPerText, Live
<1>3. \A f \in Executions : execution'[f].pc # "idle" => execution'[f].of \in Schedules
    BY <1>1 DEF PromptInv, Idle
<1>4. \A d \in Schedules : Executing(d)' => Executing(d)
    BY <1>1, NoneAssumption DEF Executing, Idle
<1>5. ASSUME NEW d \in Schedules \ raced', Deleting(d[1]) \/ Gone(d[1])
      PROVE  /\ Exists(d)' => Exists(d)
             /\ FanningOut(d)' => FanningOut(d)
             /\ Executing(d)' => Executing(d)
    <2>1. ~Executing(d)
        BY <1>5 DEF PromptInv, DefinitionSound
    <2>2. definitions'[d] = definitions[d]
        BY <2>1 DEF Executing
    <2> QED BY <1>4, <2>2 DEF Exists, FanningOut
<1> QED BY <1>2, <1>3, <1>5, DefinitionsStep

\* A job is taken of an enabled definition: during a delete, that is a race.
LEMMA TakeStep ==
    ASSUME PromptInv, NEW e \in Executions, NEW d \in Schedules, Take(e, d),
           triggers' \in 0 .. MaxTriggers
    PROVE  PromptInv'
<1> DEFINE x == [pc |-> "start", of |-> d, enabled |-> TRUE]
<1>1. /\ UNCHANGED <<prompts, definitions, ticking, payloads, call, fanOut, faults,
                     registered, wasted>>
      /\ execution' = [execution EXCEPT ![e] = x] /\ definitions[d] = "enabled"
      /\ raced' = IF Deleting(d[1]) THEN raced \cup {d} ELSE raced
      /\ unclean' = IF Executing(d) THEN unclean \cup {d} ELSE unclean
    BY DEF Take
<1>2. x \in Execution /\ x.pc = "start" /\ x.of = d
    BY DEF Execution
<1> HIDE DEF x
<1>3. /\ execution' \in [Executions -> Execution] /\ execution'[e] = x
      /\ \A f \in Executions : f # e => execution'[f] = execution[f]
    BY <1>1, <1>2 DEF PromptInv, TypeOK
<1>4. raced \subseteq raced' /\ raced' \subseteq Schedules /\ unclean' \subseteq Schedules
    BY <1>1 DEF PromptInv, TypeOK
<1>5. TypeOK'
    BY <1>1, <1>3, <1>4 DEF PromptInv, TypeOK, OnePromptPerText, Live
<1>6. \A f \in Executions : execution'[f].pc # "idle" => execution'[f].of \in Schedules
    BY <1>2, <1>3 DEF PromptInv
<1>7. ASSUME NEW c \in Schedules \ raced', Deleting(c[1]) \/ Gone(c[1])
      PROVE  c # d
    <2>1. CASE Deleting(c[1])
        BY <1>1, <1>7, <2>1
    <2>2. CASE Gone(c[1])
        BY <1>1, <1>4, <1>7, <2>2 DEF PromptInv, DefinitionSound, Exists
    <2> QED BY <1>7, <2>1, <2>2
<1>8. \A c \in Schedules : c # d => (Executing(c)' => Executing(c))
    BY <1>2, <1>3 DEF Executing
<1> QED BY <1>1, <1>4, <1>5, <1>6, <1>7, <1>8, DefinitionsStep DEF Exists, FanningOut

LEMMA TickStep ==
    ASSUME PromptInv, NEW e \in Executions, NEW d \in Schedules, Tick(e, d)
    PROVE  PromptInv'
BY TakeStep DEF Tick, PromptInv, TypeOK

LEMMA TriggerStep ==
    ASSUME PromptInv, NEW e \in Executions, NEW d \in Schedules, Trigger(e, d)
    PROVE  PromptInv'
<1>1. triggers' \in 0 .. MaxTriggers
    BY BoundAssumption DEF Trigger, PromptInv, TypeOK
<1> QED BY <1>1, TakeStep DEF Trigger

LEMMA ExecutionTypes ==
    ASSUME PromptInv, NEW e \in Executions, execution[e].pc # "idle"
    PROVE  /\ execution[e] \in Execution /\ execution[e].of \in Schedules
           /\ payloads \subseteq [brandPromptId : Prompts, provider : Providers]
           /\ Request(execution[e].of) \in [brandPromptId : Prompts, provider : Providers]
           /\ faults \in 0 .. MaxFaults /\ unclean \subseteq Schedules
           /\ wasted \in [Schedules -> 0 .. 2]
           /\ definitions \in [Schedules -> DefinitionStates]
           /\ Idle \in Execution
<1>1. execution[e].of \in Schedules
    BY DEF PromptInv
<1>2. Request(execution[e].of) \in [brandPromptId : Prompts, provider : Providers]
    BY <1>1 DEF Schedules, Request
<1>3. Idle \in Execution
    BY DEF Idle, Execution
<1> QED BY <1>1, <1>2, <1>3 DEF PromptInv, TypeOK

LEMMA StartStep ==
    ASSUME PromptInv, NEW e \in Executions, Start(e)
    PROVE  PromptInv'
<1> DEFINE old == execution[e]
           x == IF ~Exists(old.of) THEN Idle
                ELSE [old EXCEPT !.pc = IF Request(old.of) \in payloads THEN "ingest" ELSE "fetch"]
<1>1. /\ UNCHANGED <<prompts, definitions, ticking, payloads, triggers, call, fanOut, faults,
                     registered, raced, unclean, wasted>>
      /\ execution' = [execution EXCEPT ![e] = x] /\ old.pc # "idle"
    BY DEF Start, history
<1>2. x \in Execution /\ (x = Idle \/ x.of = old.of)
    BY <1>1, ExecutionTypes DEF Execution
<1> HIDE DEF x
<1> QED BY <1>1, <1>2, ExecutionTypes, ExecutionMoves

LEMMA FetchStep ==
    ASSUME PromptInv, NEW e \in Executions, Fetch(e)
    PROVE  PromptInv'
<1> DEFINE old == execution[e]
           x == [old EXCEPT !.pc = "store"]
<1>1. /\ UNCHANGED <<prompts, definitions, ticking, payloads, triggers, call, fanOut, faults,
                     registered, raced, unclean>>
      /\ execution' = [execution EXCEPT ![e] = x] /\ old.pc # "idle"
      /\ wasted' = IF Gone(old.of[1]) /\ old.of \notin unclean /\ wasted[old.of] < 2
                   THEN [wasted EXCEPT ![old.of] = @ + 1] ELSE wasted
    BY DEF Fetch, Goes
<1>2. x \in Execution /\ (x = Idle \/ x.of = old.of)
    BY <1>1, ExecutionTypes DEF Execution
<1>3. wasted' \in [Schedules -> 0 .. 2]
    <2>1. wasted \in [Schedules -> 0 .. 2] /\ old.of \in Schedules
        BY <1>1, ExecutionTypes
    <2>2. wasted[old.of] < 2 => wasted[old.of] + 1 \in 0 .. 2
        BY <2>1
    <2> QED BY <1>1, <2>1, <2>2
<1> HIDE DEF x
<1> QED BY <1>1, <1>2, <1>3, ExecutionTypes, ExecutionMoves

LEMMA FetchFailsStep ==
    ASSUME PromptInv, NEW e \in Executions, FetchFails(e)
    PROVE  PromptInv'
<1>1. PICK enabled \in BOOLEAN :
          execution' = [execution EXCEPT ![e].pc = "save", ![e].enabled = enabled]
    BY DEF FetchFails
<1> DEFINE old == execution[e]
           x == [old EXCEPT !.pc = "save", !.enabled = enabled]
<1>2. /\ UNCHANGED <<prompts, definitions, ticking, payloads, triggers, call, fanOut, faults,
                     registered, raced, unclean, wasted>>
      /\ old.pc # "idle"
    BY DEF FetchFails, history
<1>3. execution' = [execution EXCEPT ![e] = x]
    BY <1>1, <1>2, ExecutionTypes DEF PromptInv, TypeOK
<1>4. x \in Execution /\ (x = Idle \/ x.of = old.of)
    BY <1>2, ExecutionTypes DEF Execution
<1> HIDE DEF x
<1> QED BY <1>2, <1>3, <1>4, ExecutionTypes, ExecutionMoves

LEMMA StoreStep ==
    ASSUME PromptInv, NEW e \in Executions, Store(e)
    PROVE  PromptInv'
<1> DEFINE old == execution[e]
           x == [old EXCEPT !.pc = "ingest"]
<1>1. /\ UNCHANGED <<prompts, definitions, ticking, triggers, call, fanOut, faults,
                     registered, raced, unclean, wasted>>
      /\ execution' = [execution EXCEPT ![e] = x] /\ old.pc # "idle"
      /\ payloads' = payloads \cup {Request(old.of)}
    BY DEF Store, Goes, history
<1>2. x \in Execution /\ (x = Idle \/ x.of = old.of)
    BY <1>1, ExecutionTypes DEF Execution
<1>3. payloads' \subseteq [brandPromptId : Prompts, provider : Providers]
    BY <1>1, ExecutionTypes
<1> HIDE DEF x
<1> QED BY <1>1, <1>2, <1>3, ExecutionTypes, ExecutionMoves

LEMMA IngestStep ==
    ASSUME PromptInv, NEW e \in Executions, Ingest(e)
    PROVE  PromptInv'
<1> DEFINE old == execution[e]
           flag == IF Live(old.of[1]) THEN old.enabled ELSE WhenMissing(old.enabled)
           x == [old EXCEPT !.pc = "save", !.enabled = flag]
<1>1. /\ UNCHANGED <<prompts, definitions, ticking, payloads, triggers, call, fanOut, faults,
                     registered, raced, unclean, wasted>>
      /\ old.pc # "idle"
    BY DEF Ingest, history
<1>2. flag \in BOOLEAN
    BY <1>1, ExecutionTypes DEF Execution, WhenMissing
<1>3. execution' = [execution EXCEPT ![e] = x]
    BY <1>1, ExecutionTypes DEF Ingest, PromptInv, TypeOK, Execution
<1> HIDE DEF flag
<1>4. x \in Execution /\ (x = Idle \/ x.of = old.of)
    BY <1>1, <1>2, ExecutionTypes DEF Execution
<1> HIDE DEF x
<1> QED BY <1>1, <1>3, <1>4, ExecutionTypes, ExecutionMoves

LEMMA SaveStep ==
    ASSUME PromptInv, NEW e \in Executions, Save(e)
    PROVE  PromptInv'
<1> DEFINE old == execution[e]
           flag == IF old.enabled THEN "enabled" ELSE "disabled"
<1>1. /\ UNCHANGED <<prompts, ticking, payloads, triggers, call, fanOut, faults,
                     registered, raced, unclean, wasted>>
      /\ execution' = [execution EXCEPT ![e] = Idle] /\ old.pc # "idle"
      /\ definitions' = [definitions EXCEPT ![old.of] = flag]
    BY DEF Save, history
<1>2. flag \in DefinitionStates
    BY DEF DefinitionStates
<1> HIDE DEF flag
<1>3. /\ definitions' \in [Schedules -> DefinitionStates]
      /\ \A d \in Schedules : definitions'[d] # definitions[d] => d = old.of
    BY <1>1, <1>2, ExecutionTypes
<1> QED BY <1>1, <1>3, ExecutionTypes, ExecutionMoves

LEMMA ExecutionFailsStep ==
    ASSUME PromptInv, NEW e \in Executions, ExecutionFails(e)
    PROVE  PromptInv'
<1>1. /\ UNCHANGED <<prompts, definitions, ticking, payloads, triggers, call, fanOut,
                     registered, raced, wasted>>
      /\ execution' = [execution EXCEPT ![e] = Idle] /\ execution[e].pc # "idle"
      /\ unclean' = unclean \cup {execution[e].of}
      /\ faults' = faults + 1 /\ faults < MaxFaults
    BY DEF ExecutionFails
<1>2. faults' \in 0 .. MaxFaults /\ unclean' \subseteq Schedules
    BY <1>1, ExecutionTypes, BoundAssumption
<1> QED BY <1>1, <1>2, ExecutionTypes, ExecutionMoves

LEMMA NextDayStep == ASSUME PromptInv, NextDay PROVE PromptInv'
<1>1. /\ UNCHANGED <<prompts, definitions, ticking, triggers, call, fanOut, execution, faults,
                     registered, raced, unclean, wasted>>
      /\ payloads' = {}
    BY DEF NextDay, history
<1>2. TypeOK'
    BY <1>1 DEF PromptInv, TypeOK, OnePromptPerText, Live
<1> QED BY <1>1, <1>2, DefinitionsStep DEF PromptInv, Exists, FanningOut, Executing

-----------------------------------------------------------------------------
\* The API.

LEMMA ReadyAndDone ==
    /\ Done \in Call /\ Done.pc = "done" /\ Done.prompt = None /\ Done.todo = {}
    /\ Ready \in Call /\ Ready.pc = "ready" /\ Ready.prompt = None /\ Ready.todo = {}
BY DEF Done, Ready, Call, PromptStates

\* A call moves on: the others are as sound as they were.
LEMMA CallMoves ==
    ASSUME PromptInv, NEW c \in Calls, NEW y \in Call, call' = [call EXCEPT ![c] = y],
           UNCHANGED <<ticking, payloads, triggers, execution, unclean>>,
           wasted' \in [Schedules -> 0 .. 2],
           prompts' \in [Prompts -> PromptStates],
           definitions' \in [Schedules -> DefinitionStates],
           fanOut' \in [Schedules -> FanOutPC],
           faults' \in 0 .. MaxFaults,
           registered \subseteq registered', registered' \subseteq Prompts,
           raced' \subseteq Schedules,
           OnePromptPerText', CallSound(c)',
           \A p \in Prompts : PromptSound(p)',
           \A d \in Schedules : DefinitionSound(d)'
    PROVE  PromptInv'
<1>1. /\ call' \in [Calls -> Call] /\ call'[c] = y
      /\ \A x \in Calls : x # c => call'[x] = call[x]
    BY DEF PromptInv, TypeOK
<1>2. TypeOK'
    BY <1>1 DEF PromptInv, TypeOK
<1>3. \A x \in Calls : CallSound(x)'
    BY <1>1 DEF PromptInv, CallSound
<1>4. \A e \in Executions : execution'[e].pc # "idle" => execution'[e].of \in Schedules
    BY DEF PromptInv
<1> QED BY <1>2, <1>3, <1>4 DEF PromptInv

LEMMA CallTypes ==
    ASSUME PromptInv, NEW c \in Calls
    PROVE  /\ call[c] \in Call /\ CallSound(c)
           /\ call[c].prompt # None => call[c].prompt \in Prompts
           /\ call[c].todo \subseteq Schedules
           /\ prompts \in [Prompts -> PromptStates]
           /\ definitions \in [Schedules -> DefinitionStates]
           /\ fanOut \in [Schedules -> FanOutPC]
           /\ faults \in 0 .. MaxFaults /\ wasted \in [Schedules -> 0 .. 2]
           /\ registered \subseteq Prompts /\ raced \subseteq Schedules
           /\ OnePromptPerText
BY DEF PromptInv, TypeOK, Call

\* A call that ends, or one that does not delete and goes on, leaves the definitions
\* of a prompt as sound as they were.
LEMMA OnlyCall ==
    ASSUME PromptInv, NEW c \in Calls, NEW y \in Call, call' = [call EXCEPT ![c] = y],
           UNCHANGED <<prompts, definitions, ticking, payloads, triggers, fanOut, execution,
                       history>>,
           faults' \in 0 .. MaxFaults,
           CallSound(c)',
           c \in registered => y.pc = "done",
           c \in Deletes => y = Done
    PROVE  PromptInv'
<1>1. /\ call' \in [Calls -> Call] /\ call'[c] = y
      /\ \A x \in Calls : x # c => call'[x] = call[x]
    BY DEF PromptInv, TypeOK
<1>2. \A p \in Prompts : PromptSound(p)'
    BY <1>1, CallFacts DEF PromptInv, PromptSound, Live, history
<1>3. ASSUME NEW d \in Schedules PROVE DefinitionSound(d)'
    <2>1. Deleting(d[1])' => Deleting(d[1])
        BY <1>1, ReadyAndDone, ScheduleFacts, NoneAssumption, CallFacts DEF Deleting
    <2>2. \A x \in Deletes : call'[x].pc = "drop" => call'[x] = call[x]
        BY <1>1, ReadyAndDone, CallFacts
    <2> QED BY <2>1, <2>2
            DEF PromptInv, DefinitionSound, Gone, Live, Exists, FanningOut, Executing, history
<1>4. OnePromptPerText'
    BY DEF PromptInv, TypeOK, OnePromptPerText, Live
<1> QED BY <1>2, <1>3, <1>4, CallMoves, CallTypes DEF history

LEMMA CallFailsStep ==
    ASSUME PromptInv, NEW c \in Calls, CallFails(c)
    PROVE  PromptInv'
<1>1. /\ UNCHANGED <<prompts, definitions, ticking, payloads, triggers, fanOut, execution, history>>
      /\ call' = [call EXCEPT ![c] = Done] /\ faults' = faults + 1 /\ faults < MaxFaults
    BY DEF CallFails
<1>2. faults' \in 0 .. MaxFaults /\ call'[c] = Done
    BY <1>1, BoundAssumption DEF PromptInv, TypeOK
<1>3. CallSound(c)'
    BY <1>2, ReadyAndDone DEF CallSound
<1> QED BY <1>1, <1>2, <1>3, ReadyAndDone, OnlyCall

LEMMA BeginRegisterStep ==
    ASSUME PromptInv, NEW p \in Prompts, BeginRegister(p)
    PROVE  PromptInv'
<1> DEFINE y == [pc |-> "insert", prompt |-> p, to |-> "active", todo |-> {}]
<1>1. /\ UNCHANGED <<prompts, definitions, ticking, payloads, triggers, fanOut, execution, faults,
                     history>>
      /\ call' = [call EXCEPT ![p] = y] /\ call[p].pc = "ready"
    BY DEF BeginRegister
<1>2. y \in Call /\ y.pc = "insert" /\ y.prompt = p
    BY DEF Call, PromptStates
<1> HIDE DEF y
<1>3. p \in Calls /\ p \notin Deletes /\ p \notin Toggles /\ p # None /\ p \notin registered
    BY <1>1, CallFacts, NoneAssumption DEF PromptInv, PromptSound
<1>4. call'[p] = y
    BY <1>1, <1>3 DEF PromptInv, TypeOK
<1>5. CallSound(p)'
    BY <1>2, <1>3, <1>4 DEF CallSound
<1> QED BY <1>1, <1>2, <1>3, <1>5, OnlyCall, CallTypes

LEMMA ReadForToggleStep ==
    ASSUME PromptInv, NEW c \in Toggles, NEW p \in Prompts, ReadForToggle(c, p)
    PROVE  PromptInv'
<1> DEFINE to == IF prompts[p] = "active" THEN "paused" ELSE "active"
           y == [pc |-> "save", prompt |-> p, todo |-> {}, to |-> to]
<1>1. /\ UNCHANGED <<prompts, definitions, ticking, payloads, triggers, fanOut, execution, faults,
                     history>>
      /\ call' = [call EXCEPT ![c] = y] /\ Live(p)
    BY DEF ReadForToggle
<1>2. to \in PromptStates /\ to # "absent"
    BY DEF PromptStates
<1> HIDE DEF to
<1>3. y \in Call /\ y.pc = "save" /\ y.prompt = p /\ y.to = to
    BY <1>2 DEF Call
<1> HIDE DEF y
<1>4. /\ c \in Calls /\ c \notin Deletes /\ c \notin Prompts /\ p # None
      /\ p \in registered /\ c \notin registered
    BY <1>1, CallFacts, NoneAssumption DEF PromptInv, PromptSound, TypeOK
<1>5. call'[c] = y /\ registered' = registered
    BY <1>1, <1>4 DEF PromptInv, TypeOK, history
<1>6. CallSound(c)'
    BY <1>2, <1>3, <1>4, <1>5 DEF CallSound
<1> QED BY <1>1, <1>3, <1>4, <1>6, OnlyCall, CallTypes

\* A prompt is inserted for the first time: nobody deletes it yet, nor works on its
\* definitions.
LEMMA InsertStep ==
    ASSUME PromptInv, NEW c \in Calls, Insert(c)
    PROVE  PromptInv'
<1>1. /\ UNCHANGED <<definitions, ticking, payloads, triggers, execution, faults,
                     raced, unclean, wasted>>
      /\ call[c].pc = "insert" /\ call' = [call EXCEPT ![c] = Done]
    BY DEF Insert
<1>2. /\ c \in Prompts /\ call[c].prompt = c /\ c \notin registered /\ c \notin Deletes
      /\ c \notin Toggles
    BY <1>1, CallFacts DEF PromptInv, CallSound, PromptSound, Calls
<1>3. call'[c] = Done /\ \A x \in Calls : x # c => call'[x] = call[x]
    BY <1>1 DEF PromptInv, TypeOK
<1>4. CallSound(c)'
    BY <1>3, ReadyAndDone DEF CallSound
<1>5. CASE TextTaken(c)
    <2>1. UNCHANGED <<prompts, fanOut, registered>>
        BY <1>2, <1>5 DEF Insert
    <2> QED BY <1>1, <1>2, <1>4, <2>1, ReadyAndDone, OnlyCall, CallTypes DEF history
<1>6. CASE ~TextTaken(c)
    <2>1. /\ prompts' = [prompts EXCEPT ![c] = "active"]
          /\ fanOut' = [d \in Schedules |-> IF d \in Of(c) THEN "read" ELSE fanOut[d]]
          /\ registered' = registered \cup {c}
        BY <1>2, <1>6 DEF Insert
    <2>2. /\ prompts' \in [Prompts -> PromptStates] /\ prompts'[c] = "active"
          /\ \A p \in Prompts : p # c => prompts'[p] = prompts[p]
        BY <1>2, <2>1 DEF PromptInv, TypeOK, PromptStates
    <2>3. fanOut' \in [Schedules -> FanOutPC]
        BY <2>1 DEF PromptInv, TypeOK, FanOutPC
    <2>4. ~Live(c)
        BY <1>2 DEF PromptInv, PromptSound
    <2>5. OnePromptPerText'
        BY <1>2, <1>6, <2>2, <2>4 DEF PromptInv, TypeOK, OnePromptPerText, TextTaken, Live
    <2>6. \A p \in Prompts : PromptSound(p)'
        BY <1>3, <2>1, <2>2, ReadyAndDone, CallFacts DEF PromptInv, PromptSound, Live
    <2>7. ~Deleting(c)
        BY <1>2, CallFacts, NoneAssumption DEF PromptInv, CallSound, Deleting
    <2>8. ASSUME NEW d \in Schedules PROVE DefinitionSound(d)'
        <3>1. d[1] \in Prompts /\ (d \in Of(c) <=> d[1] = c)
            BY <1>2, ScheduleFacts
        <3>2. \A x \in Deletes : call'[x] = call[x]
            BY <1>2, <1>3, CallFacts
        <3>3. Deleting(d[1])' <=> Deleting(d[1])
            BY <3>2 DEF Deleting
        <3>4. Gone(d[1])' => Gone(d[1]) /\ d[1] # c
            BY <2>1, <2>2, <3>1 DEF Gone, Live
        <3>5. d[1] # c => fanOut'[d] = fanOut[d]
            BY <2>1, <3>1
        <3>6. DefinitionSound(d)
            BY DEF PromptInv
        <3>7. /\ Exists(d)' <=> Exists(d)
              /\ Executing(d)' <=> Executing(d)
              /\ raced' = raced
            BY <1>1 DEF Exists, Executing
        <3>8. Deleting(d[1]) => d[1] # c
            BY <2>7
        <3>9. d[1] # c => (FanningOut(d)' <=> FanningOut(d))
            BY <3>5 DEF FanningOut
        <3> QED BY <3>2, <3>3, <3>4, <3>6, <3>7, <3>8, <3>9 DEF DefinitionSound
    <2>9. registered \subseteq registered' /\ registered' \subseteq Prompts
        BY <1>2, <2>1, CallTypes
    <2> QED BY <1>1, <1>4, <2>2, <2>3, <2>5, <2>6, <2>8, <2>9, ReadyAndDone, CallTypes, CallMoves
<1> QED BY <1>5, <1>6

\* A resume or a pause may bring a prompt back, which makes it less gone.
LEMMA SaveToggleStep ==
    ASSUME PromptInv, NEW c \in Calls, SaveToggle(c)
    PROVE  PromptInv'
<1> DEFINE p == call[c].prompt
<1>1. /\ UNCHANGED <<definitions, ticking, payloads, triggers, fanOut, execution, faults,
                     registered, raced, unclean>>
      /\ call[c].pc = "save" /\ call' = [call EXCEPT ![c] = Done]
      /\ prompts' = IF TextTaken(p) THEN prompts ELSE [prompts EXCEPT ![p] = call[c].to]
      /\ wasted' = IF TextTaken(p) THEN wasted
                   ELSE [d \in Schedules |-> IF d \in Of(p) THEN 0 ELSE wasted[d]]
    BY DEF SaveToggle
<1>2. /\ c \notin Prompts /\ c \notin Deletes /\ p # None /\ p \in registered /\ p \in Prompts
      /\ call[c].to # "absent" /\ call[c].to \in PromptStates
    BY <1>1, CallTypes, CallFacts DEF CallSound, Call
<1>3. call'[c] = Done /\ \A x \in Calls : x # c => call'[x] = call[x]
    BY <1>1 DEF PromptInv, TypeOK
<1>4. CallSound(c)'
    BY <1>3, ReadyAndDone DEF CallSound
<1> HIDE DEF p
<1>5. CASE TextTaken(p)
    BY <1>1, <1>2, <1>4, <1>5, ReadyAndDone, OnlyCall, CallTypes DEF history
<1>6. CASE ~TextTaken(p)
    <2>1. /\ prompts' \in [Prompts -> PromptStates] /\ prompts'[p] # "absent"
          /\ \A q \in Prompts : q # p => prompts'[q] = prompts[q]
        BY <1>1, <1>2, <1>6 DEF PromptInv, TypeOK
    <2>2. OnePromptPerText'
        BY <1>2, <1>6, <2>1 DEF PromptInv, TypeOK, OnePromptPerText, TextTaken, Live
    <2>3. \A q \in Prompts : PromptSound(q)'
        BY <1>1, <1>2, <1>3, <2>1, ReadyAndDone, CallFacts DEF PromptInv, PromptSound, Live
    <2>4. ASSUME NEW d \in Schedules PROVE DefinitionSound(d)'
        <3>1. \A x \in Deletes : call'[x] = call[x]
            BY <1>2, <1>3, CallFacts
        <3>2. Deleting(d[1])' <=> Deleting(d[1])
            BY <3>1 DEF Deleting
        <3>3. Gone(d[1])' => Gone(d[1])
            BY <1>1, <2>1, ScheduleFacts DEF Gone, Live
        <3>4. DefinitionSound(d)
            BY DEF PromptInv
        <3> QED BY <1>1, <3>1, <3>2, <3>3, <3>4
                DEF DefinitionSound, Exists, FanningOut, Executing
    <2>5. wasted' \in [Schedules -> 0 .. 2]
        BY <1>1, <1>6, CallTypes
    <2> QED BY <1>1, <1>4, <2>1, <2>2, <2>3, <2>4, <2>5, ReadyAndDone, CallTypes, CallMoves
<1> QED BY <1>5, <1>6

-----------------------------------------------------------------------------
\* Deletes.

\* What is at work on the definitions when a delete begins has raced with it.
LEMMA BeginDeleteStep ==
    ASSUME PromptInv, NEW c \in Deletes, NEW p \in Prompts, BeginDelete(c, p)
    PROVE  PromptInv'
<1> DEFINE y == [Ready EXCEPT !.pc = "list", !.prompt = p]
<1>1. /\ UNCHANGED <<prompts, definitions, ticking, payloads, triggers, fanOut, execution, faults,
                     registered, unclean, wasted>>
      /\ call' = [call EXCEPT ![c] = y] /\ Live(p) /\ call[c].pc = "ready"
      /\ raced' = raced \cup {d \in Of(p) : FanningOut(d) \/ Executing(d)}
    BY DEF BeginDelete
<1>2. y \in Call /\ y.pc = "list" /\ y.prompt = p
    BY DEF Call, Ready, PromptStates
<1> HIDE DEF y
<1>3. /\ c \in Calls /\ c \notin Prompts /\ c \notin Toggles /\ p # None /\ p \in registered
    BY <1>1, CallFacts, NoneAssumption DEF PromptInv, PromptSound
<1>4. call'[c] = y /\ \A x \in Calls : x # c => call'[x] = call[x]
    BY <1>1, <1>3 DEF PromptInv, TypeOK
<1>5. CallSound(c)'
    BY <1>1, <1>2, <1>3, <1>4 DEF CallSound
<1>6. \A q \in Prompts : PromptSound(q)'
    BY <1>1, <1>3, <1>4, CallFacts DEF PromptInv, PromptSound, Live
<1>7. OnePromptPerText'
    BY <1>1 DEF PromptInv, TypeOK, OnePromptPerText, Live
<1>8. raced \subseteq raced' /\ raced' \subseteq Schedules
    BY <1>1, ScheduleFacts DEF PromptInv, TypeOK
<1>9. ASSUME NEW d \in Schedules, d \notin raced' PROVE DefinitionSound(d)'
    <2>1. DefinitionSound(d) /\ d \notin raced
        BY <1>8, <1>9 DEF PromptInv
    <2>2. d[1] = p => ~FanningOut(d) /\ ~Executing(d)
        BY <1>1, <1>9, ScheduleFacts
    <2>3. Deleting(d[1])' => Deleting(d[1]) \/ d[1] = p
        BY <1>2, <1>3, <1>4, CallFacts DEF Deleting
    <2>4. \A x \in Deletes : call'[x].pc = "drop" => call'[x] = call[x]
        BY <1>2, <1>3, <1>4, CallFacts
    <2>5. /\ Exists(d)' <=> Exists(d)
          /\ Executing(d)' <=> Executing(d)
          /\ FanningOut(d)' <=> FanningOut(d)
          /\ Gone(d[1])' <=> Gone(d[1])
        BY <1>1 DEF Exists, Executing, FanningOut, Gone, Live
    <2> QED BY <2>1, <2>2, <2>3, <2>4, <2>5 DEF DefinitionSound
<1>10. \A d \in Schedules : DefinitionSound(d)'
    BY <1>9 DEF DefinitionSound
<1> QED BY <1>1, <1>2, <1>3, <1>5, <1>6, <1>7, <1>8, <1>10, CallTypes, CallMoves

\* The schedules are listed: nothing that has not raced will add to them.
LEMMA ListSchedulesStep ==
    ASSUME PromptInv, NEW c \in Calls, ListSchedules(c)
    PROVE  PromptInv'
<1> DEFINE old == call[c]
           y == [old EXCEPT !.pc = "drop", !.todo = SchedulesOf(old.prompt)]
<1>1. /\ UNCHANGED <<prompts, definitions, ticking, payloads, triggers, fanOut, execution, faults,
                     registered, raced, unclean, wasted>>
      /\ old.pc = "list"
    BY DEF ListSchedules, history
<1>2. /\ c \in Deletes /\ c \notin Prompts /\ c \notin Toggles /\ old.prompt \in Prompts
      /\ old.prompt # None /\ old.prompt \in registered
    BY <1>1, CallTypes, CallFacts DEF CallSound, Calls
<1>3. SchedulesOf(old.prompt) \subseteq Schedules
    BY <1>2, ScheduleFacts DEF SchedulesOf
<1>4. call' = [call EXCEPT ![c] = y]
    BY CallTypes DEF ListSchedules, PromptInv, TypeOK, Call
<1>5. y \in Call /\ y.pc = "drop" /\ y.prompt = old.prompt /\ y.todo = SchedulesOf(old.prompt)
    BY <1>3, CallTypes DEF Call
<1> HIDE DEF y
<1>6. call'[c] = y /\ \A x \in Calls : x # c => call'[x] = call[x]
    BY <1>4 DEF PromptInv, TypeOK
<1>7. CallSound(c)'
    BY <1>1, <1>2, <1>5, <1>6 DEF CallSound
<1>8. \A q \in Prompts : PromptSound(q)'
    BY <1>1, <1>2, <1>6, CallFacts DEF PromptInv, PromptSound, Live
<1>9. OnePromptPerText'
    BY <1>1 DEF PromptInv, TypeOK, OnePromptPerText, Live
<1>10. ASSUME NEW d \in Schedules PROVE DefinitionSound(d)'
    <2>1. DefinitionSound(d)
        BY DEF PromptInv
    <2>2. Deleting(d[1])' => Deleting(d[1])
        BY <1>2, <1>5, <1>6, CallFacts DEF Deleting
    <2>3. old.prompt = d[1] /\ Exists(d) => d \in y.todo
        BY <1>2, <1>5, ScheduleFacts DEF SchedulesOf
    <2>4. \A x \in Deletes : x = c \/ call'[x] = call[x]
        BY <1>6, CallFacts
    <2>5. /\ Exists(d)' <=> Exists(d)
          /\ Executing(d)' <=> Executing(d)
          /\ FanningOut(d)' <=> FanningOut(d)
          /\ Gone(d[1])' <=> Gone(d[1])
          /\ raced' = raced
        BY <1>1 DEF Exists, Executing, FanningOut, Gone, Live
    <2>6. ASSUME NEW x \in Deletes, call'[x].pc = "drop", call'[x].prompt = d[1], Exists(d),
                 d \notin raced
          PROVE  d \in call'[x].todo
        <3>1. CASE x = c
            BY <1>5, <1>6, <2>3, <2>6, <3>1
        <3>2. CASE x # c
            BY <2>1, <2>4, <2>6, <3>2 DEF DefinitionSound
        <3> QED BY <3>1, <3>2
    <2> QED BY <2>1, <2>2, <2>5, <2>6 DEF DefinitionSound
<1> QED BY <1>1, <1>4, <1>5, <1>7, <1>8, <1>9, <1>10, CallTypes, CallMoves

\* A definition leaves the list when it is gone.
LEMMA DropScheduleStep ==
    ASSUME PromptInv, NEW c \in Calls, DropSchedule(c)
    PROVE  PromptInv'
<1> DEFINE old == call[c]
<1>1. PICK s \in old.todo :
          /\ definitions' = [definitions EXCEPT ![s] = "absent"]
          /\ call' = [call EXCEPT ![c].todo = @ \ {s}]
    BY DEF DropSchedule
<1> DEFINE y == [old EXCEPT !.todo = old.todo \ {s}]
<1>2. /\ UNCHANGED <<prompts, ticking, payloads, triggers, fanOut, execution, faults,
                     registered, raced, unclean, wasted>>
      /\ old.pc = "drop"
    BY DEF DropSchedule
<1>3. /\ c \in Deletes /\ c \notin Prompts /\ c \notin Toggles /\ old.prompt # None
      /\ old.prompt \in registered
    BY <1>2, CallTypes, CallFacts DEF CallSound, Calls
<1>4. call' = [call EXCEPT ![c] = y]
    BY <1>1, CallTypes DEF PromptInv, TypeOK, Call
<1>5. y \in Call /\ y.pc = "drop" /\ y.prompt = old.prompt /\ y.todo = old.todo \ {s}
    BY <1>2, CallTypes DEF Call
<1> HIDE DEF y
<1>6. call'[c] = y /\ \A x \in Calls : x # c => call'[x] = call[x]
    BY <1>4 DEF PromptInv, TypeOK
<1>7. CallSound(c)'
    BY <1>2, <1>3, <1>5, <1>6 DEF CallSound
<1>8. \A q \in Prompts : PromptSound(q)'
    BY <1>2, <1>3, <1>6, CallFacts DEF PromptInv, PromptSound, Live
<1>9. OnePromptPerText'
    BY <1>2 DEF PromptInv, TypeOK, OnePromptPerText, Live
<1>10. /\ definitions' \in [Schedules -> DefinitionStates]
       /\ \A d \in Schedules : Exists(d)' => Exists(d) /\ d # s
    BY <1>1 DEF PromptInv, TypeOK, DefinitionStates, Exists
<1>11. ASSUME NEW d \in Schedules PROVE DefinitionSound(d)'
    <2>1. DefinitionSound(d)
        BY DEF PromptInv
    <2>2. Deleting(d[1])' => Deleting(d[1])
        BY <1>3, <1>5, <1>6, CallFacts DEF Deleting
    <2>3. \A x \in Deletes : /\ call'[x].pc = call[x].pc
                             /\ call'[x].prompt = call[x].prompt
                             /\ d # s /\ d \in call[x].todo => d \in call'[x].todo
        BY <1>2, <1>5, <1>6, CallFacts
    <2>4. /\ Exists(d)' => Exists(d) /\ d # s
          /\ Executing(d)' <=> Executing(d)
          /\ FanningOut(d)' <=> FanningOut(d)
          /\ Gone(d[1])' <=> Gone(d[1])
          /\ raced' = raced
        BY <1>2, <1>10 DEF Executing, FanningOut, Gone, Live
    <2> QED BY <2>1, <2>2, <2>3, <2>4 DEF DefinitionSound
<1> QED BY <1>2, <1>4, <1>5, <1>7, <1>8, <1>9, <1>10, <1>11, CallTypes, CallMoves

\* The prompt goes last: the definitions that have not raced are gone by then.
LEMMA RemovePromptStep ==
    ASSUME PromptInv, NEW c \in Calls, RemovePrompt(c)
    PROVE  PromptInv'
<1> DEFINE p == call[c].prompt
<1>1. /\ UNCHANGED <<definitions, ticking, payloads, triggers, fanOut, execution, faults,
                     registered, raced, unclean, wasted>>
      /\ call[c].pc = "drop" /\ call[c].todo = {} /\ call' = [call EXCEPT ![c] = Done]
      /\ prompts' = [prompts EXCEPT ![p] = "absent"]
    BY DEF RemovePrompt, history
<1>2. /\ c \in Deletes /\ p \in Prompts /\ p \in registered
    BY <1>1, CallTypes, CallFacts DEF CallSound, Calls
<1>3. call'[c] = Done /\ \A x \in Calls : x # c => call'[x] = call[x]
    BY <1>1 DEF PromptInv, TypeOK
<1>4. CallSound(c)'
    BY <1>3, ReadyAndDone DEF CallSound
<1>5. /\ prompts' \in [Prompts -> PromptStates]
      /\ \A q \in Prompts : prompts'[q] = IF q = p THEN "absent" ELSE prompts[q]
    BY <1>1, <1>2 DEF PromptInv, TypeOK, PromptStates
<1>6. OnePromptPerText'
    BY <1>5 DEF PromptInv, TypeOK, OnePromptPerText, Live
<1>7. \A q \in Prompts : PromptSound(q)'
    BY <1>1, <1>3, <1>5, ReadyAndDone, CallFacts DEF PromptInv, PromptSound, Live
<1>8. ASSUME NEW d \in Schedules, d \notin raced PROVE DefinitionSound(d)'
    <2>1. DefinitionSound(d) /\ d[1] \in Prompts
        BY ScheduleFacts DEF PromptInv
    <2>2. d[1] = p => ~Exists(d) /\ ~FanningOut(d) /\ ~Executing(d)
        BY <1>1, <1>2, <1>8, <2>1 DEF DefinitionSound, Deleting
    <2>3. Gone(d[1])' => Gone(d[1]) \/ d[1] = p
        BY <1>1, <1>5, <2>1 DEF Gone, Live
    <2>4. Deleting(d[1])' => Deleting(d[1])
        BY <1>2, <1>3, <2>1, ReadyAndDone, NoneAssumption, CallFacts DEF Deleting
    <2>5. \A x \in Deletes : call'[x].pc = "drop" => call'[x] = call[x]
        BY <1>3, ReadyAndDone, CallFacts
    <2>6. /\ Exists(d)' <=> Exists(d)
          /\ Executing(d)' <=> Executing(d)
          /\ FanningOut(d)' <=> FanningOut(d)
        BY <1>1 DEF Exists, Executing, FanningOut
    <2> QED BY <1>8, <2>1, <2>2, <2>3, <2>4, <2>5, <2>6 DEF DefinitionSound
<1>9. \A d \in Schedules : DefinitionSound(d)'
    BY <1>1, <1>8 DEF DefinitionSound
<1> HIDE DEF p
<1> QED BY <1>1, <1>4, <1>5, <1>6, <1>7, <1>9, ReadyAndDone, CallTypes, CallMoves

LEMMA ApiRestartsStep == ASSUME PromptInv, ApiRestarts PROVE PromptInv'
<1>1. /\ UNCHANGED <<prompts, definitions, ticking, payloads, triggers, execution,
                     registered, raced, unclean, wasted>>
      /\ call' = [c \in Calls |-> IF call[c].prompt = None THEN call[c] ELSE Done]
      /\ fanOut' = [d \in Schedules |-> "idle"]
      /\ faults' = faults + 1 /\ faults < MaxFaults
    BY DEF ApiRestarts
<1>2. faults' \in 0 .. MaxFaults
    BY <1>1, BoundAssumption DEF PromptInv, TypeOK
<1>3. \A c \in Calls : call'[c] = Done \/ (call'[c] = call[c] /\ call[c].prompt = None)
    BY <1>1
<1>4. call' \in [Calls -> Call] /\ fanOut' \in [Schedules -> FanOutPC]
    BY <1>1, ReadyAndDone DEF PromptInv, TypeOK, FanOutPC
<1>5. TypeOK'
    BY <1>1, <1>2, <1>4 DEF PromptInv, TypeOK, OnePromptPerText, Live
<1>6. ASSUME NEW c \in Calls PROVE CallSound(c)'
    <2>1. CASE call'[c] = Done
        BY <2>1, ReadyAndDone DEF CallSound
    <2>2. CASE call'[c] = call[c] /\ call[c].prompt = None
        BY <1>1, <2>2 DEF PromptInv, CallSound
    <2> QED BY <1>3, <2>1, <2>2
<1>7. \A p \in Prompts : PromptSound(p)'
    BY <1>1, <1>3, ReadyAndDone, CallFacts DEF PromptInv, PromptSound, Live
<1>8. ASSUME NEW d \in Schedules PROVE DefinitionSound(d)'
    <2>1. DefinitionSound(d) /\ d[1] # None
        BY ScheduleFacts, NoneAssumption DEF PromptInv
    <2>2. ~Deleting(d[1])'
        BY <1>3, <2>1, ReadyAndDone, CallFacts DEF Deleting
    <2>3. \A c \in Deletes : ~(call'[c].prompt = d[1])
        BY <1>3, <2>1, ReadyAndDone, CallFacts
    <2>4. /\ Exists(d)' <=> Exists(d)
          /\ Executing(d)' <=> Executing(d)
          /\ Gone(d[1])' <=> Gone(d[1])
          /\ raced' = raced /\ ~FanningOut(d)'
        BY <1>1 DEF Exists, Executing, FanningOut, Gone, Live
    <2> QED BY <2>1, <2>2, <2>3, <2>4 DEF DefinitionSound
<1>9. \A e \in Executions : execution'[e].pc # "idle" => execution'[e].of \in Schedules
    BY <1>1 DEF PromptInv
<1> QED BY <1>5, <1>6, <1>7, <1>8, <1>9 DEF PromptInv

-----------------------------------------------------------------------------
\* The theorems.

LEMMA StepKeeps == PromptInv /\ [Next]_vars => PromptInv'
<1> SUFFICES ASSUME PromptInv, [Next]_vars PROVE PromptInv'
    OBVIOUS
<1>1. CASE UNCHANGED vars
    <2>1. TypeOK'
        BY <1>1 DEF PromptInv, TypeOK, vars, OnePromptPerText, Live
    <2> QED BY <1>1, <2>1, DefinitionsStep
            DEF PromptInv, vars, Exists, FanningOut, Executing
<1>2. CASE Begin
    BY <1>2, BeginRegisterStep, ReadForToggleStep, BeginDeleteStep DEF Begin
<1>3. CASE \E c \in Calls : Proceed(c)
    BY <1>3, InsertStep, SaveToggleStep, ListSchedulesStep, DropScheduleStep, RemovePromptStep
       DEF Proceed
<1>4. CASE \E p \in Prompts : FanOut(p)
    BY <1>4, ReadConnectedStep, InsertDefinitionStep, RegisterSchedulerStep, ScheduleFacts
       DEF FanOut
<1>5. CASE \E e \in Executions : Continue(e) \/ \E d \in Schedules : Tick(e, d) \/ Trigger(e, d)
    BY <1>5, StartStep, FetchStep, FetchFailsStep, StoreStep, IngestStep, SaveStep, TickStep,
       TriggerStep DEF Continue
<1>6. CASE NextDay
    BY <1>6, NextDayStep
<1>7. CASE Fault
    BY <1>7, CallFailsStep, FanOutFailsStep, ApiRestartsStep, ExecutionFailsStep DEF Fault
<1> QED BY <1>1, <1>2, <1>3, <1>4, <1>5, <1>6, <1>7 DEF Next

LEMMA AlwaysSound == Spec => []PromptInv
BY Initially, StepKeeps, PTL DEF Spec

\* Types, and: a project never has two prompts of one text, though a resume may bring
\* back a prompt whose text was registered again.
THEOREM TypesCorrect == Spec => []TypeOK
<1>1. PromptInv => TypeOK
    BY DEF PromptInv
<1> QED BY <1>1, AlwaysSound, PTL

\* However many prompts, deletes, resumes and executions there are: a definition
\* survives its prompt only if the fan-out or an execution was at work on it during
\* the delete.
THEOREM CascadeComplete == Spec => []OrphansAreRaces
<1>1. PromptInv => OrphansAreRaces
    BY DEF PromptInv, DefinitionSound, OrphansAreRaces
<1> QED BY <1>1, AlwaysSound, PTL

-----------------------------------------------------------------------------
\* What a definition may still pay for.

\* A prompt is fanned out once, before any of its definitions exists.
FanOutFirst(d) ==
    /\ fanOut[d] \in {"read", "insert"} => ~Exists(d) /\ ~Executing(d)
    /\ d[1] \notin registered => ~FanningOut(d) /\ ~Exists(d) /\ ~Executing(d)

\* The execution that paid has learnt, or will learn, that the prompt is gone; once
\* it has ended the definition is not enabled.
HasPaid(d) ==
    /\ wasted[d] = 1
    /\ Gone(d[1])
    /\ fanOut[d] \notin {"read", "insert"}
    /\ \A e \in Executions :
          execution[e].of = d
          => \/ execution[e].pc \in {"store", "ingest"}
             \/ execution[e].pc = "save" /\ ~execution[e].enabled
    /\ ~Executing(d) => definitions[d] # "enabled"

WasteSound(d) ==
    /\ FanOutFirst(d)
    /\ d \notin unclean
       => /\ \A e, f \in Executions : execution[e].of = d /\ execution[f].of = d => e = f
          /\ wasted[d] # 0 => HasPaid(d)

WasteInv == \A d \in Schedules : WasteSound(d)

LEMMA WasteInitially == Init => WasteInv
<1> SUFFICES ASSUME Init, NEW d \in Schedules PROVE WasteSound(d)
    BY DEF WasteInv
<1>1. /\ definitions[d] = "absent" /\ wasted[d] = 0
      /\ \A e \in Executions : execution[e].of = None
    BY DEF Init, Idle
<1>2. ~Executing(d) /\ ~Exists(d) /\ ~FanningOut(d)
    BY <1>1, NoneAssumption DEF Init, Executing, Exists, FanningOut
<1> QED BY <1>1, <1>2, NoneAssumption DEF WasteSound, FanOutFirst

\* The worker stands still and a definition is at most deleted, or fanned out further
\* before it is inserted.
LEMMA WasteStays ==
    ASSUME NEW d, WasteSound(d), UNCHANGED <<execution, unclean>>,
           registered \subseteq registered',
           definitions'[d] \in {definitions[d], "absent"},
           fanOut'[d] \in {fanOut[d], "idle"} \/ (fanOut[d] = "read" /\ fanOut'[d] = "insert"),
           wasted'[d] \in {wasted[d], 0},
           wasted'[d] # 0 /\ Gone(d[1]) => Gone(d[1])'
    PROVE  WasteSound(d)'
<1>1. /\ Executing(d)' <=> Executing(d)
      /\ Exists(d)' => Exists(d)
    BY DEF Executing, Exists
<1>2. FanOutFirst(d)'
    BY <1>1 DEF WasteSound, FanOutFirst, FanningOut
<1>3. HasPaid(d) /\ wasted'[d] # 0 => HasPaid(d)'
    BY <1>1 DEF HasPaid
<1> QED BY <1>2, <1>3 DEF WasteSound

\* The calls, but for the one that inserts a prompt.
LEMMA WasteCalls ==
    ASSUME PromptInv, WasteInv,
           \/ Begin
           \/ \E c \in Calls : SaveToggle(c) \/ ListSchedules(c) \/ DropSchedule(c) \/ RemovePrompt(c)
           \/ \E c \in Calls : CallFails(c)
           \/ ApiRestarts
    PROVE  WasteInv'
<1> SUFFICES ASSUME NEW d \in Schedules PROVE WasteSound(d)'
    BY DEF WasteInv
<1>1. WasteSound(d) /\ d[1] \in Prompts
    BY ScheduleFacts DEF WasteInv
<1>2. UNCHANGED <<execution, unclean, registered>>
    BY DEF Begin, BeginRegister, ReadForToggle, BeginDelete, SaveToggle, ListSchedules,
           DropSchedule, RemovePrompt, CallFails, ApiRestarts, history
<1>3. definitions'[d] \in {definitions[d], "absent"}
    <2>1. CASE \E c \in Calls : DropSchedule(c)
        BY <2>1 DEF DropSchedule, PromptInv, TypeOK
    <2>2. CASE ~\E c \in Calls : DropSchedule(c)
        BY <2>2 DEF Begin, BeginRegister, ReadForToggle, BeginDelete, SaveToggle, ListSchedules,
               RemovePrompt, CallFails, ApiRestarts
    <2> QED BY <2>1, <2>2
<1>4. fanOut'[d] \in {fanOut[d], "idle"}
    BY DEF Begin, BeginRegister, ReadForToggle, BeginDelete, SaveToggle, ListSchedules,
           DropSchedule, RemovePrompt, CallFails, ApiRestarts
<1>5. wasted'[d] \in {wasted[d], 0} /\ (wasted'[d] # 0 /\ Gone(d[1]) => Gone(d[1])')
    <2>1. CASE \E c \in Calls : SaveToggle(c)
        <3>1. PICK c \in Calls : SaveToggle(c)
            BY <2>1
        <3> DEFINE p == call[c].prompt
        <3>2. p \in Prompts
            BY <3>1, CallTypes DEF SaveToggle, CallSound
        <3>3. CASE TextTaken(p)
            BY <1>2, <3>1, <3>3 DEF SaveToggle, Gone, Live
        <3>4. CASE ~TextTaken(p)
            <4>1. /\ wasted'[d] = IF d[1] = p THEN 0 ELSE wasted[d]
                  /\ d[1] # p => prompts'[d[1]] = prompts[d[1]]
                BY <1>1, <3>1, <3>2, <3>4, ScheduleFacts DEF SaveToggle, PromptInv, TypeOK
            <4> QED BY <1>2, <4>1 DEF Gone, Live
        <3> QED BY <3>3, <3>4
    <2>2. CASE \E c \in Calls : RemovePrompt(c)
        <3>1. wasted' = wasted /\ prompts'[d[1]] \in {prompts[d[1]], "absent"}
            BY <1>1, <2>2 DEF RemovePrompt, history, PromptInv, TypeOK
        <3> QED BY <1>2, <3>1 DEF Gone, Live
    <2>3. CASE ~\E c \in Calls : SaveToggle(c) \/ RemovePrompt(c)
        BY <1>2, <2>3 DEF Begin, BeginRegister, ReadForToggle, BeginDelete, ListSchedules,
               DropSchedule, CallFails, ApiRestarts, history, Gone, Live
    <2> QED BY <2>1, <2>2, <2>3
<1> QED BY <1>1, <1>2, <1>3, <1>4, <1>5, WasteStays

\* A prompt is inserted that never was: nothing of its definitions exists.
LEMMA WasteInsert ==
    ASSUME PromptInv, WasteInv, NEW c \in Calls, Insert(c)
    PROVE  WasteInv'
<1> SUFFICES ASSUME NEW d \in Schedules PROVE WasteSound(d)'
    BY DEF WasteInv
<1>1. WasteSound(d) /\ d[1] \in Prompts
    BY ScheduleFacts DEF WasteInv
<1>2. UNCHANGED <<execution, unclean, definitions, wasted>>
    BY DEF Insert
<1>3. /\ c \in Prompts /\ call[c].prompt = c /\ c \notin registered
    BY CallFacts DEF Insert, PromptInv, CallSound, PromptSound, Calls
<1>4. CASE TextTaken(c) \/ d[1] # c
    <2>1. fanOut'[d] = fanOut[d] /\ registered \subseteq registered'
        BY <1>1, <1>3, <1>4, ScheduleFacts DEF Insert
    <2>2. prompts'[d[1]] = prompts[d[1]]
        BY <1>1, <1>3, <1>4 DEF Insert, PromptInv, TypeOK
    <2> QED BY <1>1, <1>2, <2>1, <2>2, WasteStays DEF Gone, Live
<1>5. CASE ~TextTaken(c) /\ d[1] = c
    <2>1. ~Exists(d) /\ ~Executing(d)
        BY <1>1, <1>3, <1>5 DEF WasteSound, FanOutFirst
    <2>2. ~Exists(d)' /\ ~Executing(d)'
        BY <1>2, <2>1 DEF Exists, Executing
    <2>3. d \notin unclean => wasted[d] = 0
        BY <1>1, <1>3, <1>5 DEF WasteSound, HasPaid, Gone
    <2>4. d[1] \in registered'
        BY <1>3, <1>5 DEF Insert
    <2> QED BY <1>1, <1>2, <2>2, <2>3, <2>4 DEF WasteSound, FanOutFirst
<1> QED BY <1>4, <1>5

\* The listener.
LEMMA WasteFanOut ==
    ASSUME PromptInv, WasteInv,
           (\E p \in Prompts : FanOut(p)) \/ \E d \in Schedules : FanOutFails(d)
    PROVE  WasteInv'
<1> SUFFICES ASSUME NEW d \in Schedules PROVE WasteSound(d)'
    BY DEF WasteInv
<1>1. WasteSound(d) /\ d[1] \in Prompts
    BY ScheduleFacts DEF WasteInv
<1>2. UNCHANGED <<execution, prompts, unclean, registered, wasted>>
    BY DEF FanOut, ReadConnected, InsertDefinition, RegisterScheduler, FanOutFails, history
<1>3. CASE \E p \in Prompts : ReadConnected(p)
    <2>1. PICK p \in Prompts : ReadConnected(p)
        BY <1>3
    <2>2. /\ definitions' = definitions
          /\ fanOut'[d] = fanOut[d] \/ (fanOut[d] = "read" /\ fanOut'[d] \in {"insert", "idle"})
        BY <2>1 DEF ReadConnected
    <2>3. fanOut'[d] \in {fanOut[d], "idle"} \/ (fanOut[d] = "read" /\ fanOut'[d] = "insert")
        BY <2>2
    <2> QED BY <1>1, <1>2, <2>2, <2>3, WasteStays DEF Gone, Live
<1>4. CASE InsertDefinition(d)
    <2>1. fanOut'[d] \notin {"read", "insert"} /\ fanOut[d] = "insert"
        BY <1>4 DEF InsertDefinition, PromptInv, TypeOK
    <2>2. d \notin unclean => wasted[d] = 0
        BY <1>1, <2>1 DEF WasteSound, HasPaid
    <2>3. d[1] \in registered
        BY <1>1, <2>1 DEF WasteSound, FanOutFirst, FanningOut
    <2> QED BY <1>1, <1>2, <2>1, <2>2, <2>3 DEF WasteSound, FanOutFirst
<1>5. CASE \/ \E s \in Schedules : (InsertDefinition(s) /\ s # d) \/ RegisterScheduler(s)
           \/ \E s \in Schedules : FanOutFails(s)
    <2>1. definitions'[d] = definitions[d] /\ fanOut'[d] \in {fanOut[d], "idle"}
        BY <1>5 DEF InsertDefinition, RegisterScheduler, FanOutFails, PromptInv, TypeOK
    <2> QED BY <1>1, <1>2, <2>1, WasteStays DEF Gone, Live
<1> QED BY <1>3, <1>4, <1>5, ScheduleFacts DEF FanOut

\* A job is taken of an enabled definition: it has not paid, unless another execution
\* is at work on it.
LEMMA WasteTake ==
    ASSUME PromptInv, WasteInv, NEW e \in Executions, NEW k \in Schedules, Take(e, k)
    PROVE  WasteInv'
<1> SUFFICES ASSUME NEW d \in Schedules PROVE WasteSound(d)'
    BY DEF WasteInv
<1>1. WasteSound(d) /\ WasteSound(k)
    BY DEF WasteInv
<1> DEFINE x == [pc |-> "start", of |-> k, enabled |-> TRUE]
<1>2. /\ UNCHANGED <<prompts, definitions, fanOut, registered, wasted>>
      /\ execution' = [execution EXCEPT ![e] = x] /\ x.of = k /\ definitions[k] = "enabled"
      /\ execution[e].pc = "idle" /\ unclean \subseteq unclean'
      /\ Executing(k) => k \in unclean'
    BY DEF Take
<1> HIDE DEF x
<1>3. /\ execution'[e].of = k
      /\ \A f \in Executions : f # e => execution'[f] = execution[f]
    BY <1>2 DEF PromptInv, TypeOK
<1>4. CASE d = k
    <2>1. Exists(d) /\ fanOut[d] \notin {"read", "insert"} /\ d[1] \in registered
        BY <1>1, <1>2, <1>4 DEF Exists, WasteSound, FanOutFirst
    <2>2. FanOutFirst(d)'
        BY <1>2, <2>1 DEF FanOutFirst
    <2>3. ASSUME d \notin unclean' PROVE wasted[d] = 0 /\ ~Executing(d)
        BY <1>1, <1>2, <1>4, <2>3 DEF WasteSound, HasPaid
    <2> QED BY <1>2, <1>3, <1>4, <2>2, <2>3 DEF WasteSound, Executing
<1>5. CASE d # k
    <2>1. Executing(d)' => Executing(d)
        BY <1>3, <1>5 DEF Executing
    <2>2. FanOutFirst(d)'
        BY <1>1, <1>2, <2>1 DEF WasteSound, FanOutFirst, Exists, FanningOut
    <2>3. Gone(d[1])' <=> Gone(d[1])
        BY <1>2 DEF Gone, Live
    <2>4. HasPaid(d) => HasPaid(d)'
        <3>1. HasPaid(d) /\ Executing(d) => Executing(d)' \/ definitions[d] # "enabled"
            <4> SUFFICES ASSUME HasPaid(d), NEW f \in Executions, execution[f].of = d
                         PROVE  execution'[f].of = d
                BY DEF Executing
            <4>1. f # e
                BY <1>2 DEF HasPaid
            <4> QED BY <1>3, <4>1
        <3> QED BY <1>2, <1>3, <1>5, <2>3, <3>1 DEF HasPaid
    <2> QED BY <1>1, <1>2, <1>3, <1>5, <2>2, <2>4 DEF WasteSound
<1> QED BY <1>4, <1>5

\* An execution goes on, or ends: only its own definition changes.
LEMMA WasteExecution ==
    ASSUME PromptInv, WasteInv, NEW e \in Executions, NEW k \in Schedules, NEW x,
           execution[e].of = k, execution' = [execution EXCEPT ![e] = x],
           x.of \in {k, None},
           UNCHANGED <<prompts, fanOut, registered>>, unclean \subseteq unclean',
           \A d \in Schedules : d # k => definitions'[d] = definitions[d] /\ wasted'[d] = wasted[d],
           k \notin unclean' /\ wasted'[k] # 0
           => /\ wasted'[k] = 1 /\ Gone(k[1])
              /\ x.of = k => x.pc \in {"store", "ingest"} \/ (x.pc = "save" /\ ~x.enabled)
              /\ x.of # k => definitions'[k] # "enabled"
    PROVE  WasteInv'
<1> SUFFICES ASSUME NEW d \in Schedules PROVE WasteSound(d)'
    BY DEF WasteInv
<1>1. WasteSound(d)
    BY DEF WasteInv
<1>2. /\ execution'[e] = x
      /\ \A f \in Executions : f # e => execution'[f] = execution[f]
    BY DEF PromptInv, TypeOK
<1>3. Gone(d[1])' <=> Gone(d[1])
    BY DEF Gone, Live
<1>4. d # None
    BY NoneAssumption
<1>5. CASE d = k
    <2>1. Executing(d) /\ fanOut[d] \notin {"read", "insert"} /\ d[1] \in registered
        BY <1>1, <1>5 DEF Executing, WasteSound, FanOutFirst
    <2>2. FanOutFirst(d)'
        BY <2>1 DEF FanOutFirst
    <2>3. ASSUME d \notin unclean' PROVE \A f \in Executions : f # e => execution'[f].of # d
        BY <1>1, <1>2, <1>5, <2>3 DEF WasteSound
    <2>4. ASSUME d \notin unclean', wasted'[d] # 0 PROVE HasPaid(d)'
        <3>1. \A f \in Executions : execution'[f].of = d => f = e
            BY <2>3, <2>4
        <3>2. ~Executing(d)' => x.of # d
            BY <1>2 DEF Executing
        <3> QED BY <1>2, <1>3, <1>5, <2>1, <2>4, <3>1, <3>2 DEF HasPaid
    <2> QED BY <2>2, <2>3, <2>4 DEF WasteSound
<1>6. CASE d # k
    <2>1. \A f \in Executions : /\ execution'[f].of = d => f # e /\ execution'[f] = execution[f]
                                /\ execution[f].of = d => f # e /\ execution'[f] = execution[f]
        BY <1>2, <1>4, <1>6
    <2>2. Executing(d)' <=> Executing(d)
        BY <2>1 DEF Executing
    <2>3. FanOutFirst(d)'
        BY <1>1, <1>6, <2>2 DEF WasteSound, FanOutFirst, Exists, FanningOut
    <2>4. HasPaid(d) => HasPaid(d)'
        BY <1>3, <1>6, <2>1, <2>2 DEF HasPaid
    <2> QED BY <1>1, <1>6, <2>1, <2>3, <2>4 DEF WasteSound
<1> QED BY <1>5, <1>6

\* The worker.
LEMMA WasteContinue ==
    ASSUME PromptInv, WasteInv, NEW e \in Executions, Continue(e) \/ ExecutionFails(e)
    PROVE  WasteInv'
<1> DEFINE k == execution[e].of
           x == execution'[e]
<1>1. /\ execution[e].pc # "idle" /\ k \in Schedules /\ execution[e] \in Execution
      /\ wasted \in [Schedules -> 0 .. 2]
    <2>1. execution[e].pc # "idle"
        BY DEF Continue, Start, Fetch, FetchFails, Store, Ingest, Save, ExecutionFails
    <2> QED BY <2>1, ExecutionTypes
<1>2. /\ UNCHANGED <<prompts, fanOut, registered>> /\ unclean \subseteq unclean'
    BY DEF Continue, Start, Fetch, FetchFails, Store, Ingest, Save, ExecutionFails, history
<1>3. /\ Idle.of = None /\ k # None
      /\ \A pc, enabled : /\ [execution[e] EXCEPT !.pc = pc].of = k
                          /\ [execution[e] EXCEPT !.pc = pc].pc = pc
                          /\ [execution[e] EXCEPT !.pc = pc, !.enabled = enabled].of = k
                          /\ [execution[e] EXCEPT !.pc = pc, !.enabled = enabled].pc = pc
                          /\ [execution[e] EXCEPT !.pc = pc, !.enabled = enabled].enabled = enabled
    BY <1>1, NoneAssumption DEF Idle, Execution
<1>4. WasteSound(k) /\ Executing(k)
    BY <1>1 DEF WasteInv, Executing
<1>5. CASE Start(e)
    <2> DEFINE y == IF ~Exists(k) THEN Idle
                    ELSE [execution[e] EXCEPT !.pc = IF Request(k) \in payloads THEN "ingest" ELSE "fetch"]
    <2>1. /\ UNCHANGED <<definitions, wasted, unclean>> /\ execution[e].pc = "start"
          /\ execution' = [execution EXCEPT ![e] = y]
        BY <1>5 DEF Start, history
    <2>2. y.of \in {k, None}
        BY <1>3
    <2>3. k \notin unclean => wasted[k] = 0
        BY <1>4, <2>1 DEF WasteSound, HasPaid
    <2> HIDE DEF y
    <2> QED BY <1>1, <1>2, <2>1, <2>2, <2>3, WasteExecution
<1>6. CASE Fetch(e)
    <2> DEFINE y == [execution[e] EXCEPT !.pc = "store"]
    <2>1. /\ UNCHANGED <<definitions, unclean>> /\ execution[e].pc = "fetch"
          /\ execution' = [execution EXCEPT ![e] = y]
          /\ wasted' = IF Gone(k[1]) /\ k \notin unclean /\ wasted[k] < 2
                       THEN [wasted EXCEPT ![k] = @ + 1] ELSE wasted
        BY <1>6 DEF Fetch, Goes
    <2>2. y.of = k /\ y.pc = "store"
        BY <1>3
    <2>3. k \notin unclean => wasted[k] = 0
        BY <1>4, <2>1 DEF WasteSound, HasPaid
    <2> HIDE DEF y
    <2>4. k \notin unclean /\ wasted'[k] # 0 => wasted'[k] = 1 /\ Gone(k[1])
        BY <1>1, <2>1, <2>3
    <2>5. \A d \in Schedules : d # k => wasted'[d] = wasted[d]
        BY <1>1, <2>1
    <2> QED BY <1>1, <1>2, <1>3, <2>1, <2>2, <2>4, <2>5, WasteExecution
<1>7. CASE FetchFails(e)
    <2>1. PICK enabled \in BOOLEAN :
              execution' = [execution EXCEPT ![e].pc = "save", ![e].enabled = enabled]
        BY <1>7 DEF FetchFails
    <2> DEFINE y == [execution[e] EXCEPT !.pc = "save", !.enabled = enabled]
    <2>2. /\ UNCHANGED <<definitions, wasted, unclean>> /\ execution[e].pc = "fetch"
          /\ execution' = [execution EXCEPT ![e] = y]
        BY <1>1, <1>7, <2>1 DEF FetchFails, history, PromptInv, TypeOK
    <2>3. y.of = k
        BY <1>3
    <2>4. k \notin unclean => wasted[k] = 0
        BY <1>4, <2>2 DEF WasteSound, HasPaid
    <2> HIDE DEF y
    <2> QED BY <1>1, <1>2, <2>2, <2>3, <2>4, WasteExecution
<1>8. CASE Store(e)
    <2> DEFINE y == [execution[e] EXCEPT !.pc = "ingest"]
    <2>1. /\ UNCHANGED <<definitions, wasted, unclean>>
          /\ execution' = [execution EXCEPT ![e] = y]
        BY <1>8 DEF Store, Goes, history
    <2>2. y.of = k /\ y.pc = "ingest"
        BY <1>3
    <2>3. k \notin unclean /\ wasted[k] # 0 => wasted[k] = 1 /\ Gone(k[1])
        BY <1>4 DEF WasteSound, HasPaid
    <2> HIDE DEF y
    <2> QED BY <1>1, <1>2, <2>1, <2>2, <2>3, WasteExecution
<1>9. CASE Ingest(e)
    <2> DEFINE flag == IF Live(k[1]) THEN execution[e].enabled ELSE WhenMissing(execution[e].enabled)
               y == [execution[e] EXCEPT !.pc = "save", !.enabled = flag]
    <2>1. /\ UNCHANGED <<definitions, wasted, unclean>>
          /\ execution' = [execution EXCEPT ![e] = y]
        BY <1>1, <1>9 DEF Ingest, history, PromptInv, TypeOK, Execution
    <2>2. y.of = k /\ y.pc = "save" /\ (Gone(k[1]) => ~y.enabled)
        BY <1>3 DEF Gone, WhenMissing
    <2>3. k \notin unclean /\ wasted[k] # 0 => wasted[k] = 1 /\ Gone(k[1])
        BY <1>4 DEF WasteSound, HasPaid
    <2> HIDE DEF y
    <2> QED BY <1>1, <1>2, <2>1, <2>2, <2>3, WasteExecution
<1>10. CASE Save(e)
    <2>1. /\ UNCHANGED <<wasted, unclean>> /\ execution[e].pc = "save"
          /\ execution' = [execution EXCEPT ![e] = Idle]
          /\ definitions' = [definitions EXCEPT ![k] =
                                IF execution[e].enabled THEN "enabled" ELSE "disabled"]
        BY <1>10 DEF Save, history
    <2>2. k \notin unclean /\ wasted[k] # 0
          => wasted[k] = 1 /\ Gone(k[1]) /\ ~execution[e].enabled
        BY <1>4, <2>1 DEF WasteSound, HasPaid
    <2>3. /\ ~execution[e].enabled => definitions'[k] # "enabled"
          /\ \A d \in Schedules :
                d # k => definitions'[d] = definitions[d] /\ wasted'[d] = wasted[d]
        BY <1>1, <2>1 DEF PromptInv, TypeOK
    <2>4. k \notin unclean' /\ wasted'[k] # 0
          => wasted'[k] = 1 /\ Gone(k[1]) /\ definitions'[k] # "enabled"
        BY <2>1, <2>2, <2>3
    <2>5. Idle.of \in {k, None} /\ Idle.of # k
        BY <1>3
    <2> QED BY <1>1, <1>2, <2>1, <2>3, <2>4, <2>5, WasteExecution
<1>11. CASE ExecutionFails(e)
    <2>1. /\ UNCHANGED <<definitions, wasted>> /\ k \in unclean'
          /\ execution' = [execution EXCEPT ![e] = Idle]
        BY <1>11 DEF ExecutionFails
    <2> QED BY <1>1, <1>2, <1>3, <2>1, WasteExecution
<1> QED BY <1>5, <1>6, <1>7, <1>8, <1>9, <1>10, <1>11 DEF Continue

LEMMA WasteStep == ASSUME PromptInv, WasteInv, [Next]_vars PROVE WasteInv'
<1>1. CASE UNCHANGED vars \/ NextDay
    <2>1. UNCHANGED <<prompts, definitions, fanOut, execution, registered, unclean, wasted>>
        BY <1>1 DEF vars, NextDay, history
    <2> QED BY <2>1, WasteStays DEF WasteInv, Gone, Live
<1>2. CASE \E c \in Calls : Proceed(c)
    BY <1>2, WasteInsert, WasteCalls DEF Proceed
<1>3. CASE \E e \in Executions : Continue(e) \/ \E d \in Schedules : Tick(e, d) \/ Trigger(e, d)
    BY <1>3, WasteContinue, WasteTake DEF Tick, Trigger
<1>4. CASE Fault
    BY <1>4, WasteCalls, WasteFanOut, WasteContinue DEF Fault
<1> QED BY <1>1, <1>2, <1>3, <1>4, WasteCalls, WasteFanOut DEF Next

\* While its prompt is gone a definition pays for one answer, and no second unless two
\* of its executions overlapped or one broke off.
THEOREM NoSecondWastedCall == Spec => []OneWastedCall
<1>1. Init => PromptInv /\ WasteInv
    BY Initially, WasteInitially
<1>2. PromptInv /\ WasteInv /\ [Next]_vars => PromptInv' /\ WasteInv'
    BY StepKeeps, WasteStep
<1>3. WasteInv => OneWastedCall
    BY DEF WasteInv, WasteSound, HasPaid, OneWastedCall
<1> QED BY <1>1, <1>2, <1>3, PTL DEF Spec

-----------------------------------------------------------------------------
\* The part of OrphansGoQuiet that needs no fairness.

\* The prompt is gone, nothing works on the definition and it is not enabled:
\* its scheduler may tick on, but no tick is taken.
QuietOrphan(d) ==
    Gone(d[1]) /\ ~FanningOut(d) /\ ~Executing(d) /\ definitions[d] # "enabled"

\* A definition that went quiet stays so, whatever is triggered, resumed, deleted
\* or fails elsewhere, unless a resume brings the prompt itself back.
OrphansStayQuiet ==
    [][\A d \in Schedules : QuietOrphan(d) /\ Gone(d[1])' => QuietOrphan(d)']_vars

\* The fan-out goes on with what it began; only the registration of the prompt
\* begins one.
LEMMA QuietFanOut ==
    ASSUME PromptInv, [Next]_vars, NEW d \in Schedules, QuietOrphan(d), Gone(d[1])'
    PROVE  ~FanningOut(d)'
<1>1. fanOut[d] = "idle" /\ fanOut \in [Schedules -> FanOutPC] /\ d[1] \in registered
    BY DEF QuietOrphan, FanningOut, Gone, PromptInv, TypeOK
<1>2. ASSUME NEW c \in Calls, Insert(c) PROVE fanOut'[d] = "idle"
    <2> DEFINE p == call[c].prompt
    <2>1. c \in Prompts /\ p = c
        BY <1>2 DEF PromptInv, CallSound, Insert, Calls
    <2>2. CASE UNCHANGED fanOut
        BY <1>1, <2>2
    <2>3. CASE /\ prompts' = [prompts EXCEPT ![p] = "active"]
               /\ fanOut' = [e \in Schedules |-> IF e \in Of(p) THEN "read" ELSE fanOut[e]]
        <3>1. d \in Of(p) => d[1] = p
            BY ScheduleFacts DEF Of
        <3>2. d[1] = p => ~Gone(d[1])'
            BY <2>1, <2>3 DEF Gone, Live, PromptInv, TypeOK
        <3> QED BY <1>1, <2>3, <3>1, <3>2
    <2> QED BY <1>2, <2>2, <2>3 DEF Insert
<1>3. ASSUME NEW p \in Prompts, FanOut(p) PROVE fanOut'[d] = "idle"
    <2>1. CASE ReadConnected(p)
        BY <1>1, <2>1 DEF ReadConnected
    <2>2. ASSUME NEW e \in Of(p), InsertDefinition(e) \/ RegisterScheduler(e)
          PROVE  fanOut'[d] = "idle"
        BY <1>1, <2>2 DEF InsertDefinition, RegisterScheduler
    <2> QED BY <1>3, <2>1, <2>2 DEF FanOut
<1>4. ASSUME Fault PROVE fanOut'[d] = "idle"
    <2>1. ASSUME NEW x \in Schedules, FanOutFails(x) PROVE fanOut'[d] = "idle"
        BY <1>1, <2>1 DEF FanOutFails
    <2>2. CASE ApiRestarts
        BY <2>2 DEF ApiRestarts
    <2>3. CASE (\E c \in Calls : CallFails(c)) \/ (\E e \in Executions : ExecutionFails(e))
        BY <1>1, <2>3 DEF CallFails, ExecutionFails
    <2> QED BY <1>4, <2>1, <2>2, <2>3 DEF Fault
<1>5. ASSUME NEW e \in Executions, Continue(e) PROVE fanOut'[d] = "idle"
    BY <1>1, <1>5 DEF Continue, Start, Fetch, FetchFails, Store, Ingest, Save
<1>6. ASSUME NEW e \in Executions, NEW x \in Schedules, Tick(e, x) \/ Trigger(e, x)
      PROVE  fanOut'[d] = "idle"
    BY <1>1, <1>6 DEF Tick, Trigger, Take
<1>7. ASSUME NextDay \/ Begin \/ UNCHANGED vars PROVE fanOut'[d] = "idle"
    BY <1>1, <1>7 DEF NextDay, Begin, BeginRegister, ReadForToggle, BeginDelete, vars
<1>8. ASSUME NEW c \in Calls, Proceed(c), ~Insert(c) PROVE fanOut'[d] = "idle"
    BY <1>1, <1>8 DEF Proceed, SaveToggle, ListSchedules, DropSchedule, RemovePrompt
<1>9. fanOut'[d] = "idle"
    <2>1. CASE \E c \in Calls : Proceed(c)
        BY <1>2, <1>8, <2>1
    <2>2. CASE \E e \in Executions : Continue(e) \/ \E x \in Schedules : Tick(e, x) \/ Trigger(e, x)
        BY <1>5, <1>6, <2>2
    <2> QED BY <1>3, <1>4, <1>7, <2>1, <2>2 DEF Next
<1> QED BY <1>9 DEF FanningOut

\* No execution takes a definition that is not enabled.
LEMMA QuietExecution ==
    ASSUME PromptInv, [Next]_vars, NEW d \in Schedules, QuietOrphan(d)
    PROVE  ~Executing(d)' /\ definitions'[d] # "enabled"
<1>1. /\ \A e \in Executions : execution[e].of # d
      /\ definitions[d] # "enabled" /\ fanOut[d] = "idle" /\ d # None
      /\ definitions \in [Schedules -> DefinitionStates]
      /\ execution \in [Executions -> Execution]
    BY NoneAssumption DEF QuietOrphan, Executing, FanningOut, PromptInv, TypeOK
<1>2. ASSUME NEW e \in Executions, NEW x \in Schedules, Take(e, x)
      PROVE  definitions' = definitions /\ \A f \in Executions : execution'[f].of # d
    BY <1>1, <1>2 DEF Take
<1>3. ASSUME NEW e \in Executions, Continue(e)
      PROVE  definitions'[d] = definitions[d] /\ \A f \in Executions : execution'[f].of # d
    <2>1. Idle.of # d
        BY <1>1 DEF Idle
    <2>2. CASE Start(e)
        BY <1>1, <2>1, <2>2 DEF Start, Execution
    <2>3. CASE Fetch(e) \/ FetchFails(e) \/ Store(e) \/ Ingest(e)
        BY <1>1, <2>3 DEF Fetch, FetchFails, Store, Ingest, Goes, Execution
    <2>4. CASE Save(e)
        BY <1>1, <2>1, <2>4 DEF Save
    <2> QED BY <1>3, <2>2, <2>3, <2>4 DEF Continue
<1>4. CASE Fault
    <2>1. Idle.of # d
        BY <1>1 DEF Idle
    <2> QED BY <1>1, <1>4, <2>1
            DEF Fault, CallFails, FanOutFails, ApiRestarts, ExecutionFails, Executing
<1>5. CASE NextDay \/ Begin \/ UNCHANGED vars
    BY <1>1, <1>5 DEF NextDay, Begin, BeginRegister, ReadForToggle, BeginDelete, vars, Executing
<1>6. ASSUME NEW c \in Calls, Proceed(c)
      PROVE  definitions'[d] # "enabled" /\ execution' = execution
    BY <1>1, <1>6 DEF Proceed, Insert, SaveToggle, ListSchedules, DropSchedule, RemovePrompt
<1>7. ASSUME NEW p \in Prompts, FanOut(p)
      PROVE  definitions'[d] # "enabled" /\ execution' = execution
    <2>1. CASE ReadConnected(p)
        BY <1>1, <2>1 DEF ReadConnected
    <2>2. ASSUME NEW x \in Of(p), InsertDefinition(x) \/ RegisterScheduler(x)
          PROVE  definitions'[d] # "enabled" /\ execution' = execution
        BY <1>1, <2>2 DEF InsertDefinition, RegisterScheduler
    <2> QED BY <1>7, <2>1, <2>2 DEF FanOut
<1> QED BY <1>1, <1>2, <1>3, <1>4, <1>5, <1>6, <1>7 DEF Next, Tick, Trigger, Executing

\* Once a schedule whose prompt is gone has been stopped it never runs again: of
\* OrphansGoQuiet, only that it is stopped at all rests on fairness.
THEOREM QuietForGood == Spec => OrphansStayQuiet
<1>1. PromptInv /\ [Next]_vars =>
      [\A d \in Schedules : QuietOrphan(d) /\ Gone(d[1])' => QuietOrphan(d)']_vars
    <2> SUFFICES ASSUME PromptInv, [Next]_vars, NEW d \in Schedules, QuietOrphan(d), Gone(d[1])'
                 PROVE  QuietOrphan(d)'
        OBVIOUS
    <2> QED BY QuietFanOut, QuietExecution DEF QuietOrphan
<1> QED BY <1>1, AlwaysSound, PTL DEF Spec, OrphansStayQuiet
=============================================================================
