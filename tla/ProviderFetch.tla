--------------------------- MODULE ProviderFetch ---------------------------
(***************************************************************************)
(* The provider-fetch job of the worker: one execution of                  *)
(* ProviderFetchProcessor.handle per slot, every awaited call an action of *)
(* its own, so that executions interleave with each other, with the        *)
(* operator's PATCH and DELETE of a job definition in the API process, and *)
(* with faults of the database, of the worker and of the queue's locks.    *)
(*                                                                         *)
(* The tables are functions from ids to rows.  A row that does not exist   *)
(* is None (of the runs table, NoRun).  A request hash is the pair it is   *)
(* computed from: the request (provider, endpoint and identity params) and *)
(* the date bucket.                                                        *)
(***************************************************************************)
EXTENDS Naturals, FiniteSets

CONSTANTS
    Defs,       \* ids of job definitions
    Requests,   \* upstream requests a definition's params can amount to
    Routed,     \* the requests whose endpoint has an IngestRouter entry
    Workers,    \* concurrency slots of the provider's queue, over all processes
    RunIds,     \* run ids ever generated: bounds the number of executions
    Operators,  \* API requests that can be patching a definition at a time
    MaxDay,     \* bound: date buckets the run lasts
    MaxFaults,  \* bound: database errors, crashes and expired locks
    None        \* SQL NULL, and "not yet"

Days == 1 .. MaxDay
Hash == [request : Requests, day : Days]

\* The id of a raw payload.  The execution that generates it and the hash it
\* is stored under identify it: a slot stores at most one payload per hash.
PayloadId == [by : Workers, hash : Hash]

Statuses == {"absent", "running", "succeeded", "failed"}

\* run.error: permanent is QUOTA_EXCEEDED or INGEST_PRECONDITION_FAILED (not
\* retryable, the definition is disabled), transient is FETCH_FAILED.
Errors == {"permanent", "transient"}

\* lastRunAt is a day, 0 for a definition that never ran.
DefRow == [enabled : BOOLEAN, request : Requests, lastRunAt : 0 .. MaxDay]
RunRow == [status : Statuses, def : Defs \cup {None},
           payload : PayloadId \cup {None}, cacheHit : BOOLEAN,
           error : Errors \cup {None}]

\* A BullMQ job.  A cron tick carries no run id.  attempt counts the times the
\* queue found the job stalled; BullMQ redelivers it once (maxStalledCount).
Job == [def : Defs, run : RunIds \cup {None}, attempt : 0 .. 1]

PC == {"start", "lookup", "replay", "fetch", "store", "bill",
       "ingest", "saveDef", "saveRun"}

\* What one execution of handle holds in memory: the definition and the run
\* as entities, the request hash and the id of the payload it works with.
Slot == [pc : PC, job : Job, id : RunIds, def : DefRow, run : RunRow,
         hash : Hash \cup {None}, payload : PayloadId \cup {None}]

\* A PATCH that has read its definition and not saved it yet.
Patch == [def : Defs, row : DefRow]

ASSUME NoneAssumption ==
    None \notin Defs \cup RunIds \cup Hash \cup PayloadId \cup DefRow \cup Patch
ASSUME RoutedAssumption == Routed \subseteq Requests
ASSUME FiniteAssumption == IsFiniteSet(Workers)
ASSUME BoundAssumption == MaxDay \in Nat \ {0} /\ MaxFaults \in Nat

NoRun == [status |-> "absent", def |-> None, payload |-> None,
          cacheHit |-> FALSE, error |-> None]
Idle == [pc |-> "idle", job |-> None, id |-> None, def |-> None,
         run |-> NoRun, hash |-> None, payload |-> None]

VARIABLES
    definitions,  \* provider_job_definitions
    runs,         \* provider_job_runs
    payloads,     \* raw_payloads: the ids present
    ledger,       \* api_usage_entries: how many occurred up to each day
    queue,        \* jobs waiting in the provider's queue, ticks excepted
    slot,         \* the execution in each concurrency slot
    patch,        \* the PATCH each operator request has read but not saved
    day,          \* the date bucket of the wall clock
    issued,       \* run ids generated so far (UUIDs: never generated twice)
    faults,       \* faults so far
    calls,        \* history: upstream calls answered up to each day
    charges,      \* history: usage entries written for the calls of each hash
    billed,       \* history: runs of which an execution wrote a usage entry
    ingested      \* history: runs of which an execution fed the read model

tables == <<definitions, runs, payloads, ledger>>
history == <<calls, charges, billed, ingested>>
vars == <<definitions, runs, payloads, ledger, queue, slot, patch, day,
          issued, faults, calls, charges, billed, ingested>>

\* Mutant of Cached: the lookup before the call is missing.
CacheIgnored(h) == {}

\* RawPayloadRepository.findByRequestHash.
Cached(h) == {p \in payloads : p.hash = h}

\* Mutant of Stored: request_hash has no unique index.
NoUniqueIndex(h) == FALSE

\* The unique index on request_hash.
Stored(h) == \E p \in payloads : p.hash = h

\* Mutant of ReturnedId: save swallows the conflict and the caller goes on with
\* the id it generated (the bug migration 0024 cleans up after).
OwnId(candidate, rows) == candidate

\* The id RawPayloadRepository.save returns: of the row that is there.
ReturnedId(candidate, rows) == CHOOSE p \in rows : p.hash = candidate.hash

\* Mutant of RequestHash: the params are hashed with the bookkeeping keys that
\* tell definitions apart (the bug deriveRequestIdentity fixes).
BookkeepingHash(s) == [request |-> s.job.def, day |-> day]

RequestHash(s) == [request |-> s.def.request, day |-> day]

\* A table that counts by day, with one more from day d on.
OneMore(table, d) == [e \in Days |-> IF d <= e THEN table[e] + 1 ELSE table[e]]

\* Mutant of OccurredAt: the entry is filed under the date bucket of the hash.
OccurredAtBucket(s) == s.hash.day

\* The day a usage entry is stamped with: that of its writing.  The entry names
\* project, provider and endpoint, and neither the hash nor its date bucket.
OccurredAt(s) == day

\* The rows DeleteJobDefinitionUseCase leaves of the runs table: the foreign
\* key to the definition cascades.
RunsWithout(d) == [r \in RunIds |-> IF runs[r].def = d THEN NoRun ELSE runs[r]]

-----------------------------------------------------------------------------
\* definition.markRan and the transitions of the run entity.

\* Mutant of Complete: both paths call run.complete.
CompleteFresh(s, hit) ==
    [s EXCEPT !.pc = "saveDef",
              !.run = [@ EXCEPT !.status = "succeeded", !.payload = s.payload],
              !.def = [@ EXCEPT !.lastRunAt = day]]

\* Mutant of Complete: the hit is inferred from the payload being there.
CompleteInferred(s, hit) ==
    [s EXCEPT !.pc = "saveDef",
              !.run = [@ EXCEPT !.status = "succeeded", !.payload = s.payload,
                                !.cacheHit = Stored(s.hash)],
              !.def = [@ EXCEPT !.lastRunAt = day]]

Complete(s, hit) ==
    [s EXCEPT !.pc = "saveDef",
              !.run = [@ EXCEPT !.status = "succeeded",
                                !.payload = s.payload,
                                !.cacheHit = hit],
              !.def = [@ EXCEPT !.lastRunAt = day]]

\* A permanent failure also disables the definition the execution holds.
Fail(s, error) ==
    [s EXCEPT !.pc = "saveDef",
              !.run = [@ EXCEPT !.status = "failed", !.error = error],
              !.def = [@ EXCEPT !.lastRunAt = day,
                                !.enabled = s.def.enabled /\ error = "transient"]]

-----------------------------------------------------------------------------
\* Where jobs come from.

\* A cron tick: the job scheduler of a definition can fire at any time.
Ticks == {[def |-> d, run |-> None, attempt |-> 0] : d \in Defs}

\* TriggerJobDefinitionRunUseCase: "run now".
Trigger(d) ==
    /\ definitions[d] # None
    /\ \E r \in RunIds \ issued :
        /\ issued' = issued \cup {r}
        /\ queue' = queue \cup {[def |-> d, run |-> r, attempt |-> 0]}
    /\ UNCHANGED <<tables, slot, patch, day, faults, history>>

NextDay ==
    /\ day < MaxDay
    /\ day' = day + 1
    /\ UNCHANGED <<tables, queue, slot, patch, issued, faults, history>>

-----------------------------------------------------------------------------
\* ProviderFetchProcessor.handle.

Runnable(d) == definitions[d] # None /\ definitions[d].enabled

\* The definition is gone (NotFoundError, the job fails) or disabled.
Skip(w) ==
    /\ slot[w].pc = "idle"
    /\ \E j \in queue :  \* skipping a tick changes nothing
        /\ ~Runnable(j.def)
        /\ queue' = queue \ {j}
    /\ UNCHANGED <<tables, slot, patch, day, issued, faults, history>>

\* Read the definition.  The run id is the job's, or a new one.
Load(w) ==
    /\ slot[w].pc = "idle"
    /\ \E j \in queue \cup Ticks :
        /\ Runnable(j.def)
        /\ \E r \in IF j.run = None THEN RunIds \ issued ELSE {j.run} :
            /\ issued' = issued \cup {r}
            /\ slot' = [slot EXCEPT ![w] =
                  [Idle EXCEPT !.pc = "start", !.job = j, !.id = r,
                               !.def = definitions[j.def]]]
        /\ queue' = queue \ {j}
    /\ UNCHANGED <<tables, patch, day, faults, history>>

\* Resolve the credential and insert the run as running.  The execution throws
\* when no credential is usable, and when the definition was deleted meanwhile
\* (foreign key), in both cases before a run row exists.
StartRun(w) ==
    LET d == slot[w].job.def
        started == [NoRun EXCEPT !.status = "running", !.def = d]
    IN /\ slot[w].pc = "start"
       /\ \/ /\ slot' = [slot EXCEPT ![w] = Idle]
             /\ UNCHANGED runs
          \/ /\ definitions[d] # None
             /\ runs' = [runs EXCEPT ![slot[w].id] = started]
             /\ slot' = [slot EXCEPT ![w].pc = "lookup", ![w].run = started]
       /\ UNCHANGED <<definitions, payloads, ledger, queue, patch, day, issued,
                      faults, history>>

\* Compute the request hash and look for a payload stored under it.
LookUp(w) ==
    LET h == RequestHash(slot[w])
    IN /\ slot[w].pc = "lookup"
       /\ \/ /\ Cached(h) = {}
             /\ slot' = [slot EXCEPT ![w].pc = "fetch", ![w].hash = h]
          \/ \E p \in Cached(h) :
                slot' = [slot EXCEPT ![w].pc = "replay", ![w].hash = h,
                                     ![w].payload = p]
       /\ UNCHANGED <<tables, queue, patch, day, issued, faults, history>>

\* A cache hit: dispatch the stored payload to the ingest pipeline again.  An
\* endpoint without a router entry has nothing to dispatch to.  A transient
\* ingest error still completes the run.
Replay(w) ==
    LET s == slot[w]
        routed == s.hash.request \in Routed
    IN /\ s.pc = "replay"
       /\ \/ /\ slot' = [slot EXCEPT ![w] = Complete(s, TRUE)]
             /\ ingested' \in {ingested,
                               IF routed THEN ingested \cup {s.id} ELSE ingested}
          \/ /\ routed
             /\ slot' = [slot EXCEPT ![w] = Fail(s, "permanent")]
             /\ UNCHANGED ingested
       /\ UNCHANGED <<tables, queue, patch, day, issued, faults, calls, charges,
                      billed>>

\* The upstream call answers, is refused for lack of quota, or fails in any
\* other way, the 60 s abort signal included.
Fetch(w) ==
    LET s == slot[w]
    IN /\ s.pc = "fetch"
       /\ \/ /\ slot' = [slot EXCEPT ![w].pc = "store"]
             /\ calls' = OneMore(calls, day)
          \/ /\ \E error \in Errors :
                   slot' = [slot EXCEPT ![w] = Fail(s, error)]
             /\ UNCHANGED calls
       /\ UNCHANGED <<tables, queue, patch, day, issued, faults, charges, billed,
                      ingested>>

\* Insert the payload unless its hash is taken, and go on with the id of the
\* row that is there.
Store(w) ==
    LET h == slot[w].hash
        candidate == [by |-> w, hash |-> h]
        rows == IF Stored(h) THEN payloads ELSE payloads \cup {candidate}
    IN /\ slot[w].pc = "store"
       /\ payloads' = rows
       /\ slot' = [slot EXCEPT ![w].pc = "bill",
                               ![w].payload = ReturnedId(candidate, rows)]
       /\ UNCHANGED <<definitions, runs, ledger, queue, patch, day, issued,
                      faults, history>>

\* recordApiUsage: one usage entry for the call.
Bill(w) ==
    /\ slot[w].pc = "bill"
    /\ ledger' = OneMore(ledger, OccurredAt(slot[w]))
    /\ charges' = [charges EXCEPT ![slot[w].hash] = @ + 1]
    /\ billed' = billed \cup {slot[w].id}
    /\ slot' = [slot EXCEPT ![w].pc = "ingest"]
    /\ UNCHANGED <<definitions, runs, payloads, queue, patch, day, issued,
                   faults, calls, ingested>>

\* Mutant of Ingest: a transient ingest error completes the run, as in Replay.
IngestForgiving(w) ==
    LET s == slot[w]
    IN /\ s.pc = "ingest"
       /\ \/ /\ slot' = [slot EXCEPT ![w] = Complete(s, FALSE)]
             /\ ingested' \in {ingested, ingested \cup {s.id}}
          \/ /\ slot' = [slot EXCEPT ![w] = Fail(s, "permanent")]
             /\ UNCHANGED ingested
       /\ UNCHANGED <<tables, queue, patch, day, issued, faults, calls, charges,
                      billed>>

\* Dispatch to the ingest pipeline, or the inline fan-out of an endpoint
\* without a router entry; a missing entity and any other error fail the run.
Ingest(w) ==
    LET s == slot[w]
    IN /\ s.pc = "ingest"
       /\ \/ /\ slot' = [slot EXCEPT ![w] = Complete(s, FALSE)]
             /\ ingested' = ingested \cup {s.id}
          \/ /\ \E error \in Errors :
                   slot' = [slot EXCEPT ![w] = Fail(s, error)]
             /\ UNCHANGED ingested
       /\ UNCHANGED <<tables, queue, patch, day, issued, faults, calls, charges,
                      billed>>

\* Every ending writes the whole definition row back, then the run row.  The
\* first is an upsert: it inserts the row again when it was deleted.
SaveDef(w) ==
    /\ slot[w].pc = "saveDef"
    /\ definitions' = [definitions EXCEPT ![slot[w].job.def] = slot[w].def]
    /\ slot' = [slot EXCEPT ![w].pc = "saveRun"]
    /\ UNCHANGED <<runs, payloads, ledger, queue, patch, day, issued, faults,
                   history>>

\* The foreign keys of a run row: its definition, and its payload if any.
ForeignKeysHold(s) ==
    /\ definitions[s.job.def] # None
    /\ s.run.payload \in payloads \cup {None}

SaveRun(w) ==
    /\ slot[w].pc = "saveRun"
    /\ runs' = IF ForeignKeysHold(slot[w])
               THEN [runs EXCEPT ![slot[w].id] = slot[w].run]
               ELSE runs
    /\ slot' = [slot EXCEPT ![w] = Idle]
    /\ UNCHANGED <<definitions, payloads, ledger, queue, patch, day, issued,
                   faults, history>>

-----------------------------------------------------------------------------
\* The operator, in the API process.

\* UpdateJobDefinitionUseCase reads the row and patches what it read ...
ReadForPatch(o, d) ==
    /\ patch[o] = None
    /\ definitions[d] # None
    /\ \E e \in BOOLEAN, q \in Requests :
          patch' = [patch EXCEPT ![o] =
              [def |-> d,
               row |-> [definitions[d] EXCEPT !.enabled = e, !.request = q]]]
    /\ UNCHANGED <<tables, queue, slot, day, issued, faults, history>>

\* ... and upserts the whole row.
SavePatch(o) ==
    /\ patch[o] # None
    /\ definitions' = [definitions EXCEPT ![patch[o].def] = patch[o].row]
    /\ patch' = [patch EXCEPT ![o] = None]
    /\ UNCHANGED <<runs, payloads, ledger, queue, slot, day, issued, faults,
                   history>>

Delete(o, d) ==
    /\ patch[o] = None
    /\ definitions[d] # None
    /\ definitions' = [definitions EXCEPT ![d] = None]
    /\ runs' = RunsWithout(d)
    /\ UNCHANGED <<payloads, ledger, queue, slot, patch, day, issued, faults,
                   history>>

-----------------------------------------------------------------------------
\* Faults.

\* A call to the database rejects.  Between the fetch and the ingest the catch
\* block turns that into FETCH_FAILED; elsewhere the execution is over, and the
\* run row stays as it is (run.fail refuses a run that is not running).
DatabaseFails(w) ==
    LET s == slot[w]
    IN /\ faults < MaxFaults
       /\ \/ /\ s.pc \in {"start", "lookup", "saveDef", "saveRun"}
             /\ slot' = [slot EXCEPT ![w] = Idle]
          \/ /\ s.pc \in {"store", "bill"}
             /\ slot' = [slot EXCEPT ![w] = Fail(s, "transient")]
       /\ faults' = faults + 1
       /\ UNCHANGED <<tables, queue, patch, day, issued, history>>

Redelivery(j) == IF j.attempt = 0 THEN {[j EXCEPT !.attempt = 1]} ELSE {}

\* The worker process dies; the queue finds the job stalled.
Crash(w) ==
    /\ faults < MaxFaults
    /\ slot[w].pc # "idle"
    /\ queue' = queue \cup Redelivery(slot[w].job)
    /\ slot' = [slot EXCEPT ![w] = Idle]
    /\ faults' = faults + 1
    /\ UNCHANGED <<tables, patch, day, issued, history>>

\* The event loop is late renewing the job's lock: the queue redelivers the
\* job while the execution goes on.
LockExpires(w) ==
    /\ faults < MaxFaults
    /\ slot[w].pc # "idle"
    /\ slot[w].job.attempt = 0
    /\ queue' = queue \cup Redelivery(slot[w].job)
    /\ slot' = [slot EXCEPT ![w].job = [@ EXCEPT !.attempt = 1]]
    /\ faults' = faults + 1
    /\ UNCHANGED <<tables, patch, day, issued, history>>

-----------------------------------------------------------------------------
Init ==
    /\ definitions \in [Defs -> {row \in DefRow : row.enabled /\ row.lastRunAt = 0}]
    /\ runs = [r \in RunIds |-> NoRun]
    /\ payloads = {}
    /\ ledger = [d \in Days |-> 0]
    /\ queue = {}
    /\ slot = [w \in Workers |-> Idle]
    /\ patch = [o \in Operators |-> None]
    /\ day = 1
    /\ issued = {}
    /\ faults = 0
    /\ calls = [d \in Days |-> 0]
    /\ charges = [h \in Hash |-> 0]
    /\ billed = {}
    /\ ingested = {}

Handle(w) ==
    \/ StartRun(w) \/ LookUp(w) \/ Replay(w) \/ Fetch(w) \/ Store(w)
    \/ Bill(w) \/ Ingest(w) \/ SaveDef(w) \/ SaveRun(w)

Next ==
    \/ NextDay
    \/ \E d \in Defs : Trigger(d)
    \/ \E w \in Workers : Skip(w) \/ Load(w) \/ Handle(w)
    \/ \E w \in Workers : DatabaseFails(w) \/ Crash(w) \/ LockExpires(w)
    \/ \E o \in Operators : SavePatch(o)
    \/ \E o \in Operators, d \in Defs : ReadForPatch(o, d) \/ Delete(o, d)

Spec == Init /\ [][Next]_vars

\* An execution that has begun goes on: every awaited call settles, the
\* upstream one because of its 60 s abort signal.  Jobs, days, operators and
\* faults come or do not.
FairSpec == Spec /\ \A w \in Workers : WF_vars(Handle(w))

-----------------------------------------------------------------------------
TypeOK ==
    /\ definitions \in [Defs -> DefRow \cup {None}]
    /\ runs \in [RunIds -> RunRow]
    /\ payloads \subseteq PayloadId
    /\ ledger \in [Days -> Nat]
    /\ queue \subseteq Job
    /\ slot \in [Workers -> Slot \cup {Idle}]
    /\ patch \in [Operators -> Patch \cup {None}]
    /\ day \in Days
    /\ issued \subseteq RunIds
    /\ faults \in 0 .. MaxFaults
    /\ calls \in [Days -> Nat]
    /\ charges \in [Hash -> Nat]
    /\ billed \subseteq RunIds
    /\ ingested \subseteq RunIds

FreshSuccess(r) == runs[r].status = "succeeded" /\ ~runs[r].cacheHit

\* From the moment an execution works with a payload, that payload is in the
\* table and answers the very request and day the execution hashed, whoever
\* stored it (the id RawPayloadRepository.save hands back).
AnswerMatchesRequest ==
    \A w \in Workers :
        LET s == slot[w]
        IN s.pc \in {"replay", "bill", "ingest"} \/ s.run.status = "succeeded"
           => s.payload \in payloads /\ s.payload.hash = s.hash

\* Concurrent executions can all miss the cache, but no more of them than
\* there are slots: that is how often one request of one day is billed.
BilledAtMostOncePerSlot == \A h \in Hash : charges[h] <= Cardinality(Workers)

\* The usage table never claims a call the provider did not answer: up to any
\* day, no more entries occurred than calls were answered by then, although a
\* call and its entry can be of different days and either can be missing.
LedgerWithinCalls == \A d \in Days : ledger[d] <= calls[d]

\* A run the usage report counts as billed (succeeded, not from the cache) has
\* its usage entry, whatever failed or was redelivered on the way.
FreshSuccessIsBilled == \A r \in RunIds : FreshSuccess(r) => r \in billed

\* A run that fetched and succeeded has fed its read model.
FreshSuccessIsIngested == \A r \in RunIds : FreshSuccess(r) => r \in ingested

\* Without faults, a run marked as a cache hit wrote no usage entry, even when
\* it shares its definition, request and day with runs that did.
CacheHitIsFree == \A r \in RunIds : runs[r].cacheHit => r \notin billed

\* Without faults, every run that is running ends, or its definition is
\* deleted: no failure path of handle leaves the row behind.
RunsFinish ==
    \A r \in RunIds : runs[r].status = "running" ~> runs[r].status # "running"

\* Of the comment on handle ("duplicate ticks do not double-charge"): a request
\* is billed once a day.
NoDoubleCharge == \A h \in Hash : charges[h] <= 1

\* Of deriveRequestIdentity ("the fan-out still works: on a cache hit the
\* processor replays the payload"): a succeeded run fed its read model.
CacheHitIsIngested ==
    \A r \in RunIds : runs[r].status = "succeeded" => r \in ingested

\* What the runs and payloads tables promise; see FetchContract.
Contract == INSTANCE FetchContract WITH
    answers <- payloads,
    outcome <- [r \in RunIds |-> runs[r].status],
    served <- [r \in RunIds |-> runs[r].payload]
ContractSpec == Contract!Spec
=============================================================================
