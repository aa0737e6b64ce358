# A formal model of RankPulse

RankPulse collects SEO data from some sixteen external providers, most of them
paid per call, on cron schedules that operators and event handlers set up. This
directory holds TLA+ modules of the parts of it where several processes work on
the same rows and queues, TLC configurations that check them on small
instances, and proofs that TLAPS checks for every value of the constants.

Paths are relative to the repository's root; `A` stands for
`packages/application/src`, `D` for `packages/domain/src`, `I` for
`packages/infrastructure/src` and `W` for `apps/worker/src`.

    tlc -workers 2 -config fetch_faults.cfg MCProviderFetch     # one run
    tlapm ProviderFetchProofs.tla                               # one proof module

`PROJECT.json` maps every definition to the lines it models, and lists the runs,
the mutants that show each property can fail, the hazards, and the theorems.

## 1. Inventory

### Processes and stores

- **API** (`apps/api`, several PM2 processes): HTTP requests of operators run use
  cases; the domain events these publish reach handlers in the same process.
- **Worker** (`apps/worker`): one BullMQ worker per provider, each with a number
  of concurrency slots; a slot runs `ProviderFetchProcessor.handle`.
- **Deploy** (`.github/workflows/release.yml`): restarts both, migrates, then runs
  `apps/api/scripts/reconcile-schedules.ts`.
- **Postgres**: the tables of every context. No use case opens a transaction:
  each repository call is atomic by itself (two open one, to write a project
  or a SERP snapshot) and nothing larger is.
- **Redis**: per provider a queue of jobs, and *job schedulers* that add a job at
  each cron tick.

A handler is therefore a sequence of awaited calls, between any two of which
every other handler of any process may run. Almost every hazard comes from that.

### Components

| Component | State | Operations | What is hard | What makes it correct | Here |
|---|---|---|---|---|---|
| Provider-fetch job (`W/processors/provider-fetch.processor.ts`, `request-identity.ts`) | rows of a run, payload, usage entry; the definition and run it holds in memory | `handle` | concurrent executions of one request, midnight, crashes and redelivery, a failure after any await | the answer used is that of the request; billed only for what was called; a success is billed and ingested; runs end | `ProviderFetch` |
| Provider-connectivity tables and entities (`D/provider-connectivity/entities`, `I/.../provider-connectivity`) | `provider_job_definitions`, `provider_job_runs`, `raw_payloads`, `api_usage_entries` | upserts, insert-or-find, cascade | whole-row writes of stale reads, unique indexes, foreign keys | one payload per request hash; a run ends once | `ProviderFetch`, `FetchContract` |
| Job-definition lifecycle (`A/provider-connectivity/use-cases/{schedule-endpoint-fetch,manage-job-definition,trigger-job-definition-run}`, `I/queue/bullmq-job-scheduler.ts`, `A/_core/auto-schedule.ts`, the script) | the row and the scheduler of each definition | schedule, patch, delete, run now, reconcile | a row and a Redis key without a transaction; check then insert; events delivered twice | an enabled definition has its scheduler, a deleted one none; one definition per linked entity | `ScheduleLifecycle` |
| Credentials (`A/.../resolve-provider-credential`, `register-provider-credential`, `D/.../provider-credential.ts`, the vault) | credential rows, encrypted secrets | register, resolve by scope | rows in any order, registered and expiring while a job resolves | the best one there was when the job asked; one per scope and label | `CredentialResolution` |
| Ingest router, manifests (`W/processors/ingest-router.ts`, `packages/providers/core`) | none | dispatch, error classification | a missing entry, retryable or not | every endpoint is fed on both paths | "has an entry or not" in `ProviderFetch`; the entity looked up in `LinkedEntities` |
| Competitor suggestions (`A/project-management/use-cases/competitor-suggestions.use-cases.ts`) | tally, keywords, status | record hits, promote, dismiss | lost updates of concurrent SERP jobs; promote in two steps | one verdict for good, a competitor only of a promote, an honest tally | `CompetitorSuggestions`, `SuggestionLifecycle` |
| Brand prompts (`A/ai-search-insights`) | prompt, its definitions | register, pause, resume, delete, record answer | a delete of many rows against a listener and executions at work; upserts that bring a prompt back | what a delete leaves comes of a race, pays once and goes quiet | `BrandPrompts` |
| Rank tracking (`A/rank-tracking`) | keywords, observations, the SERP snapshot of the day | start tracking, record, overwrite | events derived from an observation read earlier; snapshots that overlap; two extractions of one answer | alerts alternate and tell the ranking; no site of the snapshot is above its rankings | `RankTracking` |
| Event bus (`I/events/in-memory-event-publisher.ts`) | listeners in memory | publish | not awaited, lost with the process | handlers are idempotent; what is half done does no harm | `ScheduleLifecycle` (redelivery, concurrency), `BrandPrompts` (loss) |
| Linked properties (GSC, GA4, Bing, Clarity, Wikipedia, Meta, radar, web performance) | link rows, observations | link, unlink, the daily ingest of a window of days | check then insert; rows saved for an entity removed meanwhile; windows that overlap | one link per key; every day once, in the table and in the events | `LinkedEntities`; their handler in `ScheduleLifecycle` |
| Projects, domains, portfolios (`A/project-management`) | projects with domains and locations, portfolios, competitors | create, add, group, rename, delete | whole projects written back as read; counts and checks made stale | an add stays; a portfolio is not pulled away | `ProjectCatalog`; competitors in `CompetitorSuggestions` |
| Identity and access | organizations, users, memberships, tokens | register, invite, issue, authenticate | three saves without a transaction, races for slugs and emails | one account per email, one role per member, an owner for every organization | `IdentityAccess`; tokens not modelled |
| Usage report (`A/.../report-provider-usage`) | none, reads | report | agreement of runs and usage entries | billed = succeeded and not from the cache | the agreement is a property of `ProviderFetch` |
| Provider clients, mappers | none | HTTP, parsing | formats | — | not modelled: I/O and parsing |
| HTTP API, contracts, SDK, web UI | none of their own | routing, schemas, screens | — | — | not modelled |

How they interact: an operator's request or an event makes
`ScheduleEndpointFetchUseCase` insert a row and a scheduler; the scheduler (or
*run now*) adds jobs; `handle` reads the definition, may find its payload in
`raw_payloads`, else calls the provider, stores, bills, ingests and writes run and
definition back; the ingest feeds the contexts (rank tracking, suggestions, ...)
whose events come round to handlers; patches and deletes change definitions while
any of this goes on; and the script resets the schedulers to the rows.

## 2. Plan

Ordered by what would hurt most: money and data first.

1. **`ProviderFetch`** (done) with the abstract **`FetchContract`** (done).
2. **`ScheduleLifecycle`** (done): rows against schedulers. It models the
   scheduler that `ProviderFetch` takes for granted (a tick may come at any time),
   and takes from it only that an execution reads a row and writes it back.
3. **`CompetitorSuggestions`** with the abstract **`SuggestionLifecycle`** (done): SERP
   jobs are the ingest step of `ProviderFetch`; they and the operators read
   and save one row.
4. **`BrandPrompts`** (done): a prompt, its schedules and the executions of the
   worker together, which `ScheduleLifecycle` and `ProviderFetch` each have one half
   of. Liveness: what a delete leaves behind goes quiet.
5. **`LinkedEntities`**, **`RankTracking`** (done): what jobs write after the
   fetch, while operators link, unlink and track.
6. **`ProjectCatalog`**, **`IdentityAccess`**, **`CredentialResolution`** (done): what
   requests write, against each other and against time.
7. The invariants of 1 to 6 as theorems (done), with the two refinements and, for each
   liveness property, what it does not owe to fairness. Liveness itself stays with TLC.

## 3. The modules

### ProviderFetch

One record `slot[w]` per concurrency slot (of all worker processes together)
holds what `handle` holds in local variables; `pc` names the awaited call it is
at. Each action is that call with the synchronous code around it:

| Action | Code in `provider-fetch.processor.ts` |
|---|---|
| `Load`, `Skip` | `findById`, the missing and the disabled definition (104-124) |
| `StartRun` | credential, `ProviderJobRun.start`, insert (130-156) |
| `LookUp` | `deriveRequestIdentity`, date bucket, `findByRequestHash` (158-189) |
| `Replay` | the cache-hit branch up to its saves (182-241) |
| `Fetch` | the provider call under its abort signal (243-264) |
| `Store` | `RawPayload.store`, `save`, and the id it returns (265-292) |
| `Bill` | `recordApiUsage` (293-320) |
| `Ingest` | `ingestRouter.dispatch` or the inline SERP fan-out (322-478) |
| `SaveDef`, `SaveRun` | the two saves every path ends with (238-239, 480-481 and the catch block, 482-565) |

Around them: `Trigger` (run now), cron `Ticks`, `NextDay` (the date bucket is part
of the hash), the operator's `ReadForPatch`, `SavePatch` and `Delete`, and the
faults `DatabaseFails`, `Crash` and `LockExpires` (BullMQ redelivers a stalled job
once, with its run id, whether its worker died or was merely late).

Abstracted: a request hash is the pair (request, day) it is computed from; params
are the request they amount to; credential resolution is "usable or not"; an
ingest either feeds the read model or fails in one of two ways; costs and rate
limits are left out. `ledger` counts the usage entries up to each day. An entry has
neither hash nor date bucket: it is stamped with the clock when it is written
(`OccurredAt`), which across midnight is the day after the call and its
bucket. History variables: `calls` (the calls answered up to each day), `charges` (for each hash,
the entries its executions wrote), `billed`, `ingested`.

### FetchContract

The abstract specification: each request hash is answered once and for good, and
a run goes from absent to running to one ending, a success with an answer that
is in the table; deleting a definition forgets its runs. `ProviderFetch` implements it with
`answers <- payloads`, and a run's status and payload columns.

### ScheduleLifecycle

`definitions` (rows of one project and endpoint) and `schedulers` (the cron of
each definition's BullMQ job scheduler). A `task` is one call of a use case, a
`pc` per awaited call:

| Task | Steps | Code |
|---|---|---|
| schedule | `BeginSchedule`, `Check`, `Insert`, `Register` | `schedule-endpoint-fetch.use-case.ts` 55-127, called by `auto-schedule.ts` 66-148 or the controller |
| patch | `ReadForPatch`, `SavePatch`, `Unregister`, `Register` | `manage-job-definition.use-cases.ts` 96-204 |
| delete | `ReadForDelete`, `Unregister`, `Delete` | the same, 207-219 |
| execution | `ReadForRun`, `SaveRun` | the processor's read (104) and write (480) of the row |
| script | `ReadEnabled`, `RegisterEnabled`, `ReadProviders`, `ListSchedulers`, `DropStale` | `reconcile-schedules.ts` 64-141 |

`Saved` is the upsert that keeps the `params_hash` of the insert, and inserts a
deleted row again; `Conflicts` is the unique index. `TaskFails` and `ScriptFails`
stop a call anywhere. `Keyed` says whether the endpoint is bound to a linked
entity; `KeyPreserved` whether `SYSTEM_PARAM_KEYS` lists that entity's key
(`brandPromptId` is not in it, so a patch of params drops that one). Params are
abstracted to a variant (a locale, say) and whether they carry the key. History: `origin`, `skipped`, and
`suspect`/`clean`, which record the definitions that calls overlapped on or failed
half-way with, and those an ongoing run of the script has had to itself.

### CompetitorSuggestions

One project and one domain: `suggestion` is its row, `competitor` whether it is in the
competitors table, and a `task` one call of a use case:

| Task | Steps | Code |
|---|---|---|
| job | `Filter`, `Find`, `SaveHit`, and after a lost race `FindWinner`, `SaveHit` | processor 404-424, `competitor-suggestions.use-cases.ts` 81-143 |
| promote | `Judge`, `SaveVerdict`, `Create` | the same, 219-255 |
| dismiss | `Judge`, `SaveVerdict` | the same, 264-271 |
| by hand | `Add`, `Remove` | `add-competitor`, `remove-competitor` |

`Accepts` and `Written` are the repository's `save`: a verdict is an update where
the status is still pending; a pending row is an upsert by id that overwrites the
tally and leaves the status alone, refused by the unique index when the row has
another id. `Add` and `Remove` are single steps because their checks only decide
what the caller is told. `Fails` stops a call anywhere. Left out: times, events,
and the eligibility policy, which only reads.

### SuggestionLifecycle

The abstract specification: absent, pending, then promoted or dismissed by one call and
for good; only the call that promoted makes the competitor.

### BrandPrompts

Prompts of one project, a definition for each prompt and AI provider, and the
payloads of the day:

| Actor | Steps | Code |
|---|---|---|
| register | `BeginRegister`, `Insert` | `register-brand-prompt.use-case.ts` |
| listener | `ReadConnected`, `InsertDefinition`, `RegisterScheduler`, for all providers in parallel | `auto-schedule.config.ts` 95-143, `auto-schedule.ts` 76-150 |
| pause, resume | `ReadForToggle`, `SaveToggle` (an upsert) | `pause-brand-prompt.use-case.ts` |
| delete | `BeginDelete`, `ListSchedules`, `DropSchedule`, `RemovePrompt` | `delete-brand-prompt.use-case.ts` |
| execution | `Tick` or `Trigger`, `Start`, `Fetch` or `FetchFails`, `Store`, `Ingest`, `Save` (an upsert) | the processor, `record-llm-answer.use-case.ts` |

`CallFails`, `FanOutFails`, `ApiRestarts` and `ExecutionFails` stop any of them
anywhere. Pausing changes nothing but the row, as in the code: neither the schedules nor the
worker look at it. The request of a definition is its provider and prompt (`Request`): the params the hash
is made of keep `brandPromptId`, so that prompts share no payload, whatever their text. History: `registered`, `raced`, `unclean` and `wasted`, which counts since the
prompt is gone: a resume that brings it back starts it again. Locales and the
reconcile script are left out: both are modelled in `ScheduleLifecycle`.

### LinkedEntities

Entities of one kind; nine kinds are told apart by a record of traits: whether a
removal keeps the row, whether an answer is saved by one statement, how many days it
covers and how old the latest is. Link is `LookUpKey`, `InsertLink`; removal
`ReadEntity`, `Remove`; the worker `DailyRun` or `RunNow`, `LookUpEntity`, `SaveRows`,
`PublishIngested` or `JobFails`. The scheduler is a cron pattern of the early morning: an entity linked in the
course of a day is due from the next morning (`Due`), though it may run on the day it was linked, if that was
before the hour; `NextMorning` ends a day when every definition that was due has run. `rows` has the days stored; the numbers in a row are left out, since a day that is
there is never written again. History: `counted`, `lost`, `late`, `overlapped`.

### RankTracking

One SERP query of a project. `FindKeyword`, `SaveKeyword` track keywords; a job lists those of
the query (`ListKeywords`; of two domains that differ in their `www.` only one is
observed), makes and saves an observation for each with the one before
(`Observe`, `SaveObservation`), publishes the events (`PublishAlerts`), and overwrites the
snapshot of the day in a transaction (`BeginOverwrite`, `CommitOverwrite`) unless the answer has
no top rows (`SkipOverwrite`). What a job takes from an answer (`Extractions`) is extracted twice, as in the
code, from the items of the answer (`Serps`): for the rankings the first item of any kind of a site or a
subdomain of it, at any rank (`Showing`), for the snapshot links only, each with its exact domain, down to
rank 30 (`Listing`). Of the snapshot the best rank of each tracked site is kept. `SerpJobFails` ends it anywhere: the answer is cached and never
fanned out again. History: `alert`, `repeated`, `disturbed`.

### ProjectCatalog

`attached` is the domains and locations of a project, `portfolioOf` the column of its
row. Adding a domain or location is `ReadProject`, `Assemble` (twice, in any order: two
queries), `FindOwner` (domains only), `SaveProject`, which writes everything back as it
was read; creating is `FindPrimary`, `InsertProject`; portfolios are created, renamed (`ReadPortfolio`,
`SavePortfolio`, an upsert) and deleted (`CountProjects`, `DeletePortfolio`, with the foreign key's
SET NULL). History: `accepted`, `crowded`, `contested`, `detached`, `squeezed`.

### IdentityAccess

A registration is two checks and three saves (`FindSlug`, `FindOwnerEmail`, `SaveOwner`,
`SaveOrganization`, `SaveOwnership`), an invitation `BeginInvite`, `FindInvitee`, `SaveInvitee`,
`FindMember`, `SaveMembership`; each save may be refused by its unique index, and
`CallFails` ends a call anywhere. No call revokes a membership.

### CredentialResolution

`FindByScope`, `InsertCredential` register; a resolution reads the rows (`ListForProvider`),
looks at them one by one in any order (`Consider`) and ends (`Resolve`), or takes the credential a definition
names (`ResolveOverride`), while `TimePasses`. `Candidates`, which the property compares
with, does not use the code's score.

### MC and proof modules

`MCProviderFetch` and `MCScheduleLifecycle` add the symmetry sets, `MCBrandPrompts` the
texts. Two modules put instances of modules side by side that share no row in the code (what one has of
another is an id), so that a behaviour of the instance is about one of them, its `area`, and
interleaving them would only multiply the states: `MCSerp` has `ProviderFetch` and
`CompetitorSuggestions`, and `MCWorkspace` `LinkedEntities`, `ProjectCatalog`, `IdentityAccess`,
`CredentialResolution` and `RankTracking`.
`ProviderFetchProofs`, `ProviderFetchBillingProofs`, `ScheduleLifecycleProofs`,
`CompetitorSuggestionsProofs`, `BrandPromptsProofs`, `LinkedEntitiesProofs`, `CatalogProofs`
(`ProjectCatalog`, `RankTracking`) and `AccessProofs` (`IdentityAccess`,
`CredentialResolution`) hold the proofs.

## 4. What the runs check

| Run | Instance | Checks |
|---|---|---|
| `fetch_faults` | 2 definitions, 2 requests (one routed), 2 slots, 2 runs, 2 days, 1 fault; 2.8 M states | `TypeOK`, `AnswerMatchesRequest`, `BilledAtMostOncePerSlot`, `LedgerWithinCalls`, `FreshSuccessIsBilled`, `FreshSuccessIsIngested` |
| `serp_live` | a fetch of 1 definition by 2 slots, 1 operator, no faults; or 3 jobs that tally a domain under 2 keywords, a promote, a dismiss, adding and removing by hand, 1 fault; 232 k states | `CacheHitIsFree`, `RunsFinish` (liveness), `ContractSpec` (refinement); `SuggestionTypeOK`, `TallyIsEarned`, `PromotedIsTracked` (liveness), `LifecycleSpec` (refinement) |
| `schedule` | 2 definitions, 2 variants, 2 crons, a schedule, a patch, a delete, the script, 1 fault; 507 k states | `TypeOK`, `EnabledIsScheduled`, `DeletedIsUnscheduled` |
| `schedule_live` | 2 definitions, an event delivered twice, a patch that drops the key, an execution, the script; 666 k states | `OneSchedulePerLink`, `EventuallyScheduled` (liveness) |
| `prompts` | 2 prompts of one text, a provider, a pause or resume, a delete, 2 executions, 1 triggered run, 1 fault; 195 k states | `TypeOK`, `OrphansAreRaces`, `OneWastedCall`, `OrphansGoQuiet` (liveness) |
| `workspace` | 2 links of one site over 4 days; 2 projects, a portfolio, 4 calls on them; 3 registrations, 2 invitations; 4 credentials; 3 keywords, 3 answers with items at ranks 10 and 30, 2 jobs; 1 fault; 1.1 M states | `LinksTypeOK`, `EventsCountRowsOnce`, `LateRowsAreRaces`, `DeletedLeavesNothing`, `WindowHealsGaps`; `ProjectTypeOK`, `AddsLast`, `DetachedBySqueeze`; `IdentityTypeOK`, `MembersHaveOwner`, `EmptyOrganizationsFailed`; `CredentialTypeOK`, `CascadeFindsBest`; `RankTypeOK`, `AlertsAlternate`, `AlertsTellRanking`, `SnapshotAgreesWithRankings` |
| `double_charge` | 2 definitions of one request, 2 slots, no faults | finding: `NoDoubleCharge` |
| `serp_replay` | a request without a router entry | finding: `CacheHitIsIngested` |
| `reconcile_gap` | an event and the script | finding: `ReconcileKeepsValid` |
| `locale_collision` | two locales of one prompt | finding: `VariantsDoNotCollide` |
| `shared_domain` | the instance of `workspace`, no keyword tracked | finding: `DomainInOneProject` |
| `relink` | the instance of `workspace`, no keyword tracked | finding: `RelinkCreatesLink` |

### What the passing runs show

- Whatever interleaves, crashes or is redelivered, an execution goes on with a
  payload that is in the table and answers its own request and day; up to any day the usage table
  claims no more calls than were answered by then; a run that succeeded without the cache has
  its usage entry and its ingest; and though the cache does not prevent double
  charges, it bounds them by the number of slots.
- Without faults every run ends, or goes with its definition.
- Row and scheduler come apart only where calls of one definition (or the
  script) overlapped or one failed half-way, and a run of the script that nothing
  overlaps puts them right.
- An event delivered twice creates one definition, even with a patch in between
  that drops the key: the hash column keeps the params of the insert.
- A suggestion gets one verdict and keeps it, though jobs save rows they read as
  pending; a promoted domain becomes a competitor unless a call fails, the label is
  blank or it is removed again; the tally may lose hits but makes none up.
- A schedule survives its deleted prompt only if the listener or an execution was at work
  on it during the delete; it then pays for one answer at most and, whatever failed,
  stops by itself.
- Rows and events of linked entities agree over overlapping windows, jobs and failures; for the days
  that only runs after the day of the linking cover, a window of n days makes up for n - 1 failed runs; a removed entity gets rows only
  from a job that was past its check.
- The alerts of a keyword alternate and tell where it ranks, and a site of the snapshot of the day ranks
  where the snapshot has it or above, except after jobs that overlapped or broke off on it. The converse
  is not claimed: a feature, a subdomain or a link below rank 30 ranks a site that has no row.
- What an add reports as done stays and a project keeps its
  portfolio, except where two calls on the same project or portfolio overlapped.
- Neither races for a slug or an email nor failures leave a member without an owner, two
  accounts of one email or two roles of one member; only a failure in the middle of a registration leaves
  an organization nobody can enter.
- A job resolves the best credential there was when it asked.

### Disagreements the runs show

1. **`double_charge`**: comments on the processor, on `RawPayload` and the README
   promise that duplicate ticks are coalesced; lookup and store are separate
   awaits, so two slots that miss together both call and both bill.
2. **`serp_replay`**: a second definition of a SERP query is served from the
   cache, but its endpoint has no router entry and the cache-hit branch lacks
   the inline fan-out: the run succeeds and records nothing.
3. **`reconcile_gap`**: "no window where an enabled definition is left
   unscheduled"; there is one for what is created or enabled while the script runs.
4. **`locale_collision`**: "different locales + providers don't collide despite
   sharing the key"; the idempotency check only looks at the key.
5. **`shared_domain`**: a domain that is "already in ANOTHER project of the same org" is
   said to be refused by "the cross-project unique constraint" at save time, if not by the lookup before;
   the schema has none: the domains of a project are unique in that project, and only primary domains
   in the organization. Two adds that both find no owner are both saved.
6. **`relink`**: an article "previously linked and unlinked" can be linked again,
   say use case and aggregate; the unlinked row keeps its place in the unique index
   and the insert is refused.

### Bounds

Two slots, two runs and two definitions of the same request are the least with
which executions race, hit each other's payload and write each other's row; a
third run repeats what two show, as runs touch only through the
payload and the definition. Two days are what it takes for midnight to fall inside an execution.
One fault anywhere covers every single failure and every crash with its
redelivery; combinations are the proofs' business, which hold for any number.
In `ScheduleLifecycle`, one call of each kind overlaps every other at every
await, and with the script; two crons tell a stale scheduler from a fresh one; a
second definition is needed for the unique index and for schedulers keyed
wrongly. In `CompetitorSuggestions` one job creates the row and two then overlap,
and one promote and one dismiss conflict.
In `BrandPrompts` one call of each kind overlaps a delete; two prompts of one text are what the unique
index needs (the one that is deleted is called the first, `FirstIsDeleted`), two executions what a triggered run beside a tick
needs. A second delete would not add races but, with a resume that brings a prompt back, a second
life of its definitions, for which `wasted` starts again; the proofs are for any number of deletes.
In `LinkedEntities` a window of two days and four days let a day be fetched twice,
be missed, and leave the window; two links of one key race and follow each other. In
`RankTracking` three answers make an alternation fail; 10, 30 and 201 (not ranked) are
the last position of the first page, the last of the snapshot and none, and items of the site, of a
subdomain of it and of another host can be at either. A query of two keywords takes one answer less, and
the last answer comes when the jobs of the others are done (`Bounded`). In `ProjectCatalog` of the two adds and two portfolio calls any
three overlap (`MaxCalls`), and of three keywords any two are tracked (`MaxTracking`). `InOrder` leaves
out behaviours that are others with names exchanged. `MaxDay`, `MaxFaults`, `MaxTriggers`, `LastDay`, `MaxRunNows`, `MaxLinkFaults`, `LastTime`, `MaxRankFaults`, `MaxIdFaults`, `MaxSuggestionFaults`, `LastMoment`, `MaxCalls`, `MaxTracking`, `RunIds` and the sets of tasks and calls are the only bounds;
run ids are never reused and tasks are one-shot, so the models stop when they are
used up, and the configurations set `CHECK_DEADLOCK FALSE` for that reason alone. Symmetry is
used in the runs without liveness only.

### Fairness

- `ProviderFetch`: `WF_vars(Handle(w))` for each slot. Every call an execution awaits
  settles: the upstream one has a 60 s abort signal, the others are database
  calls that answer or reject. No job, tick, day, operator or fault has to come.
- `ScheduleLifecycle`: `WF_vars(Continue(t))` for a call that has begun, for the
  same reason, and `WF_vars(Reconcile)`, since every deploy runs the script
  (`.github/workflows/release.yml` 107-114). No request has to arrive. The
  liveness property therefore reads "after the requests stop, the next deploy
  that nothing overlaps repairs everything", and not that repair is prompt.
- `CompetitorSuggestions`: `WF_vars(Conclude(t))`, an operator's call that has read the
  suggestion goes on. Jobs and requests need not come. `serp_live` assumes this and the
  fairness of `ProviderFetch`; in the area a behaviour is not about, none of these steps is enabled.
- `BrandPrompts`: weak fairness for calls and listeners that have begun and for each execution,
  as above; strong fairness for `Tick(e, d)` over the executions, since a job scheduler
  adds a job at every tick and slots become free, and for the provider's answering (`Fetch`)
  calls of one definition: one that fails for ever never finds out that its prompt is
  gone, and never costs anything either. No request has to arrive.

## 5. What is proved

For any sets of definitions, requests, run ids, operators and tasks, any finite
set of slots, of jobs and of keywords, and any number of calls, days and faults. The assumptions are those named in the
modules: `None` differs from every value it stands beside
(`NoneAssumption`), `Routed` is a subset of the requests, slots are finitely many (`FiniteAssumption`), the
bounds are naturals (`BoundAssumption`), tasks of different kinds differ (`TasksAssumption`), the two
flags are Booleans (`KeyAssumption`), `NoLink` and the states of a removal are no
links (`NoLinkAssumption`), jobs are finitely many (`JobsAssumption`: slots of a worker), domains and locations differ (`EntriesAssumption`), ranks are
within 1 to 200 (`RankAssumption`), a site is its own host (`HostAssumption`), and the like; none of them bounds a size.

**ProviderFetchProofs**: `TypeCorrect`, `AnswerCorrect`, `FreshSuccessBilled`,
`FreshSuccessIngested`. The properties speak of run rows, which are only written by
`SaveRun`, long after the steps that make them true; the inductive invariant
`IInv` therefore says of every slot, at each `pc`, what it has done so far
(`Sound`: past `store` its payload is in the table under its hash; past `bill` its run
is billed; holding a fresh success, ingested too) and of every row what the slot
handed over (`RunsSound`). It survives crashes and two executions of one run id because payloads,
`billed` and `ingested` only grow.

Without faults more holds, and `faults = 0` is the hypothesis of what follows rather than
an assumption on `MaxFaults`: the theorems are about every behaviour up to its first fault.
`DeliveredOnce`: a run is not issued, waits in one job, is held by one execution or
has ended (`OneDelivery`; `FirstTry` says what the execution that holds it can rely on).
`CacheHitFree` and `ContractKept` (`ContractSpec`, step by step) follow: a second execution of one run
could bill what the first marks as a hit, or end what has ended. `RunsHeld`: a running row
is held by an execution past `StartRun` (`Held`: a row's definition exists and is the one of the
job, so that `SaveRun` is refused only for a run that was deleted). `ExecutionsEnd` holds with faults: every
step leaves an execution where it is or with fewer `StepsLeft`.

**ProviderFetchBillingProofs**: `BilledPerSlot`, `LedgerCovered`. `BInv` counts: before a payload is
stored under a hash nothing is charged for it; charges plus slots that
missed and have yet to bill never exceed the slots (`RoomToCharge`); and up to a day the entries, with the
answered calls yet to bill while that day has not passed, never exceed the calls (`CallsCovered`): an entry is
written on the day of its call or later, never before. Once the payload is stored no slot can
join the second of these counts, which is why the bound does not grow with the number of executions. The finite-set
lemmas turn "slot w changed its step" into changes of cardinality. `OneSlotChargesOnce`: with
one slot the promise `double_charge` refutes for two holds.

**ScheduleLifecycleProofs**: `TypeCorrect`, `EnabledScheduled`,
`DeletedUnscheduled`, `LinkScheduledOnce`. The invariant is per definition
(`Sound(d)`): one that is not suspect has at most one task at it, and row and
scheduler are as that task's next step needs them (`Trusted`, `Fits`); one the
script has had to itself is as far as the script has come (`Restored`, with
`Split` saying that the script registers only what it read and drops only what it
did not). Both halves are needed: the script's end clears suspicion, so
what it leaves must be proved sound from `Restored` alone. `LinkScheduledOnce`
assumes `Deletes = {}` and shows that `hash` always equals `origin`, which the unique index keeps apart.
Two theorems say how far findings reach: `ScriptLosesOnlyRaces`, that no step of the script
takes a valid scheduler from a definition it has to itself (from `Restored` and `Split`: what it
drops it did not read as enabled), and `OneVariantNeverCollides`, that a collision needs an endpoint
whose schedules carry the key and an entity with two of them (`OriginInv`: whatever is saved or worked on was
scheduled once, also what was deleted). `OneRunRestores`: when the script has dropped the last stale
scheduler, those of all it had to itself are as their rows ask.

**CompetitorSuggestionsProofs**: `TypeCorrect`, `TallyEarned`, and
`LifecycleImplemented`, that every behaviour of `CompetitorSuggestions` is one of
`SuggestionLifecycle`. The invariant says what each call may rely on about the row it
holds (`HitSound`, `OperatorSound`): a pending row of a job claims at most one hit
more than was saved; one that is not pending will be refused, since the table's
has its verdict too; a job whose own id is in the table is done; and a
promote about to create is a winner of a promoted suggestion. Finiteness of jobs and keywords
(`TallyAssumption`) is what the counting needs. `PromotionsAwait`: the promote whose verdict was saved
is at `create` until the domain is a competitor, or was refused, or it failed.

**BrandPromptsProofs**: `TypesCorrect`, `CascadeComplete`. `PromptInv` follows a delete: a definition
that was not raced is known to it. Before it lists the schedules nobody else is at work on the
prompt's; those it listed are all there are; once it removes the prompt none is left, and
none can come back, since only a listener or an execution inserts and neither has it. A resume that brings
the prompt back makes the claim void, not false, until the next delete.
`NoSecondWastedCall` adds `WasteInv`: after a first answer was paid for, whoever holds the definition has yet
to look the prompt up, and will disable it, or has, and with nobody at it it is not enabled (`HasPaid`); for
the listener cannot enable it again, since a prompt is fanned out before any of its definitions exists
(`FanOutFirst`). `QuietForGood`: an orphan nobody works on and that is not enabled stays so.

**LinkedEntitiesProofs**: `LinksTypesCorrect`, `LateRowsRace`, `NoOrphanRows`. `LinksInv` says that a job
past its lookup holds an entity that is active or on record as removed under it, and
that only entities in the table have rows. `EventsCountOnce`: the stored days of an entity
are split into those that are settled, as many as were counted or lost, and, disjoint from these and from each
other, a share for every job, as large as what the job inserted (`RowsAccounted`); the shares are sets, a
function of the job, so that no sum over jobs is needed. `GapsHealed`: as long as a day of an active entity is
missing, the daily runs whose answers covered it are at most the failures plus the jobs at work that carry it
(`RunsAccounted`, with `HistoryInv` about what was linked, ticked and stopped); with fewer failures than runs
and nobody at work, it is there.
A run counts from the day after the linking, when the definition was due.
`PagesRelinkAlways`: the promise `relink` refutes holds for kinds whose removal deletes the row.

**CatalogProofs**: `ProjectTypesCorrect`, `AddsStayForGood`, `SharingIsARace`, `DetachingIsARace`.
`ProjectInv` says of every call what it has read so far: unless two calls were adding to its project,
it is still all there, and holds everything accepted (`AddSound`); about to add a
domain, no other project has it, but as a primary one (`Unowned`); two calls of one project or domain are on
record (`OneAtATime`), which is what makes the exceptions of the properties as small as
they are. `SharingIsARace` says how far the finding of `shared_domain` reaches: but for primary domains, which a
creation does not look for among the attached ones, only overlapping adds share a domain. And `RankTypesCorrect`, `NoAlertTwice`, `LastAlertTells`: `RankInv`
follows an undisturbed keyword through the one job that has it: the position it read
is still the latest when the new one is saved (`JobSound`), which is
later than all before; after the alerts, the last of them tells of it (`KeywordSound`).
`SnapshotAgrees`: by `AgreeInv`, a job at work has listed a keyword of every site that has an undisturbed one (`Covers`); the
keywords it is done with have its answer as their latest observation (`Told`), which is not below the row of
their site (`Fits`: every row is an item the rankings look at as well, `ExtractionFacts`, and the first of
them is the best, `BestIs`), and none is left when it
overwrites the snapshot (`Through`). So a site in nobody's hands ranks where its row is or above (`SiteAgrees`).

**AccessProofs**: `CredentialTypesCorrect`, `ResolutionFindsBest`: of the rows that were usable when it
asked, those a resolution has looked at are no better than the one chosen, and the rest
are still to be looked at. `IdentityTypesCorrect`, `OwnersFirst`, `EmptyOnlyByFailure`: an organization
in the table has its registration at the last save, or its owner's membership, or the failure on record.

**Only model-checked**: the four liveness properties, `RunsFinish`, `EventuallyScheduled`,
`PromotedIsTracked` and `OrphansGoQuiet`: fairness is about `ENABLED`, which the prover does not reason about.
What does not rest on fairness is proved of each. A running row is held, and the
execution that holds it never goes back (`RunsHeld`, `ExecutionsEnd`); an undisturbed run of the script puts
all in order, and it stays in order unless calls overlap or fail (`OneRunRestores`,
`EnabledScheduled`); the call that promoted is about to create the competitor
(`PromotionsAwait`); what was stopped never runs again (`QuietForGood`). Left to TLC is that the steps these
speak of are taken. The properties of the six finding runs are false of the code; `OneSlotChargesOnce`,
`ScriptLosesOnlyRaces`, `OneVariantNeverCollides`, `SharingIsARace`, `PagesRelinkAlways` and `FreshSuccessIngested` say where they
still hold.

## 6. Limits

- `RunsFinish` is not claimed under faults: when the row cannot be saved after
  `run.complete`, the catch block's `run.fail` refuses and the row stays running
  (listed as a hazard).
- `OneSchedulePerLink` does not hold with deletes: a patch or an execution that
  read a row before it was deleted inserts it again, and it may then carry another hash.
- `FreshSuccessIsBilled` is about runs. A call can go unbilled when the worker
  dies between storing and billing: the next execution hits the cache.
- One project and endpoint in `ScheduleLifecycle`: definitions of others share
  neither key, hash nor scheduler with it. The script's dry run is left out.
- `BrandPrompts` has one locale per provider, and the exceptions of `OrphansAreRaces` are the
  code's, not the model's: a delete takes no lock against the listener or the worker.
- `LinkedEntities`: a day ends only when every definition that was due was executed, so that
  `WindowHealsGaps` is about failed runs, not about a worker that is down for days. A day that only a run on
  the day of the linking would have covered is not claimed: after the hour of the cron there is none.
- `RankTracking`: the ranks of an answer rise along its items and no two items share one, which the
  code relies on when it takes the first item of a site for the best.
- `CredentialResolution`: a credential that expires between the resolution and the call is
  still used, in the model as in the code. The worker passes no domain or portfolio
  as a hint, so that credentials of those scopes are never picked.
- Not modelled: the rate limiter, the vault's cryptography, API tokens and authentication (rows that are
  checked, inserted and read, and that nobody changes), removing locations, archiving projects, keyword
  lists and their import, the ingests of competitor pages and ranked keywords (inserts that ignore duplicates).
- Most of the repository's lines are outside the reach of a model of this kind and are not mapped: the web
  UI and its translations, the OpenAPI document and the SDK, controllers and composition
  roots, provider clients and the parsers of their responses, and the queries behind the reports, which read
  and compute and change no state.
