--------------------------- MODULE LinkedEntities ---------------------------
(***************************************************************************)
(* Linked entities: the GSC, GA4 and Bing properties, Wikipedia articles,  *)
(* Meta pixels and ad accounts, Clarity projects, monitored domains and    *)
(* tracked pages of a project.  Operators link and remove them; the worker *)
(* fetches each once a day and ingests the rows of a window of past days,  *)
(* which overlaps the window of the day before.  The kinds share one shape *)
(* and differ in the traits below; a behaviour is about entities of one.   *)
(***************************************************************************)
EXTENDS Naturals, FiniteSets

CONSTANTS
    Links,         \* ids of entities of one project, each generated by the call
                   \* that links it, which goes by the same name
    KeyOf,         \* the natural key of each: its site, handle, slug or URL
    Kinds,         \* the kinds looked at
    Removals,      \* calls that unlink or untrack
    Jobs,          \* workers' slots
    Window,        \* days of a rolling window
    LastDay,       \* bound: the days looked at
    MaxRunNows,    \* bound: runs that operators trigger
    MaxLinkFaults, \* bound: failures of a job
    NoLink

Days == 1 .. LastDay

ASSUME NoLinkAssumption == Links \cap {NoLink, "ready", "done"} = {}
ASSUME KeyAssumption == DOMAIN KeyOf = Links
ASSUME JobsAssumption == IsFiniteSet(Jobs)
ASSUME DaysAssumption ==
    Window \in Nat \ {0} /\ LastDay \in Nat \ {0} /\ MaxRunNows \in Nat /\ MaxLinkFaults \in Nat

\* The traits of a kind: whether a removal keeps the row, whether the rows of an
\* answer are saved by one statement, how many days an answer covers and how old
\* the latest of them is.
Trait == [keeps : BOOLEAN, atOnce : BOOLEAN, span : Nat \ {0}, lag : Nat]

\* A rolling window ends the day before, or two days before: one day stands for
\* both.
Rolling == [keeps |-> TRUE, atOnce |-> TRUE, span |-> Window, lag |-> 1]
Snapshot == [keeps |-> TRUE, atOnce |-> TRUE, span |-> 1, lag |-> 0]

\* Search-console rows come by the thousands and are inserted in batches, each
\* a statement of its own.
GscProperty == [Rolling EXCEPT !.atOnce = FALSE]
Ga4Property == Rolling
BingProperty == Rolling
WikipediaArticle == Rolling
MetaPixel == Rolling
MetaAdAccount == Rolling
ClarityProject == Snapshot
MonitoredDomain == Snapshot

\* Tracked pages are deleted, with their snapshots.
TrackedPage == [Snapshot EXCEPT !.keeps = FALSE]

AllKinds == {GscProperty, Ga4Property, BingProperty, WikipediaArticle, MetaPixel,
             MetaAdAccount, ClarityProject, MonitoredDomain, TrackedPage}

ASSUME KindsAssumption == Kinds \subseteq AllKinds

VARIABLES
    kind,       \* the kind a behaviour is about
    entity,     \* its table, by id
    linking,    \* the calls that link
    removing,   \* the calls that remove, with the entity each has read
    job,        \* the worker
    rows,       \* the observation table: the days stored of each entity
    counted,    \* history: sum of the row counts of an entity's ingested events
    lost,       \* history: rows stored whose event a failure lost
    late,       \* history: entities that got a row after their removal
    overlapped, \* history: entities removed under a job that had looked them up
    stopped,    \* definitions the worker disabled: the entity was not found
    ticked,     \* definitions that were executed today
    since,      \* the day an entity was linked
    today,
    runNows,    \* runs triggered so far
    linkFaults  \* failures so far

tables == <<entity, rows>>
calls == <<linking, removing>>
records == <<counted, lost, late, overlapped>>
linkVars == <<kind, entity, linking, removing, job, rows, counted, lost, late,
              overlapped, stopped, ticked, since, today, runNows, linkFaults>>

\* A job holds the days it has yet to store and the number of rows it inserted.
IdleJob == [pc |-> "idle", link |-> NoLink, todo |-> {}, inserted |-> 0]
Job == [pc : {"idle", "look", "save", "publish"}, link : Links \cup {NoLink},
        todo : SUBSET Days, inserted : 0 .. LastDay]

Active(l) == entity[l] = "active"
Listed(l) == entity[l] # "absent"
Ingesting(l) == \E j \in Jobs : job[j].link = l /\ job[j].pc \in {"save", "publish"}

-----------------------------------------------------------------------------
\* Linking.

\* The row of the key is looked up and an active one refused: an id is generated.
LookUpKey(l) ==
    /\ linking[l] = "ready"
    /\ \A k \in Links : KeyOf[k] = KeyOf[l] => ~Active(k)
    /\ linking' = [linking EXCEPT ![l] = "insert"]
    /\ UNCHANGED <<kind, tables, removing, job, records, stopped, ticked, since, today,
                   runNows, linkFaults>>

\* Mutant of KeyTaken: no unique index on the key.
KeyFree(l) == FALSE

\* The unique index on the key holds for removed entities that keep their row.
KeyTaken(l) == \E k \in Links : KeyOf[k] = KeyOf[l] /\ Listed(k)

\* The row is inserted (and its definition scheduled, see ScheduleLifecycle) or
\* the call refused.
InsertLink(l) ==
    /\ linking[l] = "insert"
    /\ IF KeyTaken(l)
       THEN /\ linking' = [linking EXCEPT ![l] = "refused"]
            /\ UNCHANGED <<entity, since>>
       ELSE /\ linking' = [linking EXCEPT ![l] = "linked"]
            /\ entity' = [entity EXCEPT ![l] = "active"]
            /\ since' = [since EXCEPT ![l] = today]
    /\ UNCHANGED <<kind, rows, removing, job, records, stopped, ticked, today, runNows, linkFaults>>

-----------------------------------------------------------------------------
\* Removing.  The schedules stay.

ReadEntity(c, l) ==
    /\ removing[c] = "ready"
    /\ Active(l)
    /\ removing' = [removing EXCEPT ![c] = l]
    /\ UNCHANGED <<kind, tables, linking, job, records, stopped, ticked, since, today, runNows,
                   linkFaults>>

Removed == IF kind.keeps THEN "unlinked" ELSE "absent"

\* The row is stamped, or deleted and the rows that refer to it with it.
Remove(c) ==
    LET l == removing[c]
    IN /\ l \in Links
       /\ removing' = [removing EXCEPT ![c] = "done"]
       /\ entity' = [entity EXCEPT ![l] = IF Listed(l) THEN Removed ELSE @]
       /\ rows' = IF kind.keeps THEN rows ELSE [rows EXCEPT ![l] = {}]
       /\ overlapped' = IF Ingesting(l) THEN overlapped \cup {l} ELSE overlapped
       /\ UNCHANGED <<kind, linking, job, counted, lost, late, stopped, ticked, since, today,
                      runNows, linkFaults>>

-----------------------------------------------------------------------------
\* The worker.

\* A definition exists for every entity that was linked, until the worker
\* disables it.
Scheduled(l) == linking[l] = "linked" /\ l \notin stopped

\* The daily run.
DailyRun(j, l) ==
    /\ job[j].pc = "idle"
    /\ Scheduled(l)
    /\ l \notin ticked
    /\ ticked' = ticked \cup {l}
    /\ job' = [job EXCEPT ![j] = [IdleJob EXCEPT !.pc = "look", !.link = l]]
    /\ UNCHANGED <<kind, tables, calls, records, stopped, since, today, runNows, linkFaults>>

\* A run an operator triggers.
RunNow(j, l) ==
    /\ job[j].pc = "idle"
    /\ Scheduled(l)
    /\ runNows < MaxRunNows
    /\ runNows' = runNows + 1
    /\ job' = [job EXCEPT ![j] = [IdleJob EXCEPT !.pc = "look", !.link = l]]
    /\ UNCHANGED <<kind, tables, calls, records, stopped, ticked, since, today, linkFaults>>

\* Mutant of Answered: only the latest day is asked for.
LatestDay == {d \in Days : d + kind.lag = today}

\* The days an answer of today covers.
Answered == {d \in Days : d + kind.lag <= today /\ today < d + kind.lag + kind.span}

\* Mutant of Admitted: an entity that is found is not asked whether it is active.
AdmittedIfFound(l) == Listed(l)

Admitted(l) == Active(l)

\* The entity is looked up with the answer at hand: not found, the definition is
\* disabled; removed, nothing is ingested.
LookUpEntity(j) ==
    LET l == job[j].link
    IN /\ job[j].pc = "look"
       /\ job' = [job EXCEPT ![j] =
                     IF Admitted(l) /\ Answered # {}
                     THEN [@ EXCEPT !.pc = "save", !.todo = Answered] ELSE IdleJob]
       /\ stopped' = IF Listed(l) \/ Answered = {} THEN stopped ELSE stopped \cup {l}
       /\ UNCHANGED <<kind, tables, calls, records, ticked, since, today, runNows, linkFaults>>

\* Mutant of NewRows: rows that are there already count.
AllRows(l, batch) == batch

\* An insert does nothing for the days that are there.
NewRows(l, batch) == batch \ rows[l]

\* Mutant of RefersToRow: no foreign key.
RefersToAnything(l) == TRUE

\* The foreign key of the observations.
RefersToRow(l) == Listed(l)

\* One statement inserts a batch of rows.  It throws if the entity is gone.
Batch(j) == IF kind.atOnce THEN {job[j].todo} ELSE {{d} : d \in job[j].todo}

SaveRows(j) ==
    LET l == job[j].link
    IN /\ job[j].pc = "save"
       /\ \E batch \in Batch(j) :
             IF RefersToRow(l)
             THEN /\ rows' = [rows EXCEPT ![l] = @ \cup batch]
                  /\ late' = IF Active(l) \/ batch \subseteq rows[l] THEN late ELSE late \cup {l}
                  /\ job' = [job EXCEPT ![j] =
                                [@ EXCEPT !.pc = IF batch = job[j].todo THEN "publish" ELSE "save",
                                          !.todo = job[j].todo \ batch,
                                          !.inserted = job[j].inserted + Cardinality(NewRows(l, batch))]]
             ELSE /\ job' = [job EXCEPT ![j] = IdleJob]
                  /\ UNCHANGED <<rows, late>>
       /\ UNCHANGED <<kind, entity, calls, counted, lost, overlapped, stopped, ticked, since,
                      today, runNows, linkFaults>>

\* One event counts the rows; an event that would count none is not told from no
\* event.
PublishIngested(j) ==
    LET l == job[j].link
    IN /\ job[j].pc = "publish"
       /\ counted' = [counted EXCEPT ![l] = @ + job[j].inserted]
       /\ job' = [job EXCEPT ![j] = IdleJob]
       /\ UNCHANGED <<kind, tables, calls, lost, late, overlapped, stopped, ticked, since,
                      today, runNows, linkFaults>>

\* The provider refuses the call, the database a statement, or the worker dies.
JobFails(j) ==
    LET l == job[j].link
    IN /\ linkFaults < MaxLinkFaults
       /\ job[j].pc # "idle"
       /\ linkFaults' = linkFaults + 1
       /\ lost' = [lost EXCEPT ![l] = @ + job[j].inserted]
       /\ job' = [job EXCEPT ![j] = IdleJob]
       /\ UNCHANGED <<kind, tables, calls, counted, late, overlapped, stopped, ticked, since,
                      today, runNows>>

\* The scheduler is a cron pattern of the early morning: a definition that was
\* registered today runs today or, registered after that hour, tomorrow first.
Due(l) == Scheduled(l) /\ since[l] < today

\* The day ends when every definition that was due has got its answer of the day;
\* what a job has fetched may be stored later.
NextMorning ==
    /\ today < LastDay
    /\ \A l \in Links : Due(l) => l \in ticked
    /\ \A j \in Jobs : job[j].pc # "look"
    /\ today' = today + 1
    /\ ticked' = {}
    /\ UNCHANGED <<kind, tables, calls, job, records, stopped, since, runNows, linkFaults>>

-----------------------------------------------------------------------------
LinksInit ==
    /\ kind \in Kinds
    /\ entity = [l \in Links |-> "absent"]
    /\ linking = [l \in Links |-> "ready"]
    /\ removing = [c \in Removals |-> "ready"]
    /\ job = [j \in Jobs |-> IdleJob]
    /\ rows = [l \in Links |-> {}]
    /\ counted = [l \in Links |-> 0]
    /\ lost = [l \in Links |-> 0]
    /\ late = {}
    /\ overlapped = {}
    /\ stopped = {}
    /\ ticked = {}
    /\ since = [l \in Links |-> 0]
    /\ today = 1
    /\ runNows = 0
    /\ linkFaults = 0

LinksNext ==
    \/ \E l \in Links : LookUpKey(l) \/ InsertLink(l)
    \/ \E c \in Removals : Remove(c) \/ \E l \in Links : ReadEntity(c, l)
    \/ \E j \in Jobs :
          \/ \E l \in Links : DailyRun(j, l) \/ RunNow(j, l)
          \/ LookUpEntity(j) \/ SaveRows(j) \/ PublishIngested(j) \/ JobFails(j)
    \/ NextMorning

LinksSpec == LinksInit /\ [][LinksNext]_linkVars

-----------------------------------------------------------------------------
\* Link calls look their key up before they insert: however they overlap with
\* each other and with removals, one active entity has the key.
OneLinkPerKey ==
    \A k, l \in Links : Active(k) /\ Active(l) /\ KeyOf[k] = KeyOf[l] => k = l

LinksTypeOK ==
    /\ kind \in Kinds
    /\ entity \in [Links -> {"absent", "active"} \cup (IF kind.keeps THEN {"unlinked"} ELSE {})]
    /\ linking \in [Links -> {"ready", "insert", "refused", "linked"}]
    /\ removing \in [Removals -> Links \cup {"ready", "done"}]
    /\ job \in [Jobs -> Job]
    /\ rows \in [Links -> SUBSET Days]
    /\ counted \in [Links -> Nat]
    /\ lost \in [Links -> Nat]
    /\ late \subseteq Links
    /\ overlapped \subseteq Links
    /\ stopped \subseteq Links
    /\ ticked \subseteq Links
    /\ since \in [Links -> 0 .. LastDay]
    /\ today \in 1 .. LastDay
    /\ runNows \in 0 .. MaxRunNows
    /\ linkFaults \in 0 .. MaxLinkFaults
    /\ OneLinkPerKey

InFlight(l) == {j \in Jobs : job[j].link = l}

\* The windows of consecutive days overlap, and so do jobs: still, the events of
\* an entity count every stored row once ("rowsCount excludes idempotent
\* re-fetches"), but for what jobs at work or broken off have not published.
EventsCountRowsOnce ==
    \A l \in Links :
        Listed(l) /\ InFlight(l) = {} => counted[l] + lost[l] = Cardinality(rows[l])

\* Of the ingest ("no-op if the article was unlinked between scheduling and
\* fetch"): an entity gets rows after its removal only from a job that had
\* looked it up before.
LateRowsAreRaces == late \subseteq overlapped

\* Removing a page leaves none of its snapshots behind, even if a job stores
\* one at that moment.
DeletedLeavesNothing == \A l \in Links : ~Listed(l) => rows[l] = {}

\* A rolling window makes up for failed runs: a day that only runs after the day
\* of the linking cover is missing for good only if at least as many runs failed
\* as the window has days.
WindowHealsGaps ==
    \A l \in Links :
        Active(l) /\ linkFaults < kind.span /\ InFlight(l) = {} =>
            \A d \in Days :
                since[l] < d + kind.lag /\ d + kind.lag + kind.span <= today => d \in rows[l]

\* Of the Wikipedia link ("if it was previously linked and unlinked, this
\* creates a NEW aggregate"): a link is refused only while another of the key is
\* active.
RelinkCreatesLink ==
    [][\A l \in Links :
          linking'[l] = "refused" /\ linking[l] = "insert"
          => \E k \in Links : KeyOf[k] = KeyOf[l] /\ Active(k)]_linkVars
=============================================================================
