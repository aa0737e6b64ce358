------------------------ MODULE LinkedEntitiesProofs ------------------------
(***************************************************************************)
(* Proofs about linked entities: types, one active entity per key, what a  *)
(* removal that races with an ingest may leave behind, that the events     *)
(* count every row once, that rolling windows heal gaps, and which kinds   *)
(* can be linked again.                                                    *)
(***************************************************************************)
EXTENDS LinkedEntities, FiniteSetTheorems, TLAPS

\* A job that ingests found its entity active; it has inserted at most the days it is
\* done with.
JobSound(j) ==
    LET x == job[j]
    IN /\ x.pc # "idle" => x.link \in Links
       /\ x.pc = "look" => x.inserted = 0
       /\ x.inserted <= Cardinality(Days \ x.todo)
       /\ x.pc \in {"save", "publish"} => Active(x.link) \/ x.link \in overlapped

LinksInv ==
    /\ LinksTypeOK
    /\ LateRowsAreRaces
    /\ DeletedLeavesNothing
    /\ \A j \in Jobs : JobSound(j)

-----------------------------------------------------------------------------
LEMMA DaysFinite ==
    /\ IsFiniteSet(Days) /\ Cardinality(Days) = LastDay
    /\ \A D \in SUBSET Days : IsFiniteSet(D) /\ Cardinality(D) \in 0 .. LastDay
<1>1. IsFiniteSet(Days) /\ Cardinality(Days) = LastDay /\ LastDay \in Nat
    BY FS_Interval, DaysAssumption DEF Days
<1>2. \A D \in SUBSET Days : IsFiniteSet(D) /\ Cardinality(D) \in Nat /\ Cardinality(D) <= LastDay
    BY <1>1, FS_Subset, FS_CardinalityType
<1> QED BY <1>1, <1>2

\* A job that is done with a batch has inserted no more than it is done with.
LEMMA BatchDone ==
    ASSUME NEW todo \in SUBSET Days, NEW batch \in SUBSET todo, NEW new \in SUBSET batch,
           NEW n \in Nat, n <= Cardinality(Days \ todo)
    PROVE  /\ n + Cardinality(new) <= Cardinality(Days \ (todo \ batch))
           /\ n + Cardinality(new) \in 0 .. LastDay
<1> DEFINE old == Days \ todo
           all == Days \ (todo \ batch)
<1>1. /\ IsFiniteSet(old) /\ Cardinality(old) \in Nat
      /\ IsFiniteSet(batch) /\ Cardinality(batch) \in Nat
      /\ IsFiniteSet(new) /\ Cardinality(new) \in Nat
      /\ IsFiniteSet(all) /\ Cardinality(all) \in 0 .. LastDay
    BY DaysFinite, DaysAssumption
<1>2. all = old \cup batch /\ old \cap batch = {}
    OBVIOUS
<1> HIDE DEF old, all
<1>3. Cardinality(all) = Cardinality(old) + Cardinality(batch)
    <2>1. Cardinality(old \cup batch)
          = Cardinality(old) + Cardinality(batch) - Cardinality(old \cap batch)
        BY <1>1, FS_Union
    <2>2. Cardinality(old \cap batch) = 0
        BY <1>2, FS_EmptySet
    <2> QED BY <1>1, <1>2, <2>1, <2>2
<1>4. Cardinality(new) <= Cardinality(batch)
    BY <1>1, FS_Subset
<1>5. n + Cardinality(new) <= Cardinality(all) /\ n + Cardinality(new) \in Nat
    BY <1>1, <1>3, <1>4 DEF old
<1> QED BY <1>1, <1>5, DaysAssumption DEF all

LEMMA LinksInitially == LinksInit => LinksInv
<1> SUFFICES ASSUME LinksInit PROVE LinksInv
    OBVIOUS
<1>1. IdleJob \in Job /\ IdleJob.pc = "idle" /\ IdleJob.inserted = 0 /\ IdleJob.todo = {}
    BY DaysAssumption DEF IdleJob, Job
<1>2. LinksTypeOK
    <2>1. 1 \in 1 .. LastDay /\ 0 \in 0 .. LastDay
        BY DaysAssumption
    <2> QED BY <1>1, <2>1, DaysAssumption DEF LinksInit, LinksTypeOK, OneLinkPerKey, Active
<1>3. \A j \in Jobs : JobSound(j)
    BY <1>1, DaysFinite DEF LinksInit, JobSound
<1>4. LateRowsAreRaces /\ DeletedLeavesNothing
    BY DEF LinksInit, LateRowsAreRaces, DeletedLeavesNothing
<1> QED BY <1>2, <1>3, <1>4 DEF LinksInv

-----------------------------------------------------------------------------
\* The API.

\* A step that leaves the jobs alone and after which no entity that is ingested is
\* removed without note.
LEMMA JobsStay ==
    ASSUME LinksInv, LinksTypeOK', LateRowsAreRaces', DeletedLeavesNothing',
           job' = job, overlapped \subseteq overlapped',
           \A l \in Links : Active(l) /\ Ingesting(l) => Active(l)' \/ l \in overlapped'
    PROVE  LinksInv'
<1>1. ASSUME NEW j \in Jobs PROVE JobSound(j)'
    BY DEF LinksInv, JobSound, Ingesting
<1> QED BY <1>1 DEF LinksInv

\* Nothing of the tables, the jobs and the records changes.
LEMMA OnlyCalls ==
    ASSUME LinksInv, LinksTypeOK', UNCHANGED <<tables, job, records>>
    PROVE  LinksInv'
<1>1. LateRowsAreRaces' /\ DeletedLeavesNothing'
    BY DEF LinksInv, LateRowsAreRaces, DeletedLeavesNothing, Listed, tables, records
<1>2. job' = job /\ overlapped' = overlapped /\ entity' = entity
    BY DEF tables, records
<1>3. \A l \in Links : Active(l) => Active(l)'
    BY <1>2 DEF Active
<1> QED BY <1>1, <1>2, <1>3, JobsStay

LEMMA LookUpKeyStep ==
    ASSUME LinksInv, NEW l \in Links, LookUpKey(l)
    PROVE  LinksInv'
<1>1. LinksTypeOK'
    BY DEF LinksInv, LinksTypeOK, LookUpKey, tables, records, OneLinkPerKey, Active
<1> QED BY <1>1, OnlyCalls DEF LookUpKey

LEMMA ReadEntityStep ==
    ASSUME LinksInv, NEW c \in Removals, NEW l \in Links, ReadEntity(c, l)
    PROVE  LinksInv'
<1>1. LinksTypeOK'
    BY DEF LinksInv, LinksTypeOK, ReadEntity, tables, records, OneLinkPerKey, Active
<1> QED BY <1>1, OnlyCalls DEF ReadEntity

LEMMA NextMorningStep == ASSUME LinksInv, NextMorning PROVE LinksInv'
<1>1. today' \in 1 .. LastDay
    BY DaysAssumption DEF NextMorning, LinksInv, LinksTypeOK
<1>2. LinksTypeOK'
    BY <1>1 DEF LinksInv, LinksTypeOK, NextMorning, tables, calls, records, OneLinkPerKey, Active
<1> QED BY <1>2, OnlyCalls DEF NextMorning

LEMMA InsertLinkStep ==
    ASSUME LinksInv, NEW l \in Links, InsertLink(l)
    PROVE  LinksInv'
<1>1. /\ UNCHANGED <<kind, rows, removing, job, records, stopped, ticked, today, runNows, linkFaults>>
      /\ linking[l] = "insert"
    BY DEF InsertLink
<1>2. CASE KeyTaken(l)
    <2>1. linking' = [linking EXCEPT ![l] = "refused"] /\ UNCHANGED <<entity, since>>
        BY <1>2 DEF InsertLink
    <2>2. LinksTypeOK'
        BY <1>1, <2>1 DEF LinksInv, LinksTypeOK, records, OneLinkPerKey, Active
    <2> QED BY <1>1, <2>1, <2>2, OnlyCalls DEF tables
<1>3. CASE ~KeyTaken(l)
    <2>1. /\ linking' = [linking EXCEPT ![l] = "linked"]
          /\ entity' = [entity EXCEPT ![l] = "active"]
          /\ since' = [since EXCEPT ![l] = today]
        BY <1>3 DEF InsertLink
    <2>2. /\ DOMAIN entity' = Links /\ entity'[l] = "active"
          /\ \A k \in Links : k # l => entity'[k] = entity[k]
          /\ \A k \in Links :
                entity'[k] \in {"absent", "active"} \cup (IF kind.keeps THEN {"unlinked"} ELSE {})
          /\ entity' = [k \in Links |-> entity'[k]]
        BY <2>1 DEF LinksInv, LinksTypeOK
    <2>3. entity' \in [Links -> {"absent", "active"} \cup (IF kind'.keeps THEN {"unlinked"} ELSE {})]
        BY <1>1, <2>2
    <2>4. OneLinkPerKey'
        BY <1>3, <2>2 DEF LinksInv, LinksTypeOK, OneLinkPerKey, Active, Listed, KeyTaken
    <2>5. since' \in [Links -> 0 .. LastDay]
        <3>1. today \in 0 .. LastDay
            BY DaysAssumption DEF LinksInv, LinksTypeOK
        <3> QED BY <2>1, <3>1 DEF LinksInv, LinksTypeOK
    <2>6. linking' \in [Links -> {"ready", "insert", "refused", "linked"}]
        BY <2>1 DEF LinksInv, LinksTypeOK
    <2>7. LinksTypeOK'
        BY <1>1, <2>3, <2>4, <2>5, <2>6 DEF LinksInv, LinksTypeOK, records
    <2>8. LateRowsAreRaces' /\ DeletedLeavesNothing'
        BY <1>1, <2>2 DEF LinksInv, LateRowsAreRaces, DeletedLeavesNothing, Listed, records
    <2>9. \A k \in Links : Active(k) => Active(k)'
        BY <2>2 DEF Active
    <2> QED BY <1>1, <2>7, <2>8, <2>9, JobsStay DEF records
<1> QED BY <1>2, <1>3

LEMMA RemoveStep ==
    ASSUME LinksInv, NEW c \in Removals, Remove(c)
    PROVE  LinksInv'
<1>1. PICK l \in Links : l = removing[c]
    BY DEF Remove
<1>2. /\ UNCHANGED <<kind, linking, job, counted, lost, late, stopped, ticked, since, today,
                     runNows, linkFaults>>
      /\ removing' = [removing EXCEPT ![c] = "done"]
      /\ entity' = [entity EXCEPT ![l] = IF Listed(l) THEN Removed ELSE @]
      /\ rows' = IF kind.keeps THEN rows ELSE [rows EXCEPT ![l] = {}]
      /\ overlapped' = IF Ingesting(l) THEN overlapped \cup {l} ELSE overlapped
    BY <1>1 DEF Remove
<1>3. /\ entity' \in [Links -> {"absent", "active"} \cup (IF kind.keeps THEN {"unlinked"} ELSE {})]
      /\ \A k \in Links : k # l => entity'[k] = entity[k]
      /\ entity'[l] = IF Listed(l) THEN Removed ELSE entity[l]
    BY <1>2 DEF LinksInv, LinksTypeOK, Removed
<1>4. Removed # "active"
    BY DEF Removed
<1>5. OneLinkPerKey'
    BY <1>3, <1>4 DEF LinksInv, LinksTypeOK, OneLinkPerKey, Active
<1>6. rows' \in [Links -> SUBSET Days]
    BY <1>2 DEF LinksInv, LinksTypeOK
<1>7. /\ removing' \in [Removals -> Links \cup {"ready", "done"}]
      /\ overlapped' \subseteq Links /\ overlapped \subseteq overlapped'
    BY <1>2 DEF LinksInv, LinksTypeOK
<1>8. LinksTypeOK'
    BY <1>2, <1>3, <1>5, <1>6, <1>7 DEF LinksInv, LinksTypeOK
<1>9. LateRowsAreRaces'
    BY <1>2, <1>7 DEF LinksInv, LateRowsAreRaces
<1>10. DeletedLeavesNothing'
    <2>1. CASE kind.keeps
        <3>1. \A k \in Links : ~Listed(k)' => ~Listed(k)
            BY <1>3, <2>1 DEF Listed, Removed
        <3> QED BY <1>2, <2>1, <3>1 DEF LinksInv, DeletedLeavesNothing
    <2>2. CASE ~kind.keeps
        <3>1. \A k \in Links : ~Listed(k)' => ~Listed(k) \/ k = l
            BY <1>3 DEF Listed
        <3>2. \A k \in Links : rows'[k] = IF k = l THEN {} ELSE rows[k]
            BY <1>2, <2>2 DEF LinksInv, LinksTypeOK
        <3> QED BY <3>1, <3>2 DEF LinksInv, DeletedLeavesNothing
    <2> QED BY <2>1, <2>2
<1>11. \A k \in Links : Active(k) /\ Ingesting(k) => Active(k)' \/ k \in overlapped'
    BY <1>2, <1>3 DEF Active
<1> QED BY <1>2, <1>7, <1>8, <1>9, <1>10, <1>11, JobsStay

-----------------------------------------------------------------------------
\* The worker.

\* A job moves on and no entity changes.
LEMMA JobMoves ==
    ASSUME LinksInv, NEW j \in Jobs, NEW y \in Job, job' = [job EXCEPT ![j] = y],
           UNCHANGED <<kind, entity, calls, overlapped, since, today>>,
           rows' \in [Links -> SUBSET Days],
           counted' \in [Links -> Nat], lost' \in [Links -> Nat],
           late' \subseteq Links, stopped' \subseteq Links, ticked' \subseteq Links,
           runNows' \in 0 .. MaxRunNows, linkFaults' \in 0 .. MaxLinkFaults,
           LateRowsAreRaces', DeletedLeavesNothing',
           y.pc # "idle" => y.link \in Links,
           y.pc = "look" => y.inserted = 0,
           y.inserted <= Cardinality(Days \ y.todo),
           y.pc \in {"save", "publish"} => Active(y.link) \/ y.link \in overlapped
    PROVE  LinksInv'
<1>1. /\ job' \in [Jobs -> Job] /\ job'[j] = y
      /\ \A i \in Jobs : i # j => job'[i] = job[i]
    BY DEF LinksInv, LinksTypeOK
<1>2. LinksTypeOK'
    BY <1>1 DEF LinksInv, LinksTypeOK, calls, OneLinkPerKey, Active
<1>3. ASSUME NEW i \in Jobs PROVE JobSound(i)'
    <2>1. CASE i = j
        BY <1>1, <2>1 DEF JobSound, Active
    <2>2. CASE i # j
        BY <1>1, <2>2 DEF LinksInv, JobSound, Active
    <2> QED BY <2>1, <2>2
<1> QED BY <1>2, <1>3 DEF LinksInv

LEMMA JobTypes ==
    ASSUME LinksInv, NEW j \in Jobs
    PROVE  /\ job[j] \in Job /\ job[j].inserted \in 0 .. LastDay /\ job[j].todo \subseteq Days
           /\ rows \in [Links -> SUBSET Days]
           /\ counted \in [Links -> Nat] /\ lost \in [Links -> Nat]
           /\ late \subseteq Links /\ stopped \subseteq Links /\ ticked \subseteq Links
           /\ runNows \in 0 .. MaxRunNows /\ linkFaults \in 0 .. MaxLinkFaults
           /\ JobSound(j) /\ LateRowsAreRaces /\ DeletedLeavesNothing
           /\ IdleJob \in Job /\ IdleJob.pc = "idle" /\ IdleJob.inserted = 0 /\ IdleJob.todo = {}
           /\ IdleJob.inserted <= Cardinality(Days \ IdleJob.todo)
<1>1. IdleJob \in Job /\ IdleJob.pc = "idle" /\ IdleJob.inserted = 0 /\ IdleJob.todo = {}
    BY DaysAssumption DEF IdleJob, Job
<1>2. 0 <= Cardinality(Days \ {})
    BY DaysFinite
<1> QED BY <1>1, <1>2 DEF LinksInv, LinksTypeOK, Job

\* Adding to a sum.
LEMMA SumTypes ==
    ASSUME NEW f \in [Links -> Nat], NEW l, NEW n \in Nat
    PROVE  [f EXCEPT ![l] = @ + n] \in [Links -> Nat]
<1>1. \A k \in Links : f[k] \in Nat /\ f[k] + n \in Nat
    OBVIOUS
<1> QED BY <1>1

\* The tables and the records stay: so do the two facts about them.
LEMMA RowsStay ==
    ASSUME LinksInv, UNCHANGED <<entity, rows, late, overlapped>>
    PROVE  LateRowsAreRaces' /\ DeletedLeavesNothing'
BY DEF LinksInv, LateRowsAreRaces, DeletedLeavesNothing, Listed

\* A run, daily or triggered.
LEMMA RunStep ==
    ASSUME LinksInv, NEW j \in Jobs, NEW l \in Links, DailyRun(j, l) \/ RunNow(j, l)
    PROVE  LinksInv'
<1> DEFINE y == [IdleJob EXCEPT !.pc = "look", !.link = l]
<1>1. /\ job' = [job EXCEPT ![j] = y]
      /\ UNCHANGED <<kind, entity, rows, calls, records, stopped, since, today, linkFaults>>
    BY DEF DailyRun, RunNow, tables
<1>2. y \in Job /\ y.pc = "look" /\ y.link = l /\ y.inserted = 0 /\ y.todo = {}
    BY JobTypes DEF Job
<1> HIDE DEF y
<1>3. ticked' \subseteq Links
    BY JobTypes DEF DailyRun, RunNow
<1>4. runNows' \in 0 .. MaxRunNows
    BY JobTypes, DaysAssumption DEF DailyRun, RunNow
<1>5. y.inserted <= Cardinality(Days \ y.todo)
    BY <1>2, DaysFinite
<1> QED BY <1>1, <1>2, <1>3, <1>4, <1>5, JobTypes, RowsStay, JobMoves DEF records

LEMMA LookUpEntityStep ==
    ASSUME LinksInv, NEW j \in Jobs, LookUpEntity(j)
    PROVE  LinksInv'
<1> DEFINE l == job[j].link
           y == IF Admitted(l) /\ Answered # {}
                THEN [job[j] EXCEPT !.pc = "save", !.todo = Answered] ELSE IdleJob
<1>1. /\ job' = [job EXCEPT ![j] = y] /\ job[j].pc = "look"
      /\ stopped' = IF Listed(l) \/ Answered = {} THEN stopped ELSE stopped \cup {l}
      /\ UNCHANGED <<kind, entity, rows, calls, records, ticked, since, today, runNows, linkFaults>>
    BY DEF LookUpEntity, tables
<1>2. l \in Links /\ job[j].inserted = 0
    BY <1>1, JobTypes DEF JobSound
<1>3. Answered \subseteq Days
    BY DEF Answered
<1>4. y \in Job /\ y.inserted = 0 /\ y.pc # "look"
      /\ (y.pc # "idle" => (y.link = l /\ Admitted(l)))
    BY <1>2, <1>3, JobTypes DEF Job
<1>5. y.todo \subseteq Days
    BY <1>4 DEF Job
<1>6. y.inserted <= Cardinality(Days \ y.todo)
    BY <1>4, <1>5, DaysFinite
<1> HIDE DEF y
<1>7. stopped' \subseteq Links
    BY <1>1, <1>2, JobTypes
<1>8. /\ y.pc # "idle" => y.link \in Links
      /\ y.pc \in {"save", "publish"} => Active(y.link)
    BY <1>2, <1>4 DEF Admitted
<1> QED BY <1>1, <1>4, <1>6, <1>7, <1>8, JobTypes, RowsStay, JobMoves DEF records

LEMMA SaveRowsStep ==
    ASSUME LinksInv, NEW j \in Jobs, SaveRows(j)
    PROVE  LinksInv'
<1> DEFINE l == job[j].link
<1>1. PICK batch \in Batch(j) :
          IF RefersToRow(l)
          THEN /\ rows' = [rows EXCEPT ![l] = @ \cup batch]
               /\ late' = IF Active(l) \/ batch \subseteq rows[l] THEN late ELSE late \cup {l}
               /\ job' = [job EXCEPT ![j] =
                             [@ EXCEPT !.pc = IF batch = job[j].todo THEN "publish" ELSE "save",
                                       !.todo = job[j].todo \ batch,
                                       !.inserted = job[j].inserted + Cardinality(NewRows(l, batch))]]
          ELSE /\ job' = [job EXCEPT ![j] = IdleJob]
               /\ UNCHANGED <<rows, late>>
    BY DEF SaveRows
<1>2. /\ UNCHANGED <<kind, entity, calls, counted, lost, overlapped, stopped, ticked, since,
                     today, runNows, linkFaults>>
      /\ job[j].pc = "save"
    BY DEF SaveRows
<1>3. l \in Links /\ (Active(l) \/ l \in overlapped)
    BY <1>2, JobTypes DEF JobSound
<1>4. batch \subseteq job[j].todo
    BY <1>1 DEF Batch
<1>5. CASE RefersToRow(l)
    <2> DEFINE n == job[j].inserted + Cardinality(NewRows(l, batch))
               y == [job[j] EXCEPT !.pc = IF batch = job[j].todo THEN "publish" ELSE "save",
                                   !.todo = job[j].todo \ batch, !.inserted = n]
    <2>1. /\ rows' = [rows EXCEPT ![l] = @ \cup batch]
          /\ late' = IF Active(l) \/ batch \subseteq rows[l] THEN late ELSE late \cup {l}
          /\ job' = [job EXCEPT ![j] = y]
        BY <1>1, <1>5
    <2>2. n <= Cardinality(Days \ (job[j].todo \ batch)) /\ n \in 0 .. LastDay
        <3>1. NewRows(l, batch) \subseteq batch
            BY DEF NewRows
        <3>2. job[j].inserted <= Cardinality(Days \ job[j].todo) /\ job[j].inserted \in Nat
              /\ job[j].todo \subseteq Days
            BY JobTypes DEF JobSound
        <3> QED BY <1>4, <3>1, <3>2, BatchDone
    <2> HIDE DEF n
    <2>3. /\ y \in Job /\ y.pc \in {"save", "publish"} /\ y.link = l /\ y.inserted = n
          /\ y.todo = job[j].todo \ batch
        BY <2>2, JobTypes DEF Job
    <2> HIDE DEF y
    <2>4. rows' \in [Links -> SUBSET Days]
        BY <1>3, <1>4, <2>1, JobTypes
    <2>5. late' \subseteq Links /\ LateRowsAreRaces'
        BY <1>2, <1>3, <2>1, JobTypes DEF LateRowsAreRaces
    <2>6. DeletedLeavesNothing'
        BY <1>2, <1>3, <1>5, <2>1, JobTypes DEF DeletedLeavesNothing, RefersToRow, Listed
    <2> QED BY <1>2, <1>3, <2>1, <2>2, <2>3, <2>4, <2>5, <2>6, JobTypes, JobMoves
<1>6. CASE ~RefersToRow(l)
    BY <1>1, <1>2, <1>6, JobTypes, RowsStay, JobMoves
<1> QED BY <1>5, <1>6

LEMMA PublishIngestedStep ==
    ASSUME LinksInv, NEW j \in Jobs, PublishIngested(j)
    PROVE  LinksInv'
<1>1. /\ job' = [job EXCEPT ![j] = IdleJob]
      /\ counted' = [counted EXCEPT ![job[j].link] = @ + job[j].inserted]
      /\ UNCHANGED <<kind, entity, rows, calls, lost, late, overlapped, stopped, ticked, since,
                     today, runNows, linkFaults>>
    BY DEF PublishIngested, tables
<1>2. counted' \in [Links -> Nat]
    <2>1. job[j].inserted \in Nat /\ counted \in [Links -> Nat]
        BY JobTypes
    <2>2. [counted EXCEPT ![job[j].link] = @ + job[j].inserted] \in [Links -> Nat]
        BY <2>1, SumTypes
    <2> QED BY <1>1, <2>2
<1> QED BY <1>1, <1>2, JobTypes, RowsStay, JobMoves

LEMMA JobFailsStep ==
    ASSUME LinksInv, NEW j \in Jobs, JobFails(j)
    PROVE  LinksInv'
<1>1. /\ job' = [job EXCEPT ![j] = IdleJob]
      /\ lost' = [lost EXCEPT ![job[j].link] = @ + job[j].inserted]
      /\ linkFaults' = linkFaults + 1 /\ linkFaults < MaxLinkFaults
      /\ UNCHANGED <<kind, entity, rows, calls, counted, late, overlapped, stopped, ticked, since,
                     today, runNows>>
    BY DEF JobFails, tables
<1>2. lost' \in [Links -> Nat]
    <2>1. job[j].inserted \in Nat /\ lost \in [Links -> Nat]
        BY JobTypes
    <2>2. [lost EXCEPT ![job[j].link] = @ + job[j].inserted] \in [Links -> Nat]
        BY <2>1, SumTypes
    <2> QED BY <1>1, <2>2
<1>3. linkFaults' \in 0 .. MaxLinkFaults
    BY <1>1, JobTypes, DaysAssumption
<1> QED BY <1>1, <1>2, <1>3, JobTypes, RowsStay, JobMoves

-----------------------------------------------------------------------------
\* The theorems.

LEMMA LinksStep == LinksInv /\ [LinksNext]_linkVars => LinksInv'
<1> SUFFICES ASSUME LinksInv, [LinksNext]_linkVars PROVE LinksInv'
    OBVIOUS
<1>1. CASE UNCHANGED linkVars
    <2>1. LinksTypeOK'
        BY <1>1 DEF LinksInv, LinksTypeOK, linkVars, OneLinkPerKey, Active
    <2> QED BY <1>1, <2>1, OnlyCalls DEF linkVars, tables, records
<1>2. CASE \E l \in Links : LookUpKey(l) \/ InsertLink(l)
    BY <1>2, LookUpKeyStep, InsertLinkStep
<1>3. CASE \E c \in Removals : Remove(c) \/ \E l \in Links : ReadEntity(c, l)
    BY <1>3, RemoveStep, ReadEntityStep
<1>4. CASE \E j \in Jobs :
              \/ \E l \in Links : DailyRun(j, l) \/ RunNow(j, l)
              \/ LookUpEntity(j) \/ SaveRows(j) \/ PublishIngested(j) \/ JobFails(j)
    BY <1>4, RunStep, LookUpEntityStep, SaveRowsStep, PublishIngestedStep, JobFailsStep
<1>5. CASE NextMorning
    BY <1>5, NextMorningStep
<1> QED BY <1>1, <1>2, <1>3, <1>4, <1>5 DEF LinksNext

LEMMA LinksAlways == LinksSpec => []LinksInv
BY LinksInitially, LinksStep, PTL DEF LinksSpec

\* Types, and one active entity per key however calls that link overlap.
THEOREM LinksTypesCorrect == LinksSpec => []LinksTypeOK
<1>1. LinksInv => LinksTypeOK
    BY DEF LinksInv
<1> QED BY <1>1, LinksAlways, PTL

\* An entity gets rows after its removal only from a job that had looked it up before.
THEOREM LateRowsRace == LinksSpec => []LateRowsAreRaces
<1>1. LinksInv => LateRowsAreRaces
    BY DEF LinksInv
<1> QED BY <1>1, LinksAlways, PTL

\* A page that is deleted leaves no snapshot behind, whatever jobs are storing then.
THEOREM NoOrphanRows == LinksSpec => []DeletedLeavesNothing
<1>1. LinksInv => DeletedLeavesNothing
    BY DEF LinksInv
<1> QED BY <1>1, LinksAlways, PTL

-----------------------------------------------------------------------------
\* What links, jobs and removals have to do with each other.

\* The call that links an entity has inserted it once and for all.
Linked(l) == linking[l] = "linked"

HistoryInv ==
    /\ \A l \in Links : Listed(l) => Linked(l)
    /\ \A j \in Jobs : IF job[j].pc = "idle" THEN job[j] = IdleJob ELSE Linked(job[j].link)
    /\ \A c \in Removals : removing[c] \in Links => Linked(removing[c])
    /\ \A l \in stopped : Linked(l) /\ ~Listed(l)
    /\ \A l \in ticked : Linked(l)
    /\ \A l \in Links : since[l] <= today

-----------------------------------------------------------------------------
\* A day of an entity is missing only for want of runs that did not fail.

\* How many daily runs whose answers cover the day d an entity has had.
Tried(l, d) ==
    IF d + kind.lag + kind.span <= today THEN kind.span
    ELSE IF today < d + kind.lag THEN 0
    ELSE today - (d + kind.lag) + (IF l \in ticked THEN 1 ELSE 0)

\* The jobs that have yet to store the day d of an entity, or to break off.
Carriers(l, d) ==
    {j \in Jobs : /\ job[j].link = l
                  /\ \/ job[j].pc = "look" /\ d \in Answered
                     \/ job[j].pc = "save" /\ d \in job[j].todo}

Missing(l, d) == Active(l) /\ since[l] < d + kind.lag /\ d \notin rows[l]

RunsAccounted ==
    \A l \in Links, d \in Days :
        Missing(l, d) => Tried(l, d) <= linkFaults + Cardinality(Carriers(l, d))

-----------------------------------------------------------------------------
\* Every stored row of an entity is on the account of the job that inserted it,
\* until that job has published it or broken off.

Share(l, j) == IF job[j].link = l THEN job[j].inserted ELSE 0

\* got has the days that each job has inserted and out those that are settled.
Accounts(l, got, out) ==
    /\ rows[l] = out \cup UNION {got[j] : j \in Jobs}
    /\ \A j \in Jobs : got[j] \cap out = {}
    /\ \A i, j \in Jobs : i # j => got[i] \cap got[j] = {}
    /\ \A j \in Jobs : Cardinality(got[j]) = Share(l, j)
    /\ counted[l] + lost[l] = Cardinality(out)

Settled(l) == \E got \in [Jobs -> SUBSET Days], out \in SUBSET Days : Accounts(l, got, out)

RowsAccounted == \A l \in Links : (Linked(l) => Listed(l)) => Settled(l)

-----------------------------------------------------------------------------
\* HistoryInv.

LEMMA KindFacts ==
    ASSUME LinksTypeOK
    PROVE  kind.lag \in Nat /\ kind.span \in Nat \ {0} /\ today \in Nat /\ linkFaults \in Nat
<1>1. kind \in AllKinds
    BY KindsAssumption DEF LinksTypeOK
<1>2. \A k \in AllKinds : k.lag \in Nat /\ k.span \in Nat \ {0}
    BY DaysAssumption
       DEF AllKinds, GscProperty, Ga4Property, BingProperty, WikipediaArticle, MetaPixel,
           MetaAdAccount, ClarityProject, MonitoredDomain, TrackedPage, Rolling, Snapshot
<1> QED BY <1>1, <1>2, DaysAssumption DEF LinksTypeOK

LEMMA HistoryInitially == LinksInit => HistoryInv
<1> SUFFICES ASSUME LinksInit PROVE HistoryInv
    OBVIOUS
<1>1. \A c \in Removals : removing[c] \notin Links
    BY NoLinkAssumption DEF LinksInit
<1>2. \A j \in Jobs : job[j] = IdleJob /\ IdleJob.pc = "idle"
    BY DEF LinksInit, IdleJob
<1> QED BY <1>1, <1>2 DEF LinksInit, HistoryInv, Listed

\* A call, to link or to remove.
LEMMA HistoryCalls ==
    ASSUME LinksInv, HistoryInv,
           \/ \E l \in Links : LookUpKey(l) \/ InsertLink(l)
           \/ \E c \in Removals : Remove(c) \/ \E l \in Links : ReadEntity(c, l)
    PROVE  HistoryInv'
<1>1. /\ job' = job /\ stopped' = stopped /\ ticked' = ticked /\ today' = today
      /\ today \in 0 .. LastDay
    BY DaysAssumption
       DEF LookUpKey, InsertLink, Remove, ReadEntity, LinksInv, LinksTypeOK
<1>2. CASE \E l \in Links : LookUpKey(l) \/ InsertLink(l)
    <2>1. PICK l \in Links : LookUpKey(l) \/ InsertLink(l)
        BY <1>2
    <2>2. /\ ~Linked(l) /\ removing' = removing
          /\ \A k \in Links : k # l => Linked(k)' = Linked(k)
          /\ \A k \in Links : k # l => entity'[k] = entity[k] /\ since'[k] = since[k]
          /\ \/ entity'[l] = entity[l] /\ since'[l] = since[l]
             \/ Linked(l)' /\ since'[l] = today
        BY <2>1 DEF LookUpKey, InsertLink, Linked, tables, LinksInv, LinksTypeOK
    <2>3. \A k \in Links : Linked(k) => Linked(k)' /\ k # l
        BY <2>2
    <2>4. \A j \in Jobs :
             IF job[j].pc = "idle" THEN job[j] = IdleJob ELSE linking'[job[j].link] = "linked"
        <3>1. \A j \in Jobs : job[j].pc # "idle" => job[j].link \in Links
            BY DEF LinksInv, JobSound
        <3> QED BY <2>3, <3>1 DEF HistoryInv, Linked
    <2>5. /\ \A k \in stopped : Linked(k)' /\ ~Listed(k)'
          /\ \A k \in ticked : Linked(k)'
        BY <2>2, <2>3 DEF HistoryInv, LinksInv, LinksTypeOK, Listed
    <2>6. \A k \in Links : Listed(k)' => Linked(k)'
        BY <2>2, <2>3 DEF HistoryInv, Listed
    <2>7. \A c \in Removals : removing[c] \in Links => linking'[removing[c]] = "linked"
        BY <2>3 DEF HistoryInv, Linked
    <2>8. \A k \in Links : since'[k] <= today
        BY <1>1, <2>2 DEF HistoryInv
    <2> QED BY <1>1, <2>2, <2>4, <2>5, <2>6, <2>7, <2>8 DEF HistoryInv, IdleJob, Linked
<1>3. CASE \E c \in Removals : Remove(c) \/ \E l \in Links : ReadEntity(c, l)
    <2>1. PICK c \in Removals : Remove(c) \/ \E l \in Links : ReadEntity(c, l)
        BY <1>3
    <2>2. /\ linking' = linking /\ since' = since
          /\ \A b \in Removals : b # c => removing'[b] = removing[b]
          /\ \A k \in Links : Listed(k)' => Listed(k)
        BY <2>1 DEF Remove, ReadEntity, tables, LinksInv, LinksTypeOK, Listed
    <2>3. removing'[c] \in Links => Linked(removing'[c])
        <3>1. CASE Remove(c)
            BY <3>1, NoLinkAssumption DEF Remove, LinksInv, LinksTypeOK
        <3>2. CASE \E l \in Links : ReadEntity(c, l)
            BY <3>2 DEF ReadEntity, Active, Listed, HistoryInv, LinksInv, LinksTypeOK
        <3> QED BY <2>1, <3>1, <3>2
    <2> QED BY <1>1, <2>2, <2>3 DEF HistoryInv, Linked, LinksInv, LinksTypeOK
<1> QED BY <1>2, <1>3

\* What a job has after a batch, unless its entity is gone.
LEMMA SavedRows ==
    ASSUME LinksInv, NEW j \in Jobs, SaveRows(j)
    PROVE  LET l == job[j].link IN
           /\ job[j].pc = "save" /\ l \in Links /\ \A i \in Jobs : i # j => job'[i] = job[i]
           /\ \/ ~Listed(l) /\ job'[j] = IdleJob /\ rows' = rows
              \/ /\ Listed(l)
                 /\ \E batch \in SUBSET job[j].todo :
                       /\ rows' = [rows EXCEPT ![l] = @ \cup batch]
                       /\ job'[j].link = l /\ job'[j].pc \in {"save", "publish"}
                       /\ job'[j].pc = "publish" => batch = job[j].todo
                       /\ job'[j].todo = job[j].todo \ batch
                       /\ job'[j].inserted = job[j].inserted + Cardinality(NewRows(l, batch))
<1> DEFINE l == job[j].link
           y(batch) == [job[j] EXCEPT !.pc = IF batch = job[j].todo THEN "publish" ELSE "save",
                                      !.todo = job[j].todo \ batch,
                                      !.inserted = job[j].inserted + Cardinality(NewRows(l, batch))]
<1>1. /\ job[j].pc = "save" /\ l \in Links /\ job \in [Jobs -> Job] /\ job[j] \in Job
    BY JobTypes DEF SaveRows, JobSound, LinksInv, LinksTypeOK
<1>2. PICK batch \in Batch(j) :
         IF RefersToRow(l)
         THEN rows' = [rows EXCEPT ![l] = @ \cup batch] /\ job' = [job EXCEPT ![j] = y(batch)]
         ELSE rows' = rows /\ job' = [job EXCEPT ![j] = IdleJob]
    BY DEF SaveRows
<1>3. batch \in SUBSET job[j].todo
    BY <1>2 DEF Batch
<1>4. /\ y(batch).pc = IF batch = job[j].todo THEN "publish" ELSE "save"
      /\ y(batch).todo = job[j].todo \ batch /\ y(batch).link = l
      /\ y(batch).inserted = job[j].inserted + Cardinality(NewRows(l, batch))
    BY <1>1 DEF Job
<1> HIDE DEF y
<1>5. /\ \A i \in Jobs : i # j => job'[i] = job[i]
      /\ job'[j] = IF Listed(l) THEN y(batch) ELSE IdleJob
    BY <1>1, <1>2 DEF RefersToRow
<1> QED BY <1>1, <1>2, <1>3, <1>4, <1>5 DEF RefersToRow

\* The worker, and the morning.
LEMMA HistoryJobs ==
    ASSUME LinksInv, HistoryInv,
           \/ \E j \in Jobs :
                 \/ \E l \in Links : DailyRun(j, l) \/ RunNow(j, l)
                 \/ LookUpEntity(j) \/ SaveRows(j) \/ PublishIngested(j) \/ JobFails(j)
           \/ NextMorning
    PROVE  HistoryInv'
<1>1. UNCHANGED <<entity, calls, since>>
    BY DEF DailyRun, RunNow, LookUpEntity, SaveRows, PublishIngested, JobFails, NextMorning,
           tables
<1>2. CASE NextMorning
    <2>1. job' = job /\ stopped' = stopped /\ ticked' = {} /\ today' = today + 1
        BY <1>2 DEF NextMorning
    <2>2. \A l \in Links : since[l] <= today + 1
        BY DaysAssumption DEF HistoryInv, LinksInv, LinksTypeOK
    <2> QED BY <1>1, <2>1, <2>2 DEF HistoryInv, Linked, Listed, calls
<1>3. CASE ~NextMorning
    <2>1. PICK j \in Jobs :
             \/ \E l \in Links : DailyRun(j, l) \/ RunNow(j, l)
             \/ LookUpEntity(j) \/ SaveRows(j) \/ PublishIngested(j) \/ JobFails(j)
        BY <1>3
    <2>2. IdleJob.pc = "idle" /\ IdleJob.link = NoLink
        BY DEF IdleJob
    <2>3. /\ today' = today
          /\ ticked' = ticked \/ \E l \in Links : ticked' = ticked \cup {l} /\ Linked(l)
        BY <2>1 DEF DailyRun, RunNow, LookUpEntity, SaveRows, PublishIngested, JobFails,
                    Scheduled, Linked
    <2>4. stopped' = stopped \/ \E l \in Links : stopped' = stopped \cup {l} /\ Linked(l) /\ ~Listed(l)
        <3>1. CASE LookUpEntity(j)
            <4>1. job[j].pc = "look" /\ job[j].link \in Links /\ Linked(job[j].link)
                BY <3>1 DEF LookUpEntity, HistoryInv, LinksInv, JobSound
            <4> QED BY <3>1, <4>1 DEF LookUpEntity
        <3>2. CASE ~LookUpEntity(j)
            BY <2>1, <3>2 DEF DailyRun, RunNow, SaveRows, PublishIngested, JobFails
        <3> QED BY <3>1, <3>2
    <2>5. \A i \in Jobs : i # j => job'[i] = job[i]
        BY <2>1 DEF DailyRun, RunNow, LookUpEntity, SaveRows, PublishIngested, JobFails,
                    LinksInv, LinksTypeOK
    <2>6. IF job'[j].pc = "idle" THEN job'[j] = IdleJob ELSE Linked(job'[j].link)
        <3>1. CASE \E l \in Links : DailyRun(j, l) \/ RunNow(j, l)
            <4>1. PICK l \in Links : DailyRun(j, l) \/ RunNow(j, l)
                BY <3>1
            <4>2. job'[j] = [IdleJob EXCEPT !.pc = "look", !.link = l] /\ Linked(l)
                BY <4>1 DEF DailyRun, RunNow, Scheduled, Linked, LinksInv, LinksTypeOK
            <4> QED BY <4>2 DEF IdleJob
        <3>2. CASE LookUpEntity(j) \/ SaveRows(j) \/ PublishIngested(j) \/ JobFails(j)
            <4>1. job[j].pc # "idle" /\ Linked(job[j].link) /\ job[j] \in Job
                BY <3>2 DEF LookUpEntity, SaveRows, PublishIngested, JobFails, HistoryInv,
                            LinksInv, LinksTypeOK
            <4>2. job'[j] = IdleJob \/ (job'[j].link = job[j].link /\ job'[j].pc # "idle")
                <5>1. CASE LookUpEntity(j)
                    <6>1. \/ job'[j] = [job[j] EXCEPT !.pc = "save", !.todo = Answered]
                          \/ job'[j] = IdleJob
                        BY <5>1 DEF LookUpEntity, LinksInv, LinksTypeOK
                    <6> QED BY <4>1, <6>1 DEF Job
                <5>2. CASE SaveRows(j)
                    BY <4>1, <5>2, SavedRows
                <5>3. CASE PublishIngested(j) \/ JobFails(j)
                    BY <5>3 DEF PublishIngested, JobFails, LinksInv, LinksTypeOK
                <5> QED BY <3>2, <5>1, <5>2, <5>3
            <4> QED BY <2>2, <4>1, <4>2
        <3> QED BY <2>1, <3>1, <3>2
    <2>7. \A i \in Jobs : IF job'[i].pc = "idle" THEN job'[i] = IdleJob ELSE Linked(job'[i].link)
        BY <2>5, <2>6 DEF HistoryInv
    <2> QED BY <1>1, <2>3, <2>4, <2>7 DEF HistoryInv, Linked, Listed, calls
<1> QED BY <1>2, <1>3

LEMMA HistoryStep ==
    ASSUME LinksInv, HistoryInv, [LinksNext]_linkVars PROVE HistoryInv'
<1>1. CASE UNCHANGED linkVars
    BY <1>1 DEF linkVars, HistoryInv, Linked, Listed
<1> QED BY <1>1, HistoryCalls, HistoryJobs DEF LinksNext

-----------------------------------------------------------------------------
\* RunsAccounted.

\* The sets of jobs are finite.
LEMMA JobSets ==
    ASSUME NEW C \in SUBSET Jobs, NEW D \in SUBSET Jobs
    PROVE  /\ Cardinality(C) \in Nat /\ Cardinality(D) \in Nat
           /\ C \subseteq D => Cardinality(C) <= Cardinality(D)
           /\ \A j \in Jobs : j \notin C => Cardinality(C \cup {j}) = Cardinality(C) + 1
           /\ \A j \in Jobs : C \ {j} \subseteq D => Cardinality(C) <= Cardinality(D) + 1
<1>1. /\ IsFiniteSet(C) /\ IsFiniteSet(D) /\ Cardinality(C) \in Nat /\ Cardinality(D) \in Nat
    BY JobsAssumption, FS_Subset, FS_CardinalityType
<1>2. C \subseteq D => Cardinality(C) <= Cardinality(D)
    BY <1>1, FS_Subset
<1>3. ASSUME NEW j \in Jobs, j \notin C PROVE Cardinality(C \cup {j}) = Cardinality(C) + 1
    BY <1>1, <1>3, FS_AddElement
<1>4. ASSUME NEW j \in Jobs, C \ {j} \subseteq D PROVE Cardinality(C) <= Cardinality(D) + 1
    <2>1. IsFiniteSet(C \ {j}) /\ Cardinality(C \ {j}) \in Nat
        BY <1>1, FS_Subset, FS_CardinalityType
    <2>2. Cardinality(C \ {j}) <= Cardinality(D)
        BY <1>1, <1>4, FS_Subset
    <2>3. Cardinality(C) <= Cardinality(C \ {j}) + 1
        BY <1>1, <2>1, FS_RemoveElement
    <2> QED BY <1>1, <2>1, <2>2, <2>3
<1> QED BY <1>1, <1>2, <1>3, <1>4

LEMMA CarriersOfJobs ==
    ASSUME NEW l, NEW d
    PROVE  Carriers(l, d) \in SUBSET Jobs /\ Carriers(l, d)' \in SUBSET Jobs
BY DEF Carriers

LEMMA TriedTypes ==
    LinksTypeOK => linkFaults \in Nat /\ \A l \in Links, d \in Days : Tried(l, d) \in Nat
<1> SUFFICES ASSUME LinksTypeOK, NEW l \in Links, NEW d \in Days
             PROVE  linkFaults \in Nat /\ Tried(l, d) \in Nat
    BY KindFacts
<1>1. d \in Nat
    BY DaysAssumption DEF Days
<1> QED BY <1>1, KindFacts DEF Tried

LEMMA TriedTypesNext ==
    LinksTypeOK' => (linkFaults \in Nat /\ \A l \in Links, d \in Days : Tried(l, d) \in Nat)'
BY TriedTypes, PTL

\* What it takes that a day stays accounted for: the jobs that carry it still do, a
\* job that no longer does has failed, and one more does if one more has run.
LEMMA DayAccounted ==
    ASSUME LinksInv, LinksInv', RunsAccounted, NEW l \in Links, NEW d \in Days, Missing(l, d),
           \/ /\ Tried(l, d)' <= Tried(l, d) /\ linkFaults' = linkFaults
              /\ Carriers(l, d) \subseteq Carriers(l, d)'
           \/ /\ Tried(l, d)' <= Tried(l, d) /\ linkFaults' = linkFaults + 1
              /\ \E j \in Jobs : Carriers(l, d) \ {j} \subseteq Carriers(l, d)'
           \/ /\ Tried(l, d)' <= Tried(l, d) + 1 /\ linkFaults' = linkFaults
              /\ \E j \in Jobs : j \notin Carriers(l, d) /\ Carriers(l, d)' = Carriers(l, d) \cup {j}
    PROVE  Tried(l, d)' <= linkFaults' + Cardinality(Carriers(l, d)')
<1>1. Tried(l, d) <= linkFaults + Cardinality(Carriers(l, d))
    BY DEF RunsAccounted
<1>2. /\ linkFaults \in Nat /\ Tried(l, d) \in Nat
      /\ linkFaults' \in Nat /\ Tried(l, d)' \in Nat
    <2>1. LinksTypeOK /\ LinksTypeOK'
        BY DEF LinksInv
    <2>2. (linkFaults \in Nat /\ \A k \in Links, e \in Days : Tried(k, e) \in Nat)'
        BY <2>1, TriedTypesNext
    <2> QED BY <2>1, <2>2, TriedTypes
<1> DEFINE C == Carriers(l, d)
           D == Carriers(l, d)'
           t == Tried(l, d)
           u == Tried(l, d)'
<1>3. C \in SUBSET Jobs /\ D \in SUBSET Jobs
    BY CarriersOfJobs
<1>4. \/ u <= t /\ linkFaults' = linkFaults /\ C \subseteq D
      \/ u <= t /\ linkFaults' = linkFaults + 1 /\ \E j \in Jobs : C \ {j} \subseteq D
      \/ u <= t + 1 /\ linkFaults' = linkFaults /\ \E j \in Jobs : j \notin C /\ D = C \cup {j}
    OBVIOUS
<1>5. t <= linkFaults + Cardinality(C) /\ t \in Nat /\ u \in Nat
    BY <1>1, <1>2
<1> HIDE DEF C, D, t, u
<1>6. u <= linkFaults' + Cardinality(D)
    BY <1>2, <1>3, <1>4, <1>5, JobSets
<1> QED BY <1>6 DEF D, u

\* A call: an entity that is linked now has missed nothing yet.
LEMMA RunsCalls ==
    ASSUME LinksInv, LinksInv', HistoryInv, RunsAccounted,
           \/ \E l \in Links : LookUpKey(l) \/ InsertLink(l)
           \/ \E c \in Removals : Remove(c) \/ \E l \in Links : ReadEntity(c, l)
    PROVE  RunsAccounted'
<1> SUFFICES ASSUME NEW l \in Links, NEW d \in Days, Missing(l, d)'
             PROVE  Tried(l, d)' <= linkFaults' + Cardinality(Carriers(l, d)')
    BY DEF RunsAccounted
<1>1. UNCHANGED <<kind, job, ticked, today, linkFaults>>
    BY DEF LookUpKey, InsertLink, Remove, ReadEntity
<1>2. Tried(l, d)' = Tried(l, d) /\ Carriers(l, d)' = Carriers(l, d)
    BY <1>1 DEF Tried, Carriers, Answered
<1>3. \/ Active(l) /\ since'[l] = since[l] /\ rows'[l] = rows[l]
      \/ ~Linked(l) /\ since'[l] = today
    <2>1. Active(l)'
        BY DEF Missing
    <2>2. CASE \E k \in Links : LookUpKey(k) \/ InsertLink(k)
        BY <2>1, <2>2 DEF LookUpKey, InsertLink, tables, Active, Linked, LinksInv, LinksTypeOK
    <2>3. CASE \E c \in Removals : Remove(c)
        <3>1. PICK c \in Removals : Remove(c)
            BY <2>3
        <3>2. l # removing[c]
            BY <2>1, <3>1 DEF Remove, Removed, Active, Listed, LinksInv, LinksTypeOK
        <3> QED BY <2>1, <3>1, <3>2 DEF Remove, Active, LinksInv, LinksTypeOK
    <2>4. CASE \E c \in Removals : \E k \in Links : ReadEntity(c, k)
        BY <2>1, <2>4 DEF ReadEntity, tables, Active
    <2> QED BY <2>2, <2>3, <2>4
<1>4. CASE Active(l) /\ since'[l] = since[l] /\ rows'[l] = rows[l]
    <2>1. Missing(l, d)
        BY <1>1, <1>4 DEF Missing
    <2>2. Tried(l, d)' <= Tried(l, d)
        BY <1>2, TriedTypes DEF LinksInv
    <2> QED BY <1>1, <1>2, <2>1, <2>2, DayAccounted
<1>5. CASE ~Linked(l) /\ since'[l] = today
    <2>1. today < d + kind.lag
        BY <1>1, <1>5 DEF Missing
    <2>2. Tried(l, d) = 0
        BY <2>1, KindFacts, DaysAssumption DEF Tried, LinksInv, Days
    <2>3. linkFaults' \in Nat /\ Cardinality(Carriers(l, d)') \in Nat
        BY <1>1, CarriersOfJobs, JobSets, KindFacts DEF LinksInv
    <2> QED BY <1>2, <2>2, <2>3
<1> QED BY <1>3, <1>4, <1>5

\* A run, daily or triggered.
LEMMA RunsRun ==
    ASSUME LinksInv, LinksInv', HistoryInv, RunsAccounted, NEW j \in Jobs, NEW k \in Links,
           DailyRun(j, k) \/ RunNow(j, k)
    PROVE  RunsAccounted'
<1> SUFFICES ASSUME NEW l \in Links, NEW d \in Days, Missing(l, d)'
             PROVE  Tried(l, d)' <= linkFaults' + Cardinality(Carriers(l, d)')
    BY DEF RunsAccounted
<1>1. /\ UNCHANGED <<kind, entity, rows, since, today, linkFaults>>
      /\ job[j].pc = "idle" /\ job' = [job EXCEPT ![j] = [IdleJob EXCEPT !.pc = "look", !.link = k]]
      /\ ticked' = ticked \/ (ticked' = ticked \cup {k} /\ k \notin ticked)
    <2>1. CASE DailyRun(j, k)
        BY <2>1 DEF DailyRun, tables
    <2>2. CASE RunNow(j, k)
        BY <2>2 DEF RunNow, tables
    <2> QED BY <2>1, <2>2
<1>2. Missing(l, d)
    BY <1>1 DEF Missing, Active
<1>3. /\ job'[j].pc = "look" /\ job'[j].link = k
      /\ \A i \in Jobs : i # j => job'[i] = job[i]
    BY <1>1 DEF IdleJob, LinksInv, LinksTypeOK
<1>4. j \notin Carriers(l, d)
    BY <1>1 DEF Carriers
<1>5. Carriers(l, d)' = IF l = k /\ d \in Answered THEN Carriers(l, d) \cup {j} ELSE Carriers(l, d)
    <2>1. Answered' = Answered
        BY <1>1 DEF Answered
    <2> QED BY <1>3, <1>4, <2>1 DEF Carriers
<1>6. Tried(l, d) \in Nat
    BY TriedTypes DEF LinksInv
<1>7. CASE ticked' = ticked \/ l # k \/ d \notin Answered
    <2>1. Tried(l, d)' = Tried(l, d)
        <3>1. CASE ticked' = ticked \/ l # k
            BY <1>1, <3>1 DEF Tried
        <3>2. CASE d \notin Answered
            BY <1>1, <3>2, KindFacts, DaysAssumption DEF Tried, Answered, Days, LinksInv
        <3> QED BY <1>7, <3>1, <3>2
    <2>2. Tried(l, d)' <= Tried(l, d)
        BY <1>6, <2>1
    <2> QED BY <1>1, <1>2, <1>5, <2>2, DayAccounted
<1>8. CASE ticked' = ticked \cup {k} /\ k \notin ticked /\ l = k /\ d \in Answered
    <2>1. Tried(l, d)' <= Tried(l, d) + 1
        BY <1>1, <1>8, KindFacts, DaysAssumption DEF Tried, Answered, Days, LinksInv
    <2> QED BY <1>1, <1>2, <1>4, <1>5, <1>8, <2>1, DayAccounted
<1> QED BY <1>1, <1>7, <1>8

\* A job goes on: what it carried it carries still or has stored, unless it failed.
LEMMA RunsJob ==
    ASSUME LinksInv, LinksInv', HistoryInv, RunsAccounted, NEW j \in Jobs,
           LookUpEntity(j) \/ SaveRows(j) \/ PublishIngested(j) \/ JobFails(j)
    PROVE  RunsAccounted'
<1> SUFFICES ASSUME NEW l \in Links, NEW d \in Days, Missing(l, d)'
             PROVE  Tried(l, d)' <= linkFaults' + Cardinality(Carriers(l, d)')
    BY DEF RunsAccounted
<1>1. /\ UNCHANGED <<kind, entity, since, today, ticked>>
      /\ \A i \in Jobs : i # j => job'[i] = job[i]
    BY DEF LookUpEntity, SaveRows, PublishIngested, JobFails, tables, LinksInv, LinksTypeOK
<1>2. rows[l] \subseteq rows'[l]
    <2>1. CASE SaveRows(j)
        BY <2>1, SavedRows DEF LinksInv, LinksTypeOK
    <2>2. CASE LookUpEntity(j) \/ PublishIngested(j) \/ JobFails(j)
        BY <2>2 DEF LookUpEntity, PublishIngested, JobFails, tables
    <2> QED BY <2>1, <2>2
<1>3. Missing(l, d)
    BY <1>1, <1>2 DEF Missing, Active
<1>4. Tried(l, d)' <= Tried(l, d)
    <2>1. Tried(l, d)' = Tried(l, d)
        BY <1>1 DEF Tried
    <2> QED BY <2>1, TriedTypes DEF LinksInv
<1>5. Carriers(l, d) \ {j} \subseteq Carriers(l, d)'
    <2>1. Answered' = Answered
        BY <1>1 DEF Answered
    <2> QED BY <1>1, <2>1 DEF Carriers
<1>6. CASE JobFails(j)
    <2>1. linkFaults' = linkFaults + 1
        BY <1>6 DEF JobFails
    <2> QED BY <1>3, <1>4, <1>5, <2>1, DayAccounted
<1>7. CASE LookUpEntity(j) \/ SaveRows(j) \/ PublishIngested(j)
    <2>1. linkFaults' = linkFaults
        BY <1>7 DEF LookUpEntity, SaveRows, PublishIngested
    <2>2. ASSUME j \in Carriers(l, d) PROVE j \in Carriers(l, d)'
        <3>1. CASE LookUpEntity(j)
            <4>1. job[j].pc = "look" /\ job[j].link = l /\ d \in Answered
                BY <2>2, <3>1 DEF Carriers, LookUpEntity
            <4>2. job'[j] = [job[j] EXCEPT !.pc = "save", !.todo = Answered]
                <5>1. Admitted(l) /\ Answered # {}
                    BY <1>3, <4>1 DEF Missing, Admitted
                <5> QED BY <3>1, <4>1, <5>1 DEF LookUpEntity, LinksInv, LinksTypeOK
            <4>3. job'[j].pc = "save" /\ job'[j].link = l /\ d \in job'[j].todo
                BY <4>1, <4>2, JobTypes DEF Job
            <4> QED BY <4>3 DEF Carriers
        <3>2. CASE SaveRows(j)
            <4>1. job[j].link = l /\ d \in job[j].todo /\ Listed(l)
                BY <1>3, <2>2, <3>2 DEF Carriers, Missing, Active, Listed, SaveRows
            <4>2. PICK batch \in SUBSET job[j].todo :
                     /\ rows' = [rows EXCEPT ![l] = @ \cup batch]
                     /\ job'[j].link = l /\ job'[j].pc \in {"save", "publish"}
                     /\ job'[j].pc = "publish" => batch = job[j].todo
                     /\ job'[j].todo = job[j].todo \ batch
                BY <3>2, <4>1, SavedRows
            <4>3. d \notin batch
                BY <4>2 DEF Missing, LinksInv, LinksTypeOK
            <4> QED BY <4>1, <4>2, <4>3 DEF Carriers
        <3>3. CASE PublishIngested(j)
            BY <2>2, <3>3 DEF PublishIngested, Carriers
        <3> QED BY <1>7, <3>1, <3>2, <3>3
    <2>3. Carriers(l, d) \subseteq Carriers(l, d)'
        BY <1>5, <2>2
    <2> QED BY <1>3, <1>4, <2>1, <2>3, DayAccounted
<1> QED BY <1>6, <1>7

\* The morning comes when every active entity has had its run of the day, but for
\* one that was linked on that day, of which nothing is expected yet.
LEMMA RunsMorning ==
    ASSUME LinksInv, LinksInv', HistoryInv, RunsAccounted, NextMorning
    PROVE  RunsAccounted'
<1> SUFFICES ASSUME NEW l \in Links, NEW d \in Days, Missing(l, d)'
             PROVE  Tried(l, d)' <= linkFaults' + Cardinality(Carriers(l, d)')
    BY DEF RunsAccounted
<1>1. /\ UNCHANGED <<kind, entity, rows, job, since, linkFaults>>
      /\ today' = today + 1 /\ ticked' = {}
      /\ \A j \in Jobs : job[j].pc # "look"
    BY DEF NextMorning, tables
<1>2. Missing(l, d)
    BY <1>1 DEF Missing, Active
<1>3. l \in ticked \/ today < d + kind.lag
    <2>1. Linked(l) /\ l \notin stopped /\ since[l] <= today /\ since[l] < d + kind.lag
        BY <1>2 DEF HistoryInv, Missing, Active, Listed
    <2>2. since[l] \in Nat /\ today \in Nat
        BY DaysAssumption DEF LinksInv, LinksTypeOK
    <2>3. CASE since[l] < today
        BY <2>1, <2>3 DEF NextMorning, Due, Scheduled, Linked
    <2>4. CASE since[l] = today
        BY <2>1, <2>4
    <2> QED BY <2>1, <2>2, <2>3, <2>4
<1>4. Carriers(l, d) \subseteq Carriers(l, d)'
    BY <1>1 DEF Carriers
<1>5. Tried(l, d)' <= Tried(l, d)
    <2>1. d \in Nat /\ today \in Nat /\ kind.lag \in Nat /\ kind.span \in Nat \ {0}
        BY KindFacts, DaysAssumption DEF Days, LinksInv
    <2> QED BY <1>1, <1>3, <2>1 DEF Tried
<1> QED BY <1>1, <1>2, <1>4, <1>5, DayAccounted

LEMMA RunsInitially == LinksInit => RunsAccounted
BY DEF LinksInit, RunsAccounted, Missing, Active

LEMMA RunsStep ==
    ASSUME LinksInv, LinksInv', HistoryInv, RunsAccounted, [LinksNext]_linkVars
    PROVE  RunsAccounted'
<1>1. CASE UNCHANGED linkVars
    BY <1>1 DEF linkVars, RunsAccounted, Missing, Active, Tried, Carriers, Answered
<1> QED BY <1>1, RunsCalls, RunsRun, RunsJob, RunsMorning DEF LinksNext

LEMMA HealedByRuns ==
    ASSUME LinksInv, RunsAccounted PROVE WindowHealsGaps
<1> SUFFICES ASSUME NEW l \in Links, NEW d \in Days, Active(l), since[l] < d + kind.lag,
                    d + kind.lag + kind.span <= today, linkFaults < kind.span,
                    InFlight(l) = {}, d \notin rows[l]
             PROVE  FALSE
    BY DEF WindowHealsGaps
<1>1. Tried(l, d) <= linkFaults + Cardinality(Carriers(l, d))
    BY DEF RunsAccounted, Missing
<1>2. Cardinality(Carriers(l, d)) = 0
    <2>1. Carriers(l, d) = {}
        BY DEF Carriers, InFlight
    <2> QED BY <2>1, FS_EmptySet
<1>3. Tried(l, d) = kind.span
    BY DEF Tried
<1> QED BY <1>1, <1>2, <1>3, KindFacts DEF LinksInv

-----------------------------------------------------------------------------
\* RowsAccounted.

LEMMA DisjointDays ==
    ASSUME NEW C \in SUBSET Days, NEW D \in SUBSET Days, C \cap D = {}
    PROVE  /\ Cardinality(C \cup D) = Cardinality(C) + Cardinality(D)
           /\ Cardinality(C) \in Nat /\ Cardinality(D) \in Nat
<1>1. /\ IsFiniteSet(C) /\ IsFiniteSet(D) /\ Cardinality(C) \in Nat /\ Cardinality(D) \in Nat
    BY DaysFinite, DaysAssumption
<1>2. Cardinality(C \cup D) = Cardinality(C) + Cardinality(D) - Cardinality(C \cap D)
    BY <1>1, FS_Union
<1>3. Cardinality(C \cap D) = 0
    BY FS_EmptySet
<1> QED BY <1>1, <1>2, <1>3

LEMMA RowsInitially == LinksInit => RowsAccounted
<1> SUFFICES ASSUME LinksInit, NEW l \in Links PROVE Settled(l)
    BY DEF RowsAccounted
<1> DEFINE got == [j \in Jobs |-> {}]
<1>1. Cardinality({}) = 0
    BY FS_EmptySet
<1>2. \A j \in Jobs : Share(l, j) = 0 /\ got[j] = {}
    BY DEF LinksInit, Share, IdleJob
<1>3. rows[l] = {} /\ counted[l] + lost[l] = 0
    BY DEF LinksInit
<1>4. Accounts(l, got, {})
    BY <1>1, <1>2, <1>3 DEF Accounts
<1> QED BY <1>4 DEF Settled

\* Nothing about an entity changes that its account is about.
LEMMA AccountStays ==
    ASSUME NEW l, Settled(l), rows'[l] = rows[l], counted'[l] = counted[l], lost'[l] = lost[l],
           \A j \in Jobs : Share(l, j)' = Share(l, j)
    PROVE  Settled(l)'
<1>1. PICK got \in [Jobs -> SUBSET Days], out \in SUBSET Days : Accounts(l, got, out)
    BY DEF Settled
<1>2. Accounts(l, got, out)'
    BY <1>1 DEF Accounts
<1> QED BY <1>2 DEF Settled

\* A job inserts rows.
LEMMA AccountGrows ==
    ASSUME NEW l, NEW j \in Jobs, NEW new \in SUBSET Days, Settled(l),
           new \cap rows[l] = {}, rows'[l] = rows[l] \cup new,
           counted'[l] = counted[l], lost'[l] = lost[l],
           Share(l, j)' = Share(l, j) + Cardinality(new),
           \A i \in Jobs : i # j => Share(l, i)' = Share(l, i)
    PROVE  Settled(l)'
<1>1. PICK got \in [Jobs -> SUBSET Days], out \in SUBSET Days : Accounts(l, got, out)
    BY DEF Settled
<1> DEFINE now == [got EXCEPT ![j] = @ \cup new]
<1>2. /\ now \in [Jobs -> SUBSET Days] /\ now[j] = got[j] \cup new
      /\ \A i \in Jobs : i # j => now[i] = got[i]
    OBVIOUS
<1> HIDE DEF now
<1>3. /\ \A i \in Jobs : got[i] \cap new = {}
      /\ out \cap new = {}
    BY <1>1 DEF Accounts
<1>4. rows'[l] = out \cup UNION {now[i] : i \in Jobs}
    BY <1>1, <1>2 DEF Accounts
<1>5. \A i \in Jobs : now[i] \cap out = {}
    BY <1>1, <1>2, <1>3 DEF Accounts
<1>6. \A i, k \in Jobs : i # k => now[i] \cap now[k] = {}
    BY <1>1, <1>2, <1>3 DEF Accounts
<1>7. \A i \in Jobs : Cardinality(now[i]) = Share(l, i)'
    <2>1. Cardinality(now[j]) = Cardinality(got[j]) + Cardinality(new)
        BY <1>2, <1>3, DisjointDays
    <2> QED BY <1>1, <1>2, <2>1 DEF Accounts
<1>8. Accounts(l, now, out)'
    BY <1>1, <1>4, <1>5, <1>6, <1>7 DEF Accounts
<1> QED BY <1>2, <1>8 DEF Settled

\* A job settles: its event is published or lost.
LEMMA AccountSettles ==
    ASSUME NEW l, NEW j \in Jobs, Settled(l), rows'[l] = rows[l],
           counted[l] \in Nat, lost[l] \in Nat,
           counted'[l] + lost'[l] = counted[l] + lost[l] + Share(l, j),
           Share(l, j)' = 0,
           \A i \in Jobs : i # j => Share(l, i)' = Share(l, i)
    PROVE  Settled(l)'
<1>1. PICK got \in [Jobs -> SUBSET Days], out \in SUBSET Days : Accounts(l, got, out)
    BY DEF Settled
<1> DEFINE now == [got EXCEPT ![j] = {}]
           settled == out \cup got[j]
<1>2. /\ now \in [Jobs -> SUBSET Days] /\ now[j] = {} /\ settled \in SUBSET Days
      /\ \A i \in Jobs : i # j => now[i] = got[i]
    OBVIOUS
<1>3. rows'[l] = settled \cup UNION {now[i] : i \in Jobs}
    BY <1>1, <1>2 DEF Accounts
<1>4. \A i \in Jobs : now[i] \cap settled = {}
    BY <1>1, <1>2 DEF Accounts
<1>5. \A i, k \in Jobs : i # k => now[i] \cap now[k] = {}
    BY <1>1, <1>2 DEF Accounts
<1>6. \A i \in Jobs : Cardinality(now[i]) = Share(l, i)'
    BY <1>1, <1>2, FS_EmptySet DEF Accounts
<1>7. counted'[l] + lost'[l] = Cardinality(settled)
    <2>1. Cardinality(settled) = Cardinality(out) + Cardinality(got[j])
        BY <1>1, DisjointDays DEF Accounts
    <2> QED BY <1>1, <2>1 DEF Accounts
<1> HIDE DEF now, settled
<1>8. Accounts(l, now, settled)'
    BY <1>3, <1>4, <1>5, <1>6, <1>7 DEF Accounts
<1> QED BY <1>2, <1>8 DEF Settled

\* The calls.
LEMMA RowsCalls ==
    ASSUME LinksInv, HistoryInv, RowsAccounted,
           \/ \E l \in Links : LookUpKey(l) \/ InsertLink(l)
           \/ \E c \in Removals : Remove(c) \/ \E l \in Links : ReadEntity(c, l)
    PROVE  RowsAccounted'
<1> SUFFICES ASSUME NEW l \in Links, (Linked(l) => Listed(l))' PROVE Settled(l)'
    BY DEF RowsAccounted
<1>1. UNCHANGED <<job, counted, lost>>
    BY DEF LookUpKey, InsertLink, Remove, ReadEntity, records
<1>2. (Linked(l) => Listed(l)) /\ rows'[l] = rows[l]
    <2>1. CASE \E k \in Links : LookUpKey(k) \/ InsertLink(k)
        BY <2>1 DEF LookUpKey, InsertLink, tables, Linked, Listed, LinksInv, LinksTypeOK
    <2>2. CASE \E c \in Removals : Remove(c)
        <3>1. PICK c \in Removals : Remove(c)
            BY <2>2
        <3>2. Linked(removing[c]) /\ removing[c] \in Links
            BY <3>1 DEF Remove, HistoryInv
        <3>3. linking' = linking /\ (Listed(l)' => Listed(l))
            BY <3>1, <3>2 DEF Remove, Listed, LinksInv, LinksTypeOK
        <3>4. CASE kind.keeps
            BY <3>1, <3>3, <3>4 DEF Remove, Linked
        <3>5. CASE ~kind.keeps
            <4>1. l # removing[c]
                BY <3>1, <3>2, <3>3, <3>5 DEF Remove, Removed, Listed, Linked, LinksInv, LinksTypeOK
            <4> QED BY <3>1, <3>3, <4>1 DEF Remove, Linked, LinksInv, LinksTypeOK
        <3> QED BY <3>4, <3>5
    <2>3. CASE \E c \in Removals : \E k \in Links : ReadEntity(c, k)
        BY <2>3 DEF ReadEntity, tables, Linked, Listed
    <2> QED BY <2>1, <2>2, <2>3
<1>3. \A j \in Jobs : Share(l, j)' = Share(l, j)
    BY <1>1 DEF Share
<1> QED BY <1>1, <1>2, <1>3, AccountStays DEF RowsAccounted

\* The worker.
LEMMA RowsJobs ==
    ASSUME LinksInv, HistoryInv, RowsAccounted, NEW j \in Jobs,
           \/ \E l \in Links : DailyRun(j, l) \/ RunNow(j, l)
           \/ LookUpEntity(j) \/ SaveRows(j) \/ PublishIngested(j) \/ JobFails(j)
    PROVE  RowsAccounted'
<1> SUFFICES ASSUME NEW l \in Links, (Linked(l) => Listed(l))' PROVE Settled(l)'
    BY DEF RowsAccounted
<1>1. UNCHANGED <<entity, linking>>
    BY DEF DailyRun, RunNow, LookUpEntity, SaveRows, PublishIngested, JobFails, tables, calls
<1>2. (Linked(l) => Listed(l)) /\ Settled(l)
    BY <1>1 DEF Linked, Listed, RowsAccounted
<1>3. /\ IdleJob.link \notin Links /\ IdleJob.inserted = 0
      /\ \A i \in Jobs : job[i].inserted \in Nat
    BY NoLinkAssumption DEF IdleJob, LinksInv, LinksTypeOK, Job
<1>4. \A i \in Jobs : i # j => Share(l, i)' = Share(l, i)
    <2>1. \A i \in Jobs : i # j => job'[i] = job[i]
        BY DEF DailyRun, RunNow, LookUpEntity, SaveRows, PublishIngested, JobFails,
               LinksInv, LinksTypeOK
    <2> QED BY <2>1 DEF Share
<1>5. CASE \E k \in Links : DailyRun(j, k) \/ RunNow(j, k)
    <2>1. PICK k \in Links : DailyRun(j, k) \/ RunNow(j, k)
        BY <1>5
    <2>2. job[j] = IdleJob
        BY <2>1 DEF DailyRun, RunNow, HistoryInv
    <2>3. job'[j] = [IdleJob EXCEPT !.pc = "look", !.link = k]
        BY <2>1 DEF DailyRun, RunNow, LinksInv, LinksTypeOK
    <2>4. Share(l, j) = 0 /\ Share(l, j)' = 0
        BY <2>2, <2>3 DEF Share, IdleJob
    <2>5. UNCHANGED <<rows, counted, lost>>
        BY <2>1 DEF DailyRun, RunNow, tables, records
    <2> QED BY <1>2, <1>4, <2>4, <2>5, AccountStays
<1>6. CASE LookUpEntity(j)
    <2>1. job[j].inserted = 0
        BY <1>6, JobTypes DEF LookUpEntity, JobSound
    <2>2. job'[j].inserted = 0
        <3>1. \/ job'[j] = [job[j] EXCEPT !.pc = "save", !.todo = Answered]
              \/ job'[j] = IdleJob
            BY <1>6 DEF LookUpEntity, LinksInv, LinksTypeOK
        <3> QED BY <1>3, <2>1, <3>1, JobTypes DEF Job
    <2>3. Share(l, j) = 0 /\ Share(l, j)' = 0
        BY <2>1, <2>2 DEF Share
    <2>4. UNCHANGED <<rows, counted, lost>>
        BY <1>6 DEF LookUpEntity, tables, records
    <2> QED BY <1>2, <1>4, <2>3, <2>4, AccountStays
<1>7. CASE SaveRows(j)
    <2>1. counted' = counted /\ lost' = lost /\ job[j].pc = "save"
        BY <1>7 DEF SaveRows
    <2>2. CASE l # job[j].link
        <3>1. rows'[l] = rows[l] /\ job'[j].link \in {job[j].link, IdleJob.link}
            BY <1>7, <2>2, SavedRows DEF LinksInv, LinksTypeOK
        <3>2. Share(l, j) = 0 /\ Share(l, j)' = 0
            BY <1>3, <2>2, <3>1 DEF Share
        <3> QED BY <1>2, <1>4, <2>1, <3>1, <3>2, AccountStays
    <2>3. CASE l = job[j].link
        <3>1. Listed(l)
            BY <1>2, <2>1, <2>3 DEF HistoryInv
        <3>2. PICK batch \in SUBSET job[j].todo :
                 /\ rows' = [rows EXCEPT ![l] = @ \cup batch]
                 /\ job'[j].link = l
                 /\ job'[j].inserted = job[j].inserted + Cardinality(NewRows(l, batch))
            BY <1>7, <2>3, <3>1, SavedRows
        <3> DEFINE new == NewRows(l, batch)
        <3>3. new \in SUBSET Days /\ new \cap rows[l] = {} /\ rows'[l] = rows[l] \cup new
            BY <3>2, JobTypes DEF NewRows
        <3>4. Share(l, j)' = Share(l, j) + Cardinality(new)
            BY <2>3, <3>2 DEF Share
        <3> QED BY <1>2, <1>4, <2>1, <3>3, <3>4, AccountGrows
    <2> QED BY <2>2, <2>3
<1>8. CASE PublishIngested(j) \/ JobFails(j)
    <2>1. job' = [job EXCEPT ![j] = IdleJob] /\ rows' = rows
        BY <1>8 DEF PublishIngested, JobFails, tables
    <2>2. Share(l, j)' = 0
        BY <1>3, <2>1 DEF Share, LinksInv, LinksTypeOK
    <2>3. counted[l] \in Nat /\ lost[l] \in Nat /\ counted \in [Links -> Nat] /\ lost \in [Links -> Nat]
        BY DEF LinksInv, LinksTypeOK
    <2>4. counted'[l] + lost'[l] = counted[l] + lost[l] + Share(l, j)
        <3>1. \/ counted' = [counted EXCEPT ![job[j].link] = @ + job[j].inserted] /\ lost' = lost
              \/ lost' = [lost EXCEPT ![job[j].link] = @ + job[j].inserted] /\ counted' = counted
            BY <1>8 DEF PublishIngested, JobFails
        <3>2. CASE l = job[j].link
            BY <1>3, <2>3, <3>1, <3>2 DEF Share
        <3>3. CASE l # job[j].link
            BY <1>3, <2>3, <3>1, <3>3 DEF Share
        <3> QED BY <3>2, <3>3
    <2> QED BY <1>2, <1>4, <2>1, <2>2, <2>3, <2>4, AccountSettles
<1> QED BY <1>5, <1>6, <1>7, <1>8

LEMMA RowsStep ==
    ASSUME LinksInv, HistoryInv, RowsAccounted, [LinksNext]_linkVars
    PROVE  RowsAccounted'
<1>1. CASE UNCHANGED linkVars \/ NextMorning
    <2>1. UNCHANGED <<entity, linking, job, rows, counted, lost>>
        BY <1>1 DEF linkVars, NextMorning, tables, calls, records
    <2>2. ASSUME NEW l \in Links, (Linked(l) => Listed(l))' PROVE Settled(l)'
        BY <2>1, <2>2, AccountStays DEF RowsAccounted, Linked, Listed, Share
    <2> QED BY <2>2 DEF RowsAccounted
<1> QED BY <1>1, RowsCalls, RowsJobs DEF LinksNext

LEMMA CountedByAccounts ==
    ASSUME RowsAccounted PROVE EventsCountRowsOnce
<1> SUFFICES ASSUME NEW l \in Links, Listed(l), InFlight(l) = {}
             PROVE  counted[l] + lost[l] = Cardinality(rows[l])
    BY DEF EventsCountRowsOnce
<1>1. PICK got \in [Jobs -> SUBSET Days], out \in SUBSET Days : Accounts(l, got, out)
    BY DEF RowsAccounted, Settled
<1>2. \A j \in Jobs : got[j] = {}
    <2>1. \A j \in Jobs : Cardinality(got[j]) = 0
        BY <1>1 DEF Accounts, Share, InFlight
    <2> QED BY <2>1, DaysFinite, FS_EmptySet
<1> QED BY <1>1, <1>2 DEF Accounts

-----------------------------------------------------------------------------
LEMMA AccountsAlways == LinksSpec => [](LinksInv /\ HistoryInv /\ RunsAccounted /\ RowsAccounted)
<1>1. LinksInit => LinksInv /\ HistoryInv /\ RunsAccounted /\ RowsAccounted
    BY LinksInitially, HistoryInitially, RunsInitially, RowsInitially
<1>2. LinksInv /\ HistoryInv /\ RunsAccounted /\ RowsAccounted /\ [LinksNext]_linkVars
      => LinksInv' /\ HistoryInv' /\ RunsAccounted' /\ RowsAccounted'
    BY LinksStep, HistoryStep, RunsStep, RowsStep
<1> QED BY <1>1, <1>2, PTL DEF LinksSpec

\* The events of an entity count every row that is stored of it once, however the
\* windows of its runs overlap, but for what jobs at work or broken off have not
\* published.
THEOREM EventsCountOnce == LinksSpec => []EventsCountRowsOnce
<1>1. RowsAccounted => EventsCountRowsOnce
    BY CountedByAccounts
<1> QED BY <1>1, AccountsAlways, PTL

\* A day that a rolling window has left behind is stored, unless as many runs failed
\* as the window has days.
THEOREM GapsHealed == LinksSpec => []WindowHealsGaps
<1>1. LinksInv /\ RunsAccounted => WindowHealsGaps
    BY HealedByRuns
<1> QED BY <1>1, AccountsAlways, PTL

-----------------------------------------------------------------------------
\* The limit of what the relink run shows.

\* RelinkCreatesLink, for the kinds whose removal deletes the row: a link is
\* refused only while another of the key is active.
PagesRelink ==
    [][~kind.keeps =>
        \A l \in Links :
            linking'[l] = "refused" /\ linking[l] = "insert"
            => \E k \in Links : KeyOf[k] = KeyOf[l] /\ Active(k)]_linkVars

LEMMA RefusedForActive ==
    ASSUME LinksInv, [LinksNext]_linkVars, ~kind.keeps, NEW l \in Links,
           linking'[l] = "refused", linking[l] = "insert"
    PROVE  \E k \in Links : KeyOf[k] = KeyOf[l] /\ Active(k)
<1>1. linking'[l] # linking[l]
    OBVIOUS
<1>2. PICK k \in Links : LookUpKey(k) \/ InsertLink(k)
    BY <1>1 DEF LinksNext, Remove, ReadEntity, DailyRun, RunNow, LookUpEntity, SaveRows,
                PublishIngested, JobFails, NextMorning, linkVars, calls
<1>3. k = l /\ InsertLink(l) /\ KeyTaken(l)
    BY <1>1, <1>2 DEF LookUpKey, InsertLink, LinksInv, LinksTypeOK
<1>4. \A m \in Links : Listed(m) => Active(m)
    BY DEF Listed, Active, LinksInv, LinksTypeOK
<1> QED BY <1>3, <1>4 DEF KeyTaken

\* A tracked page that was deleted can be tracked again: what the relink run
\* finds is confined to the kinds that keep the row of what was unlinked.
THEOREM PagesRelinkAlways == LinksSpec => PagesRelink
<1>1. LinksInv /\ [LinksNext]_linkVars =>
      [~kind.keeps =>
        \A l \in Links :
            linking'[l] = "refused" /\ linking[l] = "insert"
            => \E k \in Links : KeyOf[k] = KeyOf[l] /\ Active(k)]_linkVars
    BY RefusedForActive
<1> QED BY <1>1, LinksAlways, PTL DEF LinksSpec, PagesRelink
=============================================================================
