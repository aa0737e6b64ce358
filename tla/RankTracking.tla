---------------------------- MODULE RankTracking ----------------------------
(***************************************************************************)
(* Rank tracking of one SERP query of a project (phrase, locale, device):  *)
(* keywords are tracked for it, one for each domain, and the worker fans   *)
(* an answer out into one observation for each, with the alerts its change *)
(* of position calls for, and into the snapshot of the day's SERP.  Each   *)
(* has an extraction of its own.                                           *)
(***************************************************************************)
EXTENDS Naturals

CONSTANTS
    Keywords,      \* ids of tracked keywords of the query, each generated by a
                   \* call of StartTrackingKeywordUseCase of the same name
    DomainOf,      \* the domain of each
    SiteOf,        \* each domain without its www.
    Ranks,         \* the ranks of an answer looked at
    Hosts,         \* whose items an answer has: sites, subdomains of theirs, others
    Within,        \* the sites each host is, or is a subdomain of
    SerpJobs,      \* workers' slots
    LastTime,      \* bound: answers that come in, each at a time of its own
    MaxRankFaults, \* bound: failures of a job
    NoKeyword

\* One past the last position that is observed: not ranked.
NotRanked == 201

ASSUME NoKeywordAssumption == NoKeyword \notin Keywords
ASSUME DomainAssumption ==
    DOMAIN DomainOf = Keywords /\ {DomainOf[k] : k \in Keywords} \subseteq DOMAIN SiteOf
ASSUME RankAssumption == Ranks \subseteq 1 .. NotRanked - 1
ASSUME TimeAssumption == LastTime \in Nat /\ MaxRankFaults \in Nat

Sites == {SiteOf[DomainOf[k]] : k \in Keywords}
Site(k) == SiteOf[DomainOf[k]]
Times == 0 .. LastTime
Positions == Ranks \cup {NotRanked}

ASSUME HostAssumption == \A s \in Sites : s \in Hosts /\ s \in Within[s]

\* What a table has of a keyword, or of a site, that it has nothing of.
Nothing == 0
EmptySnapshot == [s \in Sites |-> Nothing]

VARIABLES
    tracked,      \* tracked_keywords: the ids that are there
    start,        \* the calls that start tracking
    serpJob,      \* the worker
    observations, \* ranking_observations: the position of a keyword at a time
    snapshot,     \* serp_observations of the day: the best rank of each site's rows
    clock,        \* milliseconds
    alert,        \* history: the last alert of a keyword
    repeated,     \* history: keywords that had one alert twice in a row
    disturbed,    \* history: keywords tracked during a job, observed by two at
                  \* once, or that a job broke off over
    rankFaults    \* failures so far

rankVars == <<tracked, start, serpJob, observations, snapshot, clock, alert, repeated,
              disturbed, rankFaults>>

\* A job, the position its answer has for each site, the rank each has in the top
\* rows and whether there are any, the keywords it fans out to, those it has yet
\* to observe, the observation at hand with the position before it, and whether a
\* snapshot was committed during its own transaction.
IdleSerpJob ==
    [pc |-> "idle", answer |-> EmptySnapshot, top |-> EmptySnapshot, organic |-> FALSE,
     listed |-> {}, todo |-> {},
     keyword |-> NoKeyword, previous |-> Nothing, time |-> 0, overtaken |-> FALSE]

SerpJob ==
    [pc : {"idle", "observe", "save", "alert", "overwrite"},
     answer : [Sites -> Positions \cup {Nothing}], top : [Sites -> Ranks \cup {Nothing}],
     organic : BOOLEAN, listed : SUBSET Keywords, todo : SUBSET Keywords, keyword : Keywords \cup {NoKeyword},
     previous : Positions \cup {Nothing}, time : Times, overtaken : BOOLEAN]

OnFirstPage(position) == position \in 1 .. 10
Ranked(k) == {t \in Times : observations[k][t] # Nothing}
Fanning == \E j \in SerpJobs : serpJob[j].pc # "idle"
LatestTime(k) == CHOOSE t \in Ranked(k) : \A u \in Ranked(k) : u <= t

-----------------------------------------------------------------------------
\* StartTrackingKeywordUseCase.

FindKeyword(k) ==
    /\ start[k] = "ready"
    /\ \A l \in tracked : DomainOf[l] # DomainOf[k]
    /\ start' = [start EXCEPT ![k] = "save"]
    /\ UNCHANGED <<tracked, serpJob, observations, snapshot, clock, alert, repeated, disturbed,
                   rankFaults>>

\* Mutant of TupleTaken: no unique index.
TupleFree(k) == FALSE

TupleTaken(k) == \E l \in tracked : DomainOf[l] = DomainOf[k]

SaveKeyword(k) ==
    /\ start[k] = "save"
    /\ tracked' = IF TupleTaken(k) THEN tracked ELSE tracked \cup {k}
    /\ start' = [start EXCEPT ![k] = "done"]
    /\ disturbed' = IF Fanning THEN disturbed \cup {k} ELSE disturbed
    /\ UNCHANGED <<serpJob, observations, snapshot, clock, alert, repeated, rankFaults>>

-----------------------------------------------------------------------------
\* The SERP fan-out of the worker.

\* One keyword for each site, the first of those that share it.
FanOutSets ==
    {K \in SUBSET tracked :
        /\ \A k, l \in K : Site(k) = Site(l) => k = l
        /\ {Site(k) : k \in K} = {Site(k) : k \in tracked}}

\* An answer of the provider has an item at each rank: a link of the SERP, or one of
\* its features (an ad, a snippet), of some host.  (Ranks rise along the items.)
Serps == [Ranks -> [organic : BOOLEAN, host : Hosts]]

Best(ranks, none) ==
    IF ranks = {} THEN none ELSE CHOOSE r \in ranks : \A q \in ranks : r <= q

\* extractRankingsForDomains: the first item of any kind, of the site or of a
\* subdomain of it, however far down.
Showing(serp, s) == {r \in Ranks : s \in Within[serp[r].host]}

\* extractTopSerpResults: the rows of links, down to rank 30, each with its host.
TopRows(serp) == {r \in Ranks : serp[r].organic /\ r <= 30}
Listing(serp, s) == {r \in TopRows(serp) : serp[r].host = s}

\* What a job takes from an answer.
Extractions ==
    {[answer  |-> [s \in Sites |-> Best(Showing(serp, s), NotRanked)],
      top     |-> [s \in Sites |-> Best(Listing(serp, s), Nothing)],
      organic |-> TopRows(serp) # {}] : serp \in Serps}

\* An answer comes in, which takes time, and the keywords of the query are
\* listed.
ListKeywords(j) ==
    /\ serpJob[j].pc = "idle"
    /\ clock < LastTime
    /\ clock' = clock + 1
    /\ \E e \in Extractions, K \in FanOutSets :
          /\ serpJob' = [serpJob EXCEPT ![j] =
                [IdleSerpJob EXCEPT !.pc = "observe", !.answer = e.answer, !.top = e.top,
                                    !.organic = e.organic, !.listed = K, !.todo = K]]
          /\ disturbed' = disturbed \cup {k \in K : \E i \in SerpJobs \ {j} : k \in serpJob[i].listed}
    /\ UNCHANGED <<tracked, start, observations, snapshot, alert, repeated, rankFaults>>

\* Mutant of Latest: the first observation instead of the last.
Earliest(k) ==
    IF Ranked(k) = {} THEN Nothing
    ELSE observations[k][CHOOSE t \in Ranked(k) : \A u \in Ranked(k) : t <= u]

\* findLatestFor.
Latest(k) == IF Ranked(k) = {} THEN Nothing ELSE observations[k][LatestTime(k)]

\* RecordRankingObservationUseCase: the observation is made with the one before.
\* (Keywords are never paused, nor deleted.)
Observe(j) ==
    /\ serpJob[j].pc = "observe"
    /\ \E k \in serpJob[j].todo :
          serpJob' = [serpJob EXCEPT ![j] =
             [@ EXCEPT !.pc = "save", !.keyword = k, !.todo = serpJob[j].todo \ {k},
                       !.previous = Latest(k), !.time = clock]]
    /\ UNCHANGED <<tracked, start, observations, snapshot, clock, alert, repeated, disturbed,
                   rankFaults>>

Position(j) == serpJob[j].answer[Site(serpJob[j].keyword)]

\* The insert does nothing if the keyword was observed at that time.
SaveObservation(j) ==
    LET x == serpJob[j]
    IN /\ x.pc = "save"
       /\ observations' =
             IF x.time \in Ranked(x.keyword) THEN observations
             ELSE [observations EXCEPT ![x.keyword] = [@ EXCEPT ![x.time] = Position(j)]]
       /\ serpJob' = [serpJob EXCEPT ![j].pc = "alert"]
       /\ UNCHANGED <<tracked, start, snapshot, clock, alert, repeated, disturbed, rankFaults>>

\* Mutant of Entered: a keyword that is on the first page has entered it.
EnteredWhereverFrom(previous, position) == previous # Nothing /\ OnFirstPage(position)

\* The events KeywordEnteredTopTen and KeywordDroppedFromFirstPage.  A first
\* observation has nothing to be compared with and alerts nobody.
Entered(previous, position) ==
    previous # Nothing /\ ~OnFirstPage(previous) /\ OnFirstPage(position)
Dropped(previous, position) == OnFirstPage(previous) /\ ~OnFirstPage(position)

\* The events are published, whether or not the observation was inserted.
PublishAlerts(j) ==
    LET x == serpJob[j]
        news == CASE Entered(x.previous, Position(j)) -> "entered"
                  [] Dropped(x.previous, Position(j)) -> "dropped"
                  [] OTHER -> "none"
    IN /\ x.pc = "alert"
       /\ alert' = IF news = "none" THEN alert ELSE [alert EXCEPT ![x.keyword] = news]
       /\ repeated' = IF news # "none" /\ news = alert[x.keyword]
                      THEN repeated \cup {x.keyword} ELSE repeated
       /\ serpJob' = [serpJob EXCEPT ![j] =
                         [@ EXCEPT !.pc = "observe", !.keyword = NoKeyword, !.previous = Nothing,
                                   !.time = 0]]
       /\ UNCHANGED <<tracked, start, observations, snapshot, clock, disturbed, rankFaults>>

\* RecordSerpObservationUseCase, a transaction that deletes the snapshot of the
\* day and inserts this one.
BeginOverwrite(j) ==
    /\ serpJob[j].pc = "observe"
    /\ serpJob[j].todo = {}
    /\ serpJob[j].organic
    /\ serpJob' = [serpJob EXCEPT ![j].pc = "overwrite"]
    /\ UNCHANGED <<tracked, start, observations, snapshot, clock, alert, repeated, disturbed,
                   rankFaults>>

\* An answer without a single top row, which may be a quota error, takes no
\* snapshot: the one of this morning stays.
SkipOverwrite(j) ==
    /\ serpJob[j].pc = "observe"
    /\ serpJob[j].todo = {}
    /\ ~serpJob[j].organic
    /\ serpJob' = [serpJob EXCEPT ![j] = IdleSerpJob]
    /\ disturbed' = disturbed \cup serpJob[j].listed
    /\ UNCHANGED <<tracked, start, observations, snapshot, clock, alert, repeated, rankFaults>>

\* Mutant of Overwritten: the snapshot that is there is kept.
Kept(top) == IF snapshot = EmptySnapshot THEN top ELSE snapshot

Overwritten(top) == top

\* The deletion does not see what a transaction that overlaps inserted: then the
\* primary key refuses the insert and the job fails.
CommitOverwrite(j) ==
    LET x == serpJob[j]
    IN /\ x.pc = "overwrite"
       /\ snapshot' = IF x.overtaken THEN snapshot ELSE Overwritten(x.top)
       /\ disturbed' = IF x.overtaken THEN disturbed \cup x.listed ELSE disturbed
       /\ serpJob' =
             [i \in SerpJobs |->
                 IF i = j THEN IdleSerpJob
                 ELSE [serpJob[i] EXCEPT !.overtaken =
                          @ \/ (serpJob[i].pc = "overwrite" /\ ~x.overtaken)]]
       /\ UNCHANGED <<tracked, start, observations, clock, alert, repeated, rankFaults>>

\* A statement rejects or the worker dies.  What the job has not done is not done
\* later: the answer is in the cache, and a hit is not fanned out.
SerpJobFails(j) ==
    /\ rankFaults < MaxRankFaults
    /\ serpJob[j].pc # "idle"
    /\ rankFaults' = rankFaults + 1
    /\ disturbed' = disturbed \cup serpJob[j].listed
    /\ serpJob' = [serpJob EXCEPT ![j] = IdleSerpJob]
    /\ UNCHANGED <<tracked, start, observations, snapshot, clock, alert, repeated>>

\* A day has a snapshot of its own, empty at first.  (A transaction open at
\* midnight is left out: it writes the snapshot of the day before.)
NextSerpDay ==
    /\ \A j \in SerpJobs : serpJob[j].pc # "overwrite"
    /\ snapshot' = EmptySnapshot
    /\ UNCHANGED <<tracked, start, serpJob, observations, clock, alert, repeated, disturbed,
                   rankFaults>>

-----------------------------------------------------------------------------
RankInit ==
    /\ tracked = {}
    /\ start = [k \in Keywords |-> "ready"]
    /\ serpJob = [j \in SerpJobs |-> IdleSerpJob]
    /\ observations = [k \in Keywords |-> [t \in Times |-> Nothing]]
    /\ snapshot = EmptySnapshot
    /\ clock = 0
    /\ alert = [k \in Keywords |-> "none"]
    /\ repeated = {}
    /\ disturbed = {}
    /\ rankFaults = 0

RankNext ==
    \/ \E k \in Keywords : FindKeyword(k) \/ SaveKeyword(k)
    \/ \E j \in SerpJobs :
          \/ ListKeywords(j) \/ Observe(j) \/ SaveObservation(j) \/ PublishAlerts(j)
          \/ BeginOverwrite(j) \/ SkipOverwrite(j) \/ CommitOverwrite(j) \/ SerpJobFails(j)
    \/ NextSerpDay

RankSpec == RankInit /\ [][RankNext]_rankVars

-----------------------------------------------------------------------------
\* However the calls that track it overlap, a domain is tracked once for the
\* query.
OneKeywordPerTuple ==
    \A k, l \in tracked : DomainOf[k] = DomainOf[l] => k = l

RankTypeOK ==
    /\ tracked \subseteq Keywords
    /\ start \in [Keywords -> {"ready", "save", "done"}]
    /\ serpJob \in [SerpJobs -> SerpJob]
    /\ observations \in [Keywords -> [Times -> Positions \cup {Nothing}]]
    /\ snapshot \in [Sites -> Ranks \cup {Nothing}]
    /\ clock \in Times
    /\ alert \in [Keywords -> {"none", "entered", "dropped"}]
    /\ repeated \subseteq Keywords
    /\ disturbed \subseteq Keywords
    /\ rankFaults \in 0 .. MaxRankFaults
    /\ OneKeywordPerTuple

Undisturbed(k) == k \in tracked \ disturbed
AtWork(k) == \E j \in SerpJobs : k \in serpJob[j].listed

\* The alerts of a keyword alternate: it does not enter the first page twice
\* without leaving it in between, unless two jobs observed it at once, or a job
\* broke off between the observation and its alert.
AlertsAlternate == repeated \subseteq disturbed

\* Whoever reads the alerts of a keyword knows where it ranks: the last
\* one says whether the latest observation is on the first page, however often it
\* went in and out.
AlertsTellRanking ==
    \A k \in Keywords :
        /\ Undisturbed(k) /\ ~AtWork(k) /\ alert[k] # "none"
        => (alert[k] = "entered" <=> OnFirstPage(Latest(k)))

\* The snapshot of the day ("re-running a fetch later in the same day overwrites
\* the snapshot") and the rankings are extracted by different rules, and written one
\* after the other, yet tell one story: a site of the snapshot has a keyword whose
\* latest observation ranks it there or above, where a feature or a subdomain of it
\* shows.  It is not a row of an earlier answer, which the rankings have moved away
\* from.  (Of two keywords of a site, foo.com and www.foo.com, an answer is observed
\* for one only.)
SnapshotAgreesWithRankings ==
    \A k \in Keywords :
        /\ k \notin disturbed /\ ~AtWork(k)
        /\ snapshot[Site(k)] # Nothing
        /\ \A l \in tracked : Site(l) = Site(k) => Undisturbed(l) /\ ~AtWork(l)
        /\ Ranked(k) # {}
        => \E l \in tracked : Site(l) = Site(k) /\ Latest(l) <= snapshot[Site(k)]
=============================================================================
