--------------------------- MODULE ProjectCatalog ---------------------------
(***************************************************************************)
(* Projects of one organization, with their domains and target locations,  *)
(* and the portfolios that group them.  Every call reads a project in      *)
(* several queries and writes all of it back: the row, then each domain    *)
(* and each location deleted and inserted again, in one transaction.       *)
(***************************************************************************)
CONSTANTS
    Projects,       \* ids, each generated by the CreateProjectUseCase call of its name
    PrimaryOf,      \* the primary domain of each
    Portfolios,
    Domains,
    Locations,
    Adds,           \* calls that add a domain or a location
    PortfolioCalls, \* calls that rename or delete a portfolio
    None

Entries == Domains \cup Locations

ASSUME NoneAssumption == None \notin Projects \cup Portfolios \cup Entries
ASSUME EntriesAssumption == Domains \cap Locations = {}
ASSUME PrimaryAssumption == PrimaryOf \in [Projects -> Domains]

VARIABLES
    attached,    \* project_domains and project_locations; {} without a project
    portfolioOf, \* the portfolio in the row of a project
    portfolios,  \* new, there or deleted
    create,      \* calls that create a project
    add,
    managing,    \* calls that rename or delete
    accepted,    \* history: what calls added with success
    crowded,  \* history: projects that two calls were adding to at once
    contested,   \* history: domains that two calls were adding at once
    detached,    \* history: projects whose portfolio was deleted
    squeezed     \* history: projects that joined a portfolio after the count of
                 \* its deletion, or were saved after it

catalog == <<attached, portfolioOf, portfolios>>
incidents == <<accepted, crowded, contested, detached, squeezed>>
projectVars == <<catalog, create, add, managing, incidents>>

IdleAdd == [pc |-> "ready", project |-> None, entry |-> None, portfolio |-> None,
            read |-> {}, parts |-> {}]
DoneAdd == [IdleAdd EXCEPT !.pc = "done"]
Add == [pc : {"ready", "assemble", "own", "save", "done"}, project : Projects \cup {None},
        entry : Entries \cup {None}, portfolio : Portfolios \cup {None},
        read : SUBSET Entries, parts : SUBSET {Domains, Locations}]

IdleManaging == [pc |-> "ready", portfolio |-> None]
Managing == [pc : {"ready", "rename", "count", "delete", "done"},
             portfolio : Portfolios \cup {None}]

Stored(p) == attached[p] # {}
Adding(p) == {c \in Adds : add[c].project = p}
Counted(f) == \E m \in PortfolioCalls : managing[m] = [pc |-> "delete", portfolio |-> f]

-----------------------------------------------------------------------------
\* CreateProjectUseCase.

FindPrimary(p) ==
    /\ create[p] = "ready"
    /\ \A q \in Projects : Stored(q) => PrimaryOf[q] # PrimaryOf[p]
    /\ create' = [create EXCEPT ![p] = "save"]
    /\ UNCHANGED <<catalog, add, managing, incidents>>

\* The unique index on organization and primary domain.
PrimaryTaken(p) == \E q \in Projects : Stored(q) /\ PrimaryOf[q] = PrimaryOf[p]

\* Mutant of Referable: no foreign key.
ReferableAny(f) == TRUE

\* The foreign key of the row: a portfolio there is, or none.
Referable(f) == f # None => portfolios[f] = "there"

\* The project is inserted, with its primary domain.  Whether another project has
\* that domain among its own is not asked.
InsertProject(p) ==
    /\ create[p] = "save"
    /\ create' = [create EXCEPT ![p] = "done"]
    /\ \E f \in Portfolios \cup {None}, locations \in SUBSET Locations :
          IF PrimaryTaken(p) \/ ~Referable(f)
          THEN UNCHANGED <<attached, portfolioOf, squeezed>>
          ELSE /\ attached' = [attached EXCEPT ![p] = {PrimaryOf[p]} \cup locations]
               /\ portfolioOf' = [portfolioOf EXCEPT ![p] = f]
               /\ squeezed' = IF Counted(f) THEN squeezed \cup {p} ELSE squeezed
    /\ UNCHANGED <<portfolios, add, managing, accepted, crowded, contested, detached>>

-----------------------------------------------------------------------------
\* AddDomainToProjectUseCase and AddProjectLocationUseCase.

ReadProject(c) ==
    /\ add[c].pc = "ready"
    /\ \E p \in Projects, x \in Entries :
          /\ Stored(p)
          /\ add' = [add EXCEPT ![c] =
                        [IdleAdd EXCEPT !.pc = "assemble", !.project = p, !.entry = x,
                                        !.portfolio = portfolioOf[p],
                                        !.parts = {Domains, Locations}]]
          /\ crowded' = IF Adding(p) = {} THEN crowded ELSE crowded \cup {p}
          /\ contested' = IF \E b \in Adds : add[b].entry = x
                          THEN contested \cup {x} ELSE contested
    /\ UNCHANGED <<catalog, create, managing, accepted, detached, squeezed>>

\* The domains and the locations are read by two queries at once.
Assemble(c) ==
    LET x == add[c]
    IN /\ x.pc = "assemble"
       /\ \E part \in x.parts :
             add' = [add EXCEPT ![c] =
                        [@ EXCEPT !.pc = IF x.parts # {part} THEN "assemble"
                                         ELSE IF x.entry \in Domains THEN "own" ELSE "save",
                                  !.parts = x.parts \ {part},
                                  !.read = x.read \cup (attached[x.project] \cap part)]]
       /\ UNCHANGED <<catalog, create, managing, incidents>>

\* Projects whose primary domain it is.
PrimaryOwners(d) == {q \in Projects : Stored(q) /\ PrimaryOf[q] = d}

\* The project that has the domain as its primary one, or else one of those that
\* have it attached.
Owners(d) ==
    IF PrimaryOwners(d) # {} THEN PrimaryOwners(d)
    ELSE {q \in Projects : d \in attached[q]}

\* A domain of another project of the organization is refused.
FindOwner(c) ==
    /\ add[c].pc = "own"
    /\ LET owners == Owners(add[c].entry)
       IN \E owner \in IF owners = {} THEN {add[c].project} ELSE owners :
             add' = [add EXCEPT ![c] =
                        IF owner = add[c].project THEN [@ EXCEPT !.pc = "save"] ELSE DoneAdd]
    /\ UNCHANGED <<catalog, create, managing, incidents>>

\* Mutant of Rewritten: the domains are rewritten and the locations left out.
RewrittenAlone(read, x) == {x} \cup (read \cap (IF x \in Domains THEN Domains ELSE Locations))

Rewritten(read, x) == read \cup {x}

\* What is attached already is refused.  The row is written as it was read, the
\* portfolio with it, and the foreign key may refuse it.
SaveProject(c) ==
    LET x == add[c]
        saved == x.entry \notin x.read /\ Referable(x.portfolio)
    IN /\ x.pc = "save"
       /\ add' = [add EXCEPT ![c] = DoneAdd]
       /\ IF saved
          THEN /\ attached' = [attached EXCEPT ![x.project] = Rewritten(x.read, x.entry)]
               /\ portfolioOf' = [portfolioOf EXCEPT ![x.project] = x.portfolio]
               /\ accepted' = accepted \cup {<<x.project, x.entry>>}
               /\ squeezed' = IF Counted(x.portfolio) THEN squeezed \cup {x.project} ELSE squeezed
          ELSE UNCHANGED <<attached, portfolioOf, accepted, squeezed>>
       /\ UNCHANGED <<portfolios, create, managing, crowded, contested, detached>>

-----------------------------------------------------------------------------
\* Portfolios.

CreatePortfolio(f) ==
    /\ portfolios[f] = "new"
    /\ portfolios' = [portfolios EXCEPT ![f] = "there"]
    /\ UNCHANGED <<attached, portfolioOf, create, add, managing, incidents>>

ReadPortfolio(m) ==
    /\ managing[m].pc = "ready"
    /\ \E f \in Portfolios, pc \in {"rename", "count"} :
          /\ portfolios[f] = "there"
          /\ managing' = [managing EXCEPT ![m] = [pc |-> pc, portfolio |-> f]]
    /\ UNCHANGED <<catalog, create, add, incidents>>

\* The upsert inserts the row again if it was deleted meanwhile.
SavePortfolio(m) ==
    /\ managing[m].pc = "rename"
    /\ portfolios' = [portfolios EXCEPT ![managing[m].portfolio] = "there"]
    /\ managing' = [managing EXCEPT ![m] = [IdleManaging EXCEPT !.pc = "done"]]
    /\ UNCHANGED <<attached, portfolioOf, create, add, incidents>>

\* Mutant of Vacant: projects are not counted.
NeverCounted(f) == TRUE

\* No project is in the portfolio.
Vacant(f) == \A p \in Projects : portfolioOf[p] # f

CountProjects(m) ==
    /\ managing[m].pc = "count"
    /\ managing' = [managing EXCEPT ![m] =
                       IF Vacant(managing[m].portfolio) THEN [@ EXCEPT !.pc = "delete"]
                       ELSE [IdleManaging EXCEPT !.pc = "done"]]
    /\ UNCHANGED <<catalog, create, add, incidents>>

\* The foreign key sets the portfolio of what is still in it to NULL.
DeletePortfolio(m) ==
    LET f == managing[m].portfolio
        members == {p \in Projects : portfolioOf[p] = f}
    IN /\ managing[m].pc = "delete"
       /\ portfolios' = [portfolios EXCEPT ![f] = "deleted"]
       /\ portfolioOf' = [p \in Projects |-> IF p \in members THEN None ELSE portfolioOf[p]]
       /\ detached' = detached \cup members
       /\ managing' = [managing EXCEPT ![m] = [IdleManaging EXCEPT !.pc = "done"]]
       /\ UNCHANGED <<attached, create, add, accepted, crowded, contested, squeezed>>

-----------------------------------------------------------------------------
ProjectInit ==
    /\ attached = [p \in Projects |-> {}]
    /\ portfolioOf = [p \in Projects |-> None]
    /\ portfolios = [f \in Portfolios |-> "new"]
    /\ create = [p \in Projects |-> "ready"]
    /\ add = [c \in Adds |-> IdleAdd]
    /\ managing = [m \in PortfolioCalls |-> IdleManaging]
    /\ accepted = {}
    /\ crowded = {}
    /\ contested = {}
    /\ detached = {}
    /\ squeezed = {}

ProjectNext ==
    \/ \E p \in Projects : FindPrimary(p) \/ InsertProject(p)
    \/ \E c \in Adds : ReadProject(c) \/ Assemble(c) \/ FindOwner(c) \/ SaveProject(c)
    \/ \E f \in Portfolios : CreatePortfolio(f)
    \/ \E m \in PortfolioCalls :
          ReadPortfolio(m) \/ SavePortfolio(m) \/ CountProjects(m) \/ DeletePortfolio(m)

ProjectSpec == ProjectInit /\ [][ProjectNext]_projectVars

-----------------------------------------------------------------------------
\* However deletions overlap with renames that bring a portfolio back and with
\* adds that write the portfolio they read: a project is in one that exists.
PortfolioExists ==
    \A p \in Projects : portfolioOf[p] # None => portfolios[portfolioOf[p]] = "there"

\* Types; and every project keeps its primary domain.
ProjectTypeOK ==
    /\ attached \in [Projects -> SUBSET Entries]
    /\ portfolioOf \in [Projects -> Portfolios \cup {None}]
    /\ portfolios \in [Portfolios -> {"new", "there", "deleted"}]
    /\ create \in [Projects -> {"ready", "save", "done"}]
    /\ add \in [Adds -> Add]
    /\ managing \in [PortfolioCalls -> Managing]
    /\ accepted \subseteq Projects \X Entries
    /\ crowded \subseteq Projects
    /\ contested \subseteq Entries
    /\ detached \subseteq Projects
    /\ squeezed \subseteq Projects
    /\ \A p \in Projects : Stored(p) => PrimaryOf[p] \in attached[p]
    /\ PortfolioExists

\* Every add rewrites all domains and locations of its project from what it read:
\* what a call added with success is there for good, unless two calls were adding
\* to one project at once.
AddsLast ==
    \A p \in Projects \ crowded, x \in Entries : <<p, x>> \in accepted => x \in attached[p]

\* Of the comment on the add ("the cross-project unique constraint hits at save
\* time"): a domain is added with success to one project of the organization.
DomainInOneProject ==
    \A p, q \in Projects, d \in Domains :
        /\ <<p, d>> \in accepted /\ <<q, d>> \in accepted
        => p = q

\* What is left of it without that constraint, of which the schema has none: two
\* projects share a domain only if it is the primary one of either, which a
\* creation does not ask about, or two calls were adding it, or to one of the
\* projects, at once: the second may write back a domain that the first has lost.
DomainsSharedByRace ==
    \A p, q \in Projects \ crowded, d \in Domains :
        /\ p # q
        /\ d \in attached[p] \cap attached[q]
        => d \in {PrimaryOf[p], PrimaryOf[q]} \cup contested

\* Of the deletion of a portfolio ("still has ... project(s) attached - reassign
\* them before deleting"): it takes the portfolio of a project away only if
\* the project was saved after the projects were counted.
DetachedBySqueeze == detached \subseteq squeezed
=============================================================================
