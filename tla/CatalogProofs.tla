---------------------------- MODULE CatalogProofs ----------------------------
(***************************************************************************)
(* Proofs about projects with their domains and portfolios, and about the  *)
(* keywords tracked for them: what survives calls that each write back     *)
(* what they have read, what the alerts of a keyword say of its rank, and  *)
(* that no snapshot ranks a site above its rankings.                       *)
(***************************************************************************)
EXTENDS ProjectCatalog, RankTracking, WellFoundedInduction, TLAPS

\* What of a part was attached was seen when the part was read.
HasRead(x, e) == \A part \in {Domains, Locations} \ x.parts : e \in part => e \in x.read

\* A call that adds: what it has read is still there, and it has read the primary
\* domain and all that was added before, unless two calls were adding at once.
AddSound(c) ==
    LET x == add[c]
    IN /\ x.pc \in {"ready", "done"} => x.project = None /\ x.entry = None
       /\ x.pc \in {"assemble", "own", "save"}
          => /\ x.project \in Projects /\ x.entry \in Entries /\ Stored(x.project)
             /\ HasRead(x, PrimaryOf[x.project])
             /\ x.project \notin crowded
                => /\ x.read \subseteq attached[x.project]
                   /\ \A e \in Entries : <<x.project, e>> \in accepted => HasRead(x, e)
       /\ x.pc \in {"own", "save"} => x.parts = {}

\* A call that is about to add a domain found no other project that has it.
Unowned(c) ==
    LET x == add[c]
    IN \A q \in Projects \ crowded :
          /\ x.pc = "save" /\ x.entry \in Domains \ contested
          /\ x.project \notin crowded /\ q # x.project /\ x.entry \in attached[q]
          => x.entry \in {PrimaryOf[x.project], PrimaryOf[q]}

\* Two calls at once are on record.
OneAtATime ==
    \A b, c \in Adds :
        /\ b # c
        => /\ add[b].project \in Projects /\ add[b].project = add[c].project
              => add[b].project \in crowded
           /\ add[b].entry \in Entries /\ add[b].entry = add[c].entry
              => add[b].entry \in contested

\* A deletion that has counted no project finds one only if it was saved since.
DeletionSound(m) ==
    LET x == managing[m]
    IN /\ x.pc \in {"rename", "count", "delete"} => x.portfolio \in Portfolios
       /\ x.pc = "delete"
          => \A p \in Projects : portfolioOf[p] = x.portfolio => p \in squeezed

\* What the calls that add rely on.
AddsSound ==
    /\ AddsLast
    /\ DomainsSharedByRace
    /\ OneAtATime
    /\ \A c \in Adds : AddSound(c) /\ Unowned(c)

\* What the deletions of portfolios rely on.
DeletionsSound ==
    /\ DetachedBySqueeze
    /\ \A m \in PortfolioCalls : DeletionSound(m)

ProjectInv == ProjectTypeOK /\ AddsSound /\ DeletionsSound

-----------------------------------------------------------------------------
\* Projects.

LEMMA IdleAddTypes ==
    /\ IdleAdd \in Add /\ IdleAdd.pc = "ready" /\ IdleAdd.project = None /\ IdleAdd.entry = None
    /\ DoneAdd \in Add /\ DoneAdd.pc = "done" /\ DoneAdd.project = None /\ DoneAdd.entry = None
BY DEF IdleAdd, DoneAdd, Add

LEMMA NoneFacts == None \notin Projects /\ None \notin Portfolios /\ None \notin Entries
BY NoneAssumption

LEMMA ProjectInitially == ProjectInit => ProjectInv
<1> SUFFICES ASSUME ProjectInit PROVE ProjectInv
    OBVIOUS
<1>1. ProjectTypeOK
    BY IdleAddTypes DEF ProjectInit, ProjectTypeOK, IdleManaging, Managing, Stored, PortfolioExists
<1>2. \A c \in Adds : add[c] = IdleAdd
    BY DEF ProjectInit
<1>3. \A c \in Adds : AddSound(c) /\ Unowned(c)
    BY <1>2, IdleAddTypes DEF AddSound, Unowned
<1>4. OneAtATime
    BY <1>2, IdleAddTypes, NoneFacts DEF OneAtATime
<1>5. \A m \in PortfolioCalls : DeletionSound(m)
    BY DEF ProjectInit, DeletionSound, IdleManaging
<1>6. AddsLast /\ DomainsSharedByRace /\ DetachedBySqueeze
    BY DEF ProjectInit, AddsLast, DomainsSharedByRace, DetachedBySqueeze
<1> QED BY <1>1, <1>3, <1>4, <1>5, <1>6 DEF ProjectInv, AddsSound, DeletionsSound

LEMMA AddsStay ==
    ASSUME AddsSound, UNCHANGED <<attached, add, accepted, crowded, contested>>
    PROVE  AddsSound'
<1>1. AddsLast' /\ DomainsSharedByRace' /\ OneAtATime'
    BY DEF AddsSound, AddsLast, DomainsSharedByRace, OneAtATime
<1>2. \A c \in Adds : AddSound(c)' /\ Unowned(c)'
    BY DEF AddsSound, AddSound, Unowned, Stored
<1> QED BY <1>1, <1>2 DEF AddsSound

LEMMA DeletionsStay ==
    ASSUME DeletionsSound, UNCHANGED <<portfolioOf, managing, detached, squeezed>>
    PROVE  DeletionsSound'
BY DEF DeletionsSound, DetachedBySqueeze, DeletionSound

LEMMA FindPrimaryStep ==
    ASSUME ProjectInv, NEW p \in Projects, FindPrimary(p)
    PROVE  ProjectInv'
<1>1. create' \in [Projects -> {"ready", "save", "done"}]
    BY DEF FindPrimary, ProjectInv, ProjectTypeOK
<1>2. ProjectTypeOK'
    BY <1>1 DEF FindPrimary, ProjectInv, ProjectTypeOK, Stored, PortfolioExists, catalog, incidents
<1> QED BY <1>2, AddsStay, DeletionsStay DEF FindPrimary, catalog, incidents, ProjectInv

\* A portfolio that is counted is one that a deletion is about to delete.
LEMMA CountedBy ==
    ASSUME ProjectTypeOK, NEW m \in PortfolioCalls, managing[m].pc = "delete"
    PROVE  Counted(managing[m].portfolio)
<1>1. managing[m] \in Managing
    BY DEF ProjectTypeOK
<1>2. managing[m] = [pc |-> "delete", portfolio |-> managing[m].portfolio]
    BY <1>1 DEF Managing
<1> QED BY <1>2 DEF Counted

\* A project that is saved with a portfolio that is counted is noted.
LEMMA SavedWith ==
    ASSUME ProjectTypeOK, DeletionsSound, NEW p \in Projects, NEW f,
           portfolioOf' = [portfolioOf EXCEPT ![p] = f],
           squeezed' = IF Counted(f) THEN squeezed \cup {p} ELSE squeezed,
           UNCHANGED <<managing, detached>>
    PROVE  DeletionsSound'
<1>1. squeezed \subseteq squeezed'
    OBVIOUS
<1>2. ASSUME NEW m \in PortfolioCalls, managing[m].pc = "delete", NEW q \in Projects,
             portfolioOf'[q] = managing[m].portfolio
      PROVE  q \in squeezed'
    <2>1. CASE q = p
        <3>1. f = managing[m].portfolio
            BY <1>2, <2>1 DEF ProjectTypeOK
        <3> QED BY <1>2, <2>1, <3>1, CountedBy
    <2>2. CASE q # p
        BY <1>1, <1>2, <2>2 DEF ProjectTypeOK, DeletionsSound, DeletionSound
    <2> QED BY <2>1, <2>2
<1>3. \A m \in PortfolioCalls : DeletionSound(m)'
    BY <1>2 DEF DeletionsSound, DeletionSound
<1> QED BY <1>1, <1>3 DEF DeletionsSound, DetachedBySqueeze

LEMMA InsertProjectStep ==
    ASSUME ProjectInv, NEW p \in Projects, InsertProject(p)
    PROVE  ProjectInv'
<1>1. /\ create' = [create EXCEPT ![p] = "done"]
      /\ UNCHANGED <<portfolios, add, managing, accepted, crowded, contested, detached>>
    BY DEF InsertProject
<1>2. create' \in [Projects -> {"ready", "save", "done"}]
    BY <1>1 DEF ProjectInv, AddsSound, DeletionsSound, ProjectTypeOK
<1>3. PICK f \in Portfolios \cup {None}, locations \in SUBSET Locations :
          IF PrimaryTaken(p) \/ ~Referable(f)
          THEN UNCHANGED <<attached, portfolioOf, squeezed>>
          ELSE /\ attached' = [attached EXCEPT ![p] = {PrimaryOf[p]} \cup locations]
               /\ portfolioOf' = [portfolioOf EXCEPT ![p] = f]
               /\ squeezed' = IF Counted(f) THEN squeezed \cup {p} ELSE squeezed
    BY DEF InsertProject
<1>4. CASE PrimaryTaken(p) \/ ~Referable(f)
    <2>1. UNCHANGED <<attached, portfolioOf, squeezed>>
        BY <1>3, <1>4
    <2>2. ProjectTypeOK'
        BY <1>1, <1>2, <2>1 DEF ProjectInv, AddsSound, DeletionsSound, ProjectTypeOK, Stored, PortfolioExists
    <2> QED BY <1>1, <2>1, <2>2, AddsStay, DeletionsStay DEF ProjectInv
<1>5. CASE ~PrimaryTaken(p) /\ Referable(f)
    <2>1. /\ attached' = [attached EXCEPT ![p] = {PrimaryOf[p]} \cup locations]
          /\ portfolioOf' = [portfolioOf EXCEPT ![p] = f]
          /\ squeezed' = IF Counted(f) THEN squeezed \cup {p} ELSE squeezed
        BY <1>3, <1>5
    <2>2. attached[p] = {}
        BY <1>5 DEF PrimaryTaken, Stored
    <2>3. PrimaryOf[p] \in Domains
        BY PrimaryAssumption
    <2>4. /\ attached' \in [Projects -> SUBSET Entries] /\ PrimaryOf[p] \in attached'[p]
          /\ \A q \in Projects : q # p => attached'[q] = attached[q]
          /\ \A q \in Projects : attached[q] \subseteq attached'[q]
          /\ \A d \in Domains : d \in attached'[p] => d = PrimaryOf[p]
        BY <2>1, <2>2, <2>3, EntriesAssumption DEF ProjectInv, AddsSound, DeletionsSound, ProjectTypeOK, Entries
    <2>5. /\ portfolioOf' \in [Projects -> Portfolios \cup {None}]
          /\ portfolioOf'[p] = f /\ \A q \in Projects : q # p => portfolioOf'[q] = portfolioOf[q]
        BY <2>1 DEF ProjectInv, AddsSound, DeletionsSound, ProjectTypeOK
    <2>6. PortfolioExists'
        BY <1>1, <1>5, <2>5 DEF ProjectInv, AddsSound, DeletionsSound, ProjectTypeOK, PortfolioExists, Referable
    <2>7. squeezed' \subseteq Projects
        BY <2>1 DEF ProjectInv, AddsSound, DeletionsSound, ProjectTypeOK
    <2>8. \A q \in Projects : Stored(q)' => PrimaryOf[q] \in attached'[q]
        BY <2>4 DEF ProjectInv, AddsSound, DeletionsSound, ProjectTypeOK, Stored
    <2>9. ProjectTypeOK'
        BY <1>1, <1>2, <2>4, <2>5, <2>6, <2>7, <2>8 DEF ProjectInv, AddsSound, DeletionsSound, ProjectTypeOK
    <2>10. AddsSound'
        <3>1. AddsLast'
            BY <1>1, <2>4 DEF ProjectInv, AddsSound, DeletionsSound, AddsLast
        <3>2. DomainsSharedByRace'
            BY <1>1, <2>4 DEF ProjectInv, AddsSound, DeletionsSound, DomainsSharedByRace
        <3>3. OneAtATime'
            BY <1>1 DEF ProjectInv, AddsSound, DeletionsSound, OneAtATime
        <3>4. ASSUME NEW c \in Adds PROVE AddSound(c)' /\ Unowned(c)'
            <4>1. \A q \in Projects : Stored(q) => Stored(q)'
                BY <2>4 DEF Stored
            <4>2. AddSound(c)'
                BY <1>1, <2>4, <4>1 DEF ProjectInv, AddsSound, DeletionsSound, AddSound
            <4>3. Unowned(c)'
                BY <1>1, <2>4 DEF ProjectInv, AddsSound, DeletionsSound, Unowned
            <4> QED BY <4>2, <4>3
        <3> QED BY <3>1, <3>2, <3>3, <3>4 DEF AddsSound
    <2>11. DeletionsSound'
        BY <1>1, <2>1, SavedWith DEF ProjectInv
    <2> QED BY <2>9, <2>10, <2>11 DEF ProjectInv
<1> QED BY <1>4, <1>5

\* The types of a step of a call that adds.
LEMMA AddMoves ==
    ASSUME ProjectInv, NEW c \in Adds, NEW y \in Add, add' = [add EXCEPT ![c] = y],
           UNCHANGED <<catalog, create, managing, accepted, detached, squeezed>>,
           crowded' \subseteq Projects, contested' \subseteq Entries, AddsSound'
    PROVE  ProjectInv'
<1>1. add' \in [Adds -> Add]
    BY DEF ProjectInv, ProjectTypeOK
<1>2. ProjectTypeOK'
    BY <1>1 DEF ProjectInv, ProjectTypeOK, Stored, PortfolioExists, catalog
<1>3. DeletionsSound'
    BY DeletionsStay DEF ProjectInv, catalog
<1> QED BY <1>2, <1>3 DEF ProjectInv

LEMMA AddTypes ==
    ASSUME ProjectInv, NEW c \in Adds
    PROVE  add[c] \in Add /\ AddSound(c) /\ Unowned(c) /\ OneAtATime
BY DEF ProjectInv, ProjectTypeOK, AddsSound

LEMMA ReadProjectStep ==
    ASSUME ProjectInv, NEW c \in Adds, ReadProject(c)
    PROVE  ProjectInv'
<1>1. PICK p \in Projects, e \in Entries :
          /\ Stored(p)
          /\ add' = [add EXCEPT ![c] =
                        [IdleAdd EXCEPT !.pc = "assemble", !.project = p, !.entry = e,
                                        !.portfolio = portfolioOf[p],
                                        !.parts = {Domains, Locations}]]
          /\ crowded' = IF Adding(p) = {} THEN crowded ELSE crowded \cup {p}
          /\ contested' = IF \E b \in Adds : add[b].entry = e
                          THEN contested \cup {e} ELSE contested
    BY DEF ReadProject
<1>2. UNCHANGED <<catalog, create, managing, accepted, detached, squeezed>> /\ add[c].pc = "ready"
    BY DEF ReadProject
<1> DEFINE y == [IdleAdd EXCEPT !.pc = "assemble", !.project = p, !.entry = e,
                                !.portfolio = portfolioOf[p], !.parts = {Domains, Locations}]
<1>3. /\ y \in Add /\ y.pc = "assemble" /\ y.project = p /\ y.entry = e /\ y.read = {}
      /\ y.parts = {Domains, Locations}
    BY DEF IdleAdd, Add, ProjectInv, ProjectTypeOK
<1>4. add' = [add EXCEPT ![c] = y]
    BY <1>1
<1> HIDE DEF y
<1>5. add'[c] = y /\ \A b \in Adds : b # c => add'[b] = add[b]
    BY <1>4 DEF ProjectInv, ProjectTypeOK
<1>6. /\ crowded' \subseteq Projects /\ crowded \subseteq crowded'
      /\ contested' \subseteq Entries /\ contested \subseteq contested'
    BY <1>1 DEF ProjectInv, ProjectTypeOK
<1>7. attached' = attached /\ accepted' = accepted
    BY <1>2 DEF catalog
<1>8. AddsLast' /\ DomainsSharedByRace'
    BY <1>6, <1>7 DEF ProjectInv, AddsSound, AddsLast, DomainsSharedByRace
<1>9. ASSUME NEW a \in Adds, NEW b \in Adds, a # b
      PROVE  /\ add'[a].project \in Projects /\ add'[a].project = add'[b].project
                => add'[a].project \in crowded'
             /\ add'[a].entry \in Entries /\ add'[a].entry = add'[b].entry
                => add'[a].entry \in contested'
    <2>1. CASE a # c /\ b # c
        BY <1>5, <1>6, <1>9, <2>1, AddTypes DEF OneAtATime
    <2>2. CASE a = c
        BY <1>1, <1>3, <1>5, <1>9, <2>2 DEF Adding
    <2>3. CASE b = c
        BY <1>1, <1>3, <1>5, <1>9, <2>3 DEF Adding
    <2> QED BY <2>1, <2>2, <2>3
<1>10. ASSUME NEW b \in Adds PROVE AddSound(b)' /\ Unowned(b)'
    <2>1. CASE b = c
        <3>1. \A x \in Entries : HasRead(y, x)
            BY <1>3 DEF HasRead
        <3>2. PrimaryOf[p] \in Entries
            BY PrimaryAssumption DEF Entries
        <3>3. Stored(p)'
            BY <1>1, <1>7 DEF Stored
        <3>4. AddSound(b)'
            BY <1>3, <1>5, <2>1, <3>1, <3>2, <3>3 DEF AddSound
        <3>5. Unowned(b)'
            BY <1>3, <1>5, <2>1 DEF Unowned
        <3> QED BY <3>4, <3>5
    <2>2. CASE b # c
        <3>1. add'[b] = add[b] /\ AddSound(b) /\ Unowned(b)
            BY <1>5, <2>2, AddTypes
        <3>2. AddSound(b)'
            BY <1>6, <1>7, <3>1 DEF AddSound, Stored
        <3>3. Unowned(b)'
            BY <1>6, <1>7, <3>1 DEF Unowned
        <3> QED BY <3>2, <3>3
    <2> QED BY <2>1, <2>2
<1>11. OneAtATime'
    BY <1>9 DEF OneAtATime
<1> QED BY <1>2, <1>3, <1>4, <1>6, <1>8, <1>10, <1>11, AddMoves DEF AddsSound

\* A call that goes on with its project and its entry, or ends.
LEMMA AddGoesOn ==
    ASSUME ProjectInv, NEW c \in Adds, NEW y \in Add, add' = [add EXCEPT ![c] = y],
           UNCHANGED <<catalog, create, managing, incidents>>,
           y = DoneAdd \/ (y.project = add[c].project /\ y.entry = add[c].entry),
           AddSound(c)', Unowned(c)'
    PROVE  ProjectInv'
<1>1. add'[c] = y /\ \A b \in Adds : b # c => add'[b] = add[b]
    BY DEF ProjectInv, ProjectTypeOK
<1>2. UNCHANGED <<attached, accepted, crowded, contested, detached, squeezed>>
    BY DEF catalog, incidents
<1>3. AddsLast' /\ DomainsSharedByRace'
    BY <1>2 DEF ProjectInv, AddsSound, AddsLast, DomainsSharedByRace
<1>4. ASSUME NEW a \in Adds, NEW b \in Adds, a # b
      PROVE  /\ add'[a].project \in Projects /\ add'[a].project = add'[b].project
                => add'[a].project \in crowded'
             /\ add'[a].entry \in Entries /\ add'[a].entry = add'[b].entry
                => add'[a].entry \in contested'
    <2>1. \A x \in Adds : /\ add'[x].project \in Projects => add'[x].project = add[x].project
                          /\ add'[x].entry \in Entries => add'[x].entry = add[x].entry
        BY <1>1, IdleAddTypes, NoneFacts
    <2> QED BY <1>2, <1>4, <2>1, AddTypes DEF OneAtATime
<1>5. ASSUME NEW b \in Adds PROVE AddSound(b)' /\ Unowned(b)'
    <2>1. CASE b = c
        BY <2>1
    <2>2. CASE b # c
        <3>1. add'[b] = add[b] /\ AddSound(b) /\ Unowned(b)
            BY <1>1, <2>2, AddTypes
        <3> QED BY <1>2, <3>1 DEF AddSound, Unowned, Stored
    <2> QED BY <2>1, <2>2
<1>6. OneAtATime'
    BY <1>4 DEF OneAtATime
<1>7. AddsSound'
    BY <1>3, <1>5, <1>6 DEF AddsSound
<1>8. crowded' \subseteq Projects /\ contested' \subseteq Entries
    BY <1>2 DEF ProjectInv, ProjectTypeOK
<1> QED BY <1>2, <1>7, <1>8, AddMoves

LEMMA DoneIsSound ==
    ASSUME NEW c \in Adds, add'[c] = DoneAdd
    PROVE  AddSound(c)' /\ Unowned(c)'
BY IdleAddTypes DEF AddSound, Unowned

LEMMA AssembleStep ==
    ASSUME ProjectInv, NEW c \in Adds, Assemble(c)
    PROVE  ProjectInv'
<1>1. PICK x \in Add : x = add[c]
    BY AddTypes
<1>2. PICK part \in x.parts :
          add' = [add EXCEPT ![c] =
                     [@ EXCEPT !.pc = IF x.parts # {part} THEN "assemble"
                                      ELSE IF x.entry \in Domains THEN "own" ELSE "save",
                               !.parts = x.parts \ {part},
                               !.read = x.read \cup (attached[x.project] \cap part)]]
    BY <1>1 DEF Assemble
<1> DEFINE step == IF x.parts # {part} THEN "assemble"
                   ELSE IF x.entry \in Domains THEN "own" ELSE "save"
           y == [x EXCEPT !.pc = step, !.parts = x.parts \ {part},
                          !.read = x.read \cup (attached[x.project] \cap part)]
<1>3. UNCHANGED <<catalog, create, managing, incidents>> /\ x.pc = "assemble"
    BY <1>1 DEF Assemble
<1>4. /\ x.project \in Projects /\ x.entry \in Entries /\ Stored(x.project)
      /\ HasRead(x, PrimaryOf[x.project])
      /\ x.project \notin crowded
         => /\ x.read \subseteq attached[x.project]
            /\ \A e \in Entries : <<x.project, e>> \in accepted => HasRead(x, e)
    BY <1>1, <1>3, AddTypes DEF AddSound
<1>5. attached[x.project] \subseteq Entries
    BY <1>4 DEF ProjectInv, ProjectTypeOK
<1>6. add' = [add EXCEPT ![c] = y]
    BY <1>1, <1>2
<1>7. /\ y \in Add /\ y.pc = step /\ y.project = x.project /\ y.entry = x.entry
      /\ y.parts = x.parts \ {part} /\ y.read = x.read \cup (attached[x.project] \cap part)
    BY <1>5 DEF Add
<1>8. step \in {"assemble", "own", "save"} /\ (step # "assemble" => y.parts = {})
      /\ (step = "save" => x.entry \notin Domains)
    BY <1>7
<1> HIDE DEF y, step
<1>9. add'[c] = y
    BY <1>6 DEF ProjectInv, ProjectTypeOK
<1>10. UNCHANGED <<attached, accepted, crowded, contested>>
    BY <1>3 DEF catalog, incidents
<1>11. \A e \in attached[x.project] : HasRead(x, e) => HasRead(y, e)
    BY <1>7 DEF HasRead
<1>12. PrimaryOf[x.project] \in attached[x.project]
    BY <1>4 DEF ProjectInv, ProjectTypeOK
<1>13. x.project \notin crowded =>
          \A e \in Entries : <<x.project, e>> \in accepted => HasRead(y, e)
    BY <1>4, <1>11 DEF ProjectInv, AddsSound, AddsLast
<1>14. x.project \notin crowded => y.read \subseteq attached[x.project]
    BY <1>4, <1>7
<1>15. Stored(x.project)'
    BY <1>4, <1>10 DEF Stored
<1>16. HasRead(y, PrimaryOf[x.project])
    BY <1>4, <1>11, <1>12
<1>17. AddSound(c)'
    BY <1>4, <1>7, <1>8, <1>9, <1>10, <1>13, <1>14, <1>15, <1>16 DEF AddSound
<1>18. Unowned(c)'
    BY <1>7, <1>8, <1>9 DEF Unowned
<1> QED BY <1>1, <1>3, <1>6, <1>7, <1>17, <1>18, AddGoesOn

LEMMA FindOwnerStep ==
    ASSUME ProjectInv, NEW c \in Adds, FindOwner(c)
    PROVE  ProjectInv'
<1>1. PICK x \in Add : x = add[c]
    BY AddTypes
<1> DEFINE owners == Owners(x.entry)
<1>2. PICK owner \in IF owners = {} THEN {x.project} ELSE owners :
          add' = [add EXCEPT ![c] = IF owner = x.project THEN [@ EXCEPT !.pc = "save"] ELSE DoneAdd]
    BY <1>1 DEF FindOwner
<1>3. UNCHANGED <<catalog, create, managing, incidents>> /\ x.pc = "own"
    BY <1>1 DEF FindOwner
<1>4. UNCHANGED <<attached, accepted, crowded, contested>>
    BY <1>3 DEF catalog, incidents
<1>5. CASE owner # x.project
    <2>1. add' = [add EXCEPT ![c] = DoneAdd] /\ add'[c] = DoneAdd
        BY <1>2, <1>5 DEF ProjectInv, ProjectTypeOK
    <2> QED BY <1>3, <2>1, IdleAddTypes, DoneIsSound, AddGoesOn
<1>6. CASE owner = x.project
    <2> DEFINE y == [x EXCEPT !.pc = "save"]
    <2>1. /\ y \in Add /\ y.pc = "save" /\ y.project = x.project /\ y.entry = x.entry
          /\ y.read = x.read /\ y.parts = x.parts
        BY DEF Add
    <2>2. add' = [add EXCEPT ![c] = y]
        BY <1>1, <1>2, <1>6
    <2> HIDE DEF y
    <2>3. add'[c] = y
        BY <2>2 DEF ProjectInv, ProjectTypeOK
    <2>4. /\ x.project \in Projects /\ x.entry \in Entries /\ Stored(x.project) /\ x.parts = {}
          /\ HasRead(x, PrimaryOf[x.project])
          /\ x.project \notin crowded
             => /\ x.read \subseteq attached[x.project]
                /\ \A e \in Entries : <<x.project, e>> \in accepted => HasRead(x, e)
        BY <1>1, <1>3, AddTypes DEF AddSound
    <2>5. \A e \in Entries : HasRead(x, e) <=> HasRead(y, e)
        BY <2>1 DEF HasRead
    <2>6. Stored(x.project)'
        BY <1>4, <2>4 DEF Stored
    <2>7. PrimaryOf[x.project] \in Entries
        BY <2>4, PrimaryAssumption DEF Entries
    <2>8. AddSound(c)'
        BY <1>4, <2>1, <2>3, <2>4, <2>5, <2>6, <2>7 DEF AddSound
    <2>9. ASSUME NEW q \in Projects \ crowded, x.entry \in Domains \ contested,
                 x.project \notin crowded, q # x.project, x.entry \in attached[q]
          PROVE  x.entry \in {PrimaryOf[x.project], PrimaryOf[q]}
        <3>1. CASE PrimaryOwners(x.entry) # {}
            <4>1. x.project \in PrimaryOwners(x.entry)
                BY <1>2, <1>6, <3>1 DEF Owners
            <4> QED BY <4>1 DEF PrimaryOwners
        <3>2. CASE PrimaryOwners(x.entry) = {}
            <4>1. Owners(x.entry) = {r \in Projects : x.entry \in attached[r]}
                BY <3>2 DEF Owners
            <4>2. q \in Owners(x.entry)
                BY <2>9, <4>1
            <4>3. x.entry \in attached[x.project]
                BY <1>2, <1>6, <4>1, <4>2
            <4> QED BY <2>4, <2>9, <4>3 DEF ProjectInv, AddsSound, DomainsSharedByRace
        <3> QED BY <3>1, <3>2
    <2>10. Unowned(c)'
        BY <1>4, <2>1, <2>3, <2>9 DEF Unowned
    <2> QED BY <1>1, <1>3, <2>1, <2>2, <2>8, <2>10, AddGoesOn
<1> QED BY <1>5, <1>6

\* What a call writes back is all there was, unless another was adding at once.
LEMMA SaveProjectStep ==
    ASSUME ProjectInv, NEW c \in Adds, SaveProject(c)
    PROVE  ProjectInv'
<1>1. PICK x \in Add : x = add[c]
    BY AddTypes
<1>2. /\ x.pc = "save" /\ add' = [add EXCEPT ![c] = DoneAdd]
      /\ UNCHANGED <<portfolios, create, managing, crowded, contested, detached>>
    BY <1>1 DEF SaveProject
<1>3. add'[c] = DoneAdd /\ \A b \in Adds : b # c => add'[b] = add[b]
    BY <1>2 DEF ProjectInv, ProjectTypeOK
<1>4. CASE x.entry \in x.read \/ ~Referable(x.portfolio)
    <2>1. UNCHANGED <<attached, portfolioOf, accepted, squeezed>>
        BY <1>1, <1>4 DEF SaveProject
    <2> QED BY <1>2, <1>3, <2>1, IdleAddTypes, DoneIsSound, AddGoesOn DEF catalog, incidents
<1>5. CASE x.entry \notin x.read /\ Referable(x.portfolio)
    <2> DEFINE p == x.project
               e == x.entry
    <2>1. /\ attached' = [attached EXCEPT ![p] = x.read \cup {e}]
          /\ portfolioOf' = [portfolioOf EXCEPT ![p] = x.portfolio]
          /\ accepted' = accepted \cup {<<p, e>>}
          /\ squeezed' = IF Counted(x.portfolio) THEN squeezed \cup {p} ELSE squeezed
        BY <1>1, <1>5 DEF SaveProject, Rewritten
    <2>2. /\ p \in Projects /\ e \in Entries /\ Stored(p) /\ x.parts = {}
          /\ HasRead(x, PrimaryOf[p])
          /\ p \notin crowded
             => /\ x.read \subseteq attached[p]
                /\ \A d \in Entries : <<p, d>> \in accepted => HasRead(x, d)
        BY <1>1, <1>2, AddTypes DEF AddSound
    <2>3. \A d \in Entries : HasRead(x, d) => d \in x.read
        BY <2>2 DEF HasRead, Entries
    <2>4. x.read \subseteq Entries /\ x.portfolio \in Portfolios \cup {None}
        BY DEF Add
    <2>5. PrimaryOf[p] \in x.read
        BY <2>2, <2>3, PrimaryAssumption DEF Entries
    <2> HIDE DEF p, e
    <2>6. /\ attached' \in [Projects -> SUBSET Entries] /\ attached'[p] = x.read \cup {e}
          /\ \A q \in Projects : q # p => attached'[q] = attached[q]
        BY <2>1, <2>2, <2>4 DEF ProjectInv, ProjectTypeOK
    <2>7. \A q \in Projects : Stored(q)' => PrimaryOf[q] \in attached'[q]
        BY <2>5, <2>6 DEF ProjectInv, ProjectTypeOK, Stored
    <2>8. /\ portfolioOf' \in [Projects -> Portfolios \cup {None}]
          /\ portfolioOf'[p] = x.portfolio
          /\ \A q \in Projects : q # p => portfolioOf'[q] = portfolioOf[q]
        BY <2>1, <2>2, <2>4 DEF ProjectInv, ProjectTypeOK
    <2>9. PortfolioExists'
        BY <1>2, <1>5, <2>8 DEF ProjectInv, ProjectTypeOK, PortfolioExists, Referable
    <2>10. /\ add' \in [Adds -> Add] /\ squeezed' \subseteq Projects
           /\ accepted' \subseteq Projects \X Entries
        BY <1>2, <2>1, <2>2, IdleAddTypes DEF ProjectInv, ProjectTypeOK
    <2>11. ProjectTypeOK'
        BY <1>2, <2>6, <2>7, <2>8, <2>9, <2>10 DEF ProjectInv, ProjectTypeOK
    <2>12. ASSUME NEW q \in Projects \ crowded, NEW d \in Entries, <<q, d>> \in accepted'
           PROVE  d \in attached'[q]
        <3>1. CASE q = p /\ d # e
            <4>1. <<p, d>> \in accepted
                BY <2>1, <2>12, <3>1
            <4> QED BY <2>2, <2>3, <2>6, <2>12, <3>1, <4>1
        <3>2. CASE q = p /\ d = e
            BY <2>6, <3>2
        <3>3. CASE q # p
            <4>1. <<q, d>> \in accepted
                BY <2>1, <2>12, <3>3
            <4> QED BY <2>6, <3>3, <4>1 DEF ProjectInv, AddsSound, AddsLast
        <3> QED BY <3>1, <3>2, <3>3
    <2>13. AddsLast'
        BY <1>2, <2>12 DEF AddsLast
    <2>14. ASSUME NEW q \in Projects \ crowded, p \notin crowded, q # p,
                  NEW d \in Domains, d \in attached'[p] \cap attached'[q]
           PROVE  d \in {PrimaryOf[p], PrimaryOf[q]} \cup contested
        <3>1. CASE d \in x.read
            BY <2>2, <2>6, <2>14, <3>1 DEF ProjectInv, AddsSound, DomainsSharedByRace
        <3>2. CASE d = e
            BY <1>1, <1>2, <2>2, <2>6, <2>14, <3>2, AddTypes DEF Unowned, p, e
        <3> QED BY <2>6, <2>14, <3>1, <3>2
    <2>15. ASSUME NEW q \in Projects \ crowded, NEW r \in Projects \ crowded, NEW d \in Domains,
                  q # r, d \in attached'[q] \cap attached'[r]
           PROVE  d \in {PrimaryOf[q], PrimaryOf[r]} \cup contested
        <3>1. CASE q = p
            BY <2>14, <2>15, <3>1
        <3>2. CASE r = p
            BY <2>14, <2>15, <3>2
        <3>3. CASE q # p /\ r # p
            BY <2>6, <2>15, <3>3 DEF ProjectInv, AddsSound, DomainsSharedByRace
        <3> QED BY <3>1, <3>2, <3>3
    <2>16. DomainsSharedByRace'
        BY <1>2, <2>15 DEF DomainsSharedByRace
    <2>17. OneAtATime'
        <3>1. \A b \in Adds : /\ add'[b].project \in Projects => add'[b].project = add[b].project
                              /\ add'[b].entry \in Entries => add'[b].entry = add[b].entry
            BY <1>3, IdleAddTypes, NoneFacts
        <3> QED BY <1>2, <3>1 DEF ProjectInv, AddsSound, OneAtATime
    <2>18. ASSUME NEW b \in Adds, b # c PROVE AddSound(b)' /\ Unowned(b)'
        <3>1. PICK y \in Add : y = add[b] /\ y = add'[b]
            BY <1>3, <2>18, AddTypes
        <3>2. /\ y.project = p => p \in crowded
              /\ y.entry = e => e \in contested
            BY <1>1, <2>2, <2>18, <3>1, AddTypes DEF OneAtATime, p, e
        <3>3. \A q \in Projects : Stored(q) => Stored(q)'
            BY <2>5, <2>6 DEF Stored
        <3>4. \A d \in Entries : y.project # p /\ <<y.project, d>> \in accepted'
                                 => <<y.project, d>> \in accepted
            BY <2>1
        <3>5. AddSound(b)'
            <4>1. y.pc \in {"assemble", "own", "save"}
                  => /\ y.project \in Projects /\ y.entry \in Entries /\ Stored(y.project)
                     /\ HasRead(y, PrimaryOf[y.project])
                     /\ y.project \notin crowded
                        => /\ y.read \subseteq attached[y.project]
                           /\ \A d \in Entries : <<y.project, d>> \in accepted => HasRead(y, d)
                BY <2>18, <3>1, AddTypes DEF AddSound
            <4>2. /\ y.pc \in {"ready", "done"} => y.project = None /\ y.entry = None
                  /\ y.pc \in {"own", "save"} => y.parts = {}
                BY <2>18, <3>1, AddTypes DEF AddSound
            <4>3. y.pc \in {"assemble", "own", "save"} => Stored(y.project)'
                BY <3>3, <4>1
            <4>4. y.pc \in {"assemble", "own", "save"} /\ y.project \notin crowded
                  => /\ y.read \subseteq attached'[y.project]
                     /\ \A d \in Entries : <<y.project, d>> \in accepted' => HasRead(y, d)
                BY <2>6, <3>2, <3>4, <4>1
            <4>5. /\ add'[b] = y /\ crowded' = crowded
                BY <1>2, <3>1
            <4> HIDE DEF HasRead, Stored
            <4> QED BY <4>1, <4>2, <4>3, <4>4, <4>5 DEF AddSound, HasRead
        <3>6. ASSUME NEW q \in Projects \ crowded, y.pc = "save", y.entry \in Domains \ contested,
                     y.project \notin crowded, q # y.project, y.entry \in attached'[q]
              PROVE  y.entry \in {PrimaryOf[y.project], PrimaryOf[q]}
            <4>1. y.entry \in attached[q]
                <5>1. CASE q = p
                    BY <2>2, <2>6, <3>2, <3>6, <5>1
                <5>2. CASE q # p
                    BY <2>6, <3>6, <5>2
                <5> QED BY <5>1, <5>2
            <4>2. Unowned(b)
                BY <2>18, AddTypes
            <4> QED BY <3>1, <3>6, <4>1, <4>2 DEF Unowned
        <3>7. Unowned(b)'
            <4>1. add'[b] = y /\ crowded' = crowded /\ contested' = contested
                BY <1>2, <3>1
            <4> QED BY <3>6, <4>1 DEF Unowned
        <3> QED BY <3>5, <3>7
    <2>19. AddsSound'
        BY <1>3, <2>13, <2>16, <2>17, <2>18, DoneIsSound DEF AddsSound
    <2>20. DeletionsSound'
        BY <1>2, <2>1, <2>2, SavedWith DEF ProjectInv
    <2> QED BY <2>11, <2>19, <2>20 DEF ProjectInv
<1> QED BY <1>4, <1>5

-----------------------------------------------------------------------------
\* Portfolios.

LEMMA CreatePortfolioStep ==
    ASSUME ProjectInv, NEW f \in Portfolios, CreatePortfolio(f)
    PROVE  ProjectInv'
<1>1. /\ portfolios' = [portfolios EXCEPT ![f] = "there"]
      /\ UNCHANGED <<attached, portfolioOf, create, add, managing, accepted, crowded, contested,
                     detached, squeezed>>
    BY DEF CreatePortfolio, incidents
<1>2. /\ portfolios' \in [Portfolios -> {"new", "there", "deleted"}]
      /\ \A g \in Portfolios : portfolios[g] = "there" => portfolios'[g] = "there"
    BY <1>1 DEF ProjectInv, ProjectTypeOK
<1>3. ProjectTypeOK'
    BY <1>1, <1>2 DEF ProjectInv, ProjectTypeOK, Stored, PortfolioExists
<1> QED BY <1>1, <1>3, AddsStay, DeletionsStay DEF ProjectInv

\* A call on a portfolio moves on, and the projects stay.
LEMMA ManagingMoves ==
    ASSUME ProjectInv, NEW m \in PortfolioCalls, NEW y \in Managing,
           managing' = [managing EXCEPT ![m] = y],
           UNCHANGED <<attached, portfolioOf, create, add, incidents>>,
           portfolios' \in [Portfolios -> {"new", "there", "deleted"}],
           \A f \in Portfolios : portfolios[f] = "there" => portfolios'[f] = "there",
           y.pc \in {"rename", "count", "delete"} => y.portfolio \in Portfolios,
           y.pc = "delete" => \A p \in Projects : portfolioOf[p] # y.portfolio
    PROVE  ProjectInv'
<1>1. UNCHANGED <<accepted, crowded, contested, detached, squeezed>>
    BY DEF incidents
<1>2. /\ managing' \in [PortfolioCalls -> Managing] /\ managing'[m] = y
      /\ \A n \in PortfolioCalls : n # m => managing'[n] = managing[n]
    BY DEF ProjectInv, ProjectTypeOK
<1>3. ProjectTypeOK'
    BY <1>1, <1>2 DEF ProjectInv, ProjectTypeOK, Stored, PortfolioExists
<1>4. \A n \in PortfolioCalls : DeletionSound(n)'
    BY <1>1, <1>2 DEF ProjectInv, DeletionsSound, DeletionSound
<1>5. DeletionsSound'
    BY <1>1, <1>4 DEF ProjectInv, DeletionsSound, DetachedBySqueeze
<1> QED BY <1>1, <1>3, <1>5, AddsStay DEF ProjectInv

LEMMA ManagingTypes ==
    ASSUME ProjectInv, NEW m \in PortfolioCalls
    PROVE  /\ managing[m] \in Managing /\ DeletionSound(m)
           /\ [IdleManaging EXCEPT !.pc = "done"] \in Managing
           /\ [IdleManaging EXCEPT !.pc = "done"].pc = "done"
           /\ portfolios \in [Portfolios -> {"new", "there", "deleted"}]
BY DEF ProjectInv, ProjectTypeOK, DeletionsSound, IdleManaging, Managing

LEMMA ReadPortfolioStep ==
    ASSUME ProjectInv, NEW m \in PortfolioCalls, ReadPortfolio(m)
    PROVE  ProjectInv'
<1>1. PICK f \in Portfolios, step \in {"rename", "count"} :
          managing' = [managing EXCEPT ![m] = [pc |-> step, portfolio |-> f]]
    BY DEF ReadPortfolio
<1> DEFINE y == [pc |-> step, portfolio |-> f]
<1>2. y \in Managing /\ y.pc # "delete" /\ y.portfolio \in Portfolios
    BY DEF Managing
<1>3. UNCHANGED <<attached, portfolioOf, portfolios, create, add, incidents>>
    BY DEF ReadPortfolio, catalog
<1>4. managing' = [managing EXCEPT ![m] = y]
    BY <1>1
<1> HIDE DEF y
<1> QED BY <1>2, <1>3, <1>4, ManagingTypes, ManagingMoves

LEMMA SavePortfolioStep ==
    ASSUME ProjectInv, NEW m \in PortfolioCalls, SavePortfolio(m)
    PROVE  ProjectInv'
<1> DEFINE y == [IdleManaging EXCEPT !.pc = "done"]
<1>1. /\ managing' = [managing EXCEPT ![m] = y]
      /\ portfolios' = [portfolios EXCEPT ![managing[m].portfolio] = "there"]
      /\ UNCHANGED <<attached, portfolioOf, create, add, incidents>>
    BY DEF SavePortfolio
<1>2. /\ portfolios' \in [Portfolios -> {"new", "there", "deleted"}]
      /\ \A f \in Portfolios : portfolios[f] = "there" => portfolios'[f] = "there"
    BY <1>1, ManagingTypes
<1>3. y \in Managing /\ y.pc = "done"
    BY ManagingTypes
<1> HIDE DEF y
<1> QED BY <1>1, <1>2, <1>3, ManagingMoves

LEMMA CountProjectsStep ==
    ASSUME ProjectInv, NEW m \in PortfolioCalls, CountProjects(m)
    PROVE  ProjectInv'
<1>1. PICK x \in Managing : x = managing[m]
    BY ManagingTypes
<1> DEFINE y == IF Vacant(x.portfolio) THEN [x EXCEPT !.pc = "delete"]
                ELSE [IdleManaging EXCEPT !.pc = "done"]
<1>2. managing' = [managing EXCEPT ![m] = y] /\ x.pc = "count"
    BY <1>1 DEF CountProjects
<1>3. UNCHANGED <<attached, portfolioOf, portfolios, create, add, incidents>>
    BY DEF CountProjects, catalog
<1>4. x.portfolio \in Portfolios
    BY <1>1, <1>2, ManagingTypes DEF DeletionSound
<1>5. /\ y \in Managing
      /\ y.pc \in {"rename", "count", "delete"} => y.portfolio \in Portfolios
      /\ y.pc = "delete" => \A p \in Projects : portfolioOf[p] # y.portfolio
    <2>1. CASE Vacant(x.portfolio)
        <3>1. y = [x EXCEPT !.pc = "delete"]
            BY <2>1
        <3>2. y \in Managing /\ y.portfolio = x.portfolio
            BY <3>1 DEF Managing
        <3> QED BY <1>4, <2>1, <3>2 DEF Vacant
    <2>2. CASE ~Vacant(x.portfolio)
        BY <2>2, ManagingTypes
    <2> QED BY <2>1, <2>2
<1> HIDE DEF y
<1> QED BY <1>2, <1>3, <1>5, ManagingTypes, ManagingMoves

LEMMA DeletePortfolioStep ==
    ASSUME ProjectInv, NEW m \in PortfolioCalls, DeletePortfolio(m)
    PROVE  ProjectInv'
<1> DEFINE y == [IdleManaging EXCEPT !.pc = "done"]
<1>1. PICK f \in Portfolios : f = managing[m].portfolio
    BY ManagingTypes DEF DeletePortfolio, DeletionSound
<1>2. /\ managing[m].pc = "delete" /\ managing' = [managing EXCEPT ![m] = y]
      /\ portfolios' = [portfolios EXCEPT ![f] = "deleted"]
      /\ portfolioOf' = [p \in Projects |-> IF portfolioOf[p] = f THEN None ELSE portfolioOf[p]]
      /\ detached' = detached \cup {p \in Projects : portfolioOf[p] = f}
      /\ UNCHANGED <<attached, create, add, accepted, crowded, contested, squeezed>>
    BY <1>1 DEF DeletePortfolio
<1>3. y \in Managing /\ y.pc = "done"
    BY ManagingTypes
<1> HIDE DEF y
<1>4. /\ managing' \in [PortfolioCalls -> Managing] /\ managing'[m] = y
      /\ \A n \in PortfolioCalls : n # m => managing'[n] = managing[n]
    BY <1>2, <1>3 DEF ProjectInv, ProjectTypeOK
<1>5. PortfolioExists'
    BY <1>2, NoneFacts DEF ProjectInv, ProjectTypeOK, PortfolioExists
<1>6. /\ portfolioOf' \in [Projects -> Portfolios \cup {None}]
      /\ portfolios' \in [Portfolios -> {"new", "there", "deleted"}]
      /\ detached' \subseteq Projects
    BY <1>2 DEF ProjectInv, ProjectTypeOK
<1>7. ProjectTypeOK'
    BY <1>2, <1>4, <1>5, <1>6 DEF ProjectInv, ProjectTypeOK, Stored
<1>8. DetachedBySqueeze'
    BY <1>1, <1>2 DEF ProjectInv, DeletionsSound, DetachedBySqueeze, DeletionSound
<1>9. ASSUME NEW n \in PortfolioCalls PROVE DeletionSound(n)'
    <2>1. CASE n = m
        BY <1>3, <1>4, <2>1 DEF DeletionSound
    <2>2. CASE n # m
        <3>1. managing'[n] = managing[n] /\ DeletionSound(n)
            BY <1>4, <2>2 DEF ProjectInv, DeletionsSound
        <3>2. \A p \in Projects : portfolioOf'[p] # None => portfolioOf'[p] = portfolioOf[p]
            BY <1>2
        <3> QED BY <1>2, <3>1, <3>2, NoneFacts DEF DeletionSound
    <2> QED BY <2>1, <2>2
<1> QED BY <1>2, <1>7, <1>8, <1>9, AddsStay DEF ProjectInv, DeletionsSound

LEMMA ProjectStep == ProjectInv /\ [ProjectNext]_projectVars => ProjectInv'
<1> SUFFICES ASSUME ProjectInv, [ProjectNext]_projectVars PROVE ProjectInv'
    OBVIOUS
<1>1. CASE UNCHANGED projectVars
    <2>1. ProjectTypeOK'
        BY <1>1 DEF projectVars, catalog, incidents, ProjectInv, ProjectTypeOK, Stored,
           PortfolioExists
    <2> QED BY <1>1, <2>1, AddsStay, DeletionsStay DEF projectVars, catalog, incidents, ProjectInv
<1>2. CASE \E p \in Projects : FindPrimary(p) \/ InsertProject(p)
    BY <1>2, FindPrimaryStep, InsertProjectStep
<1>3. CASE \E c \in Adds : ReadProject(c) \/ Assemble(c) \/ FindOwner(c) \/ SaveProject(c)
    BY <1>3, ReadProjectStep, AssembleStep, FindOwnerStep, SaveProjectStep
<1>4. CASE \E f \in Portfolios : CreatePortfolio(f)
    BY <1>4, CreatePortfolioStep
<1>5. CASE \E m \in PortfolioCalls :
              ReadPortfolio(m) \/ SavePortfolio(m) \/ CountProjects(m) \/ DeletePortfolio(m)
    BY <1>5, ReadPortfolioStep, SavePortfolioStep, CountProjectsStep, DeletePortfolioStep
<1> QED BY <1>1, <1>2, <1>3, <1>4, <1>5 DEF ProjectNext

LEMMA ProjectAlways == ProjectSpec => []ProjectInv
BY ProjectInitially, ProjectStep, PTL DEF ProjectSpec

\* Types; every project keeps its primary domain and is in a portfolio that exists.
THEOREM ProjectTypesCorrect == ProjectSpec => []ProjectTypeOK
<1>1. ProjectInv => ProjectTypeOK
    BY DEF ProjectInv
<1> QED BY <1>1, ProjectAlways, PTL

\* What was added stays, unless two calls were adding to one project at once.
THEOREM AddsStayForGood == ProjectSpec => []AddsLast
<1>1. ProjectInv => AddsLast
    BY DEF ProjectInv, AddsSound
<1> QED BY <1>1, ProjectAlways, PTL

\* The constraint that would keep a domain in one project is not in the schema (the
\* adds share one): still, two projects share a domain only as the primary one of
\* either or by a race.
THEOREM SharingIsARace == ProjectSpec => []DomainsSharedByRace
<1>1. ProjectInv => DomainsSharedByRace
    BY DEF ProjectInv, AddsSound
<1> QED BY <1>1, ProjectAlways, PTL

\* The deletion of a portfolio takes it away only from projects that were saved
\* after the projects were counted.
THEOREM DetachingIsARace == ProjectSpec => []DetachedBySqueeze
<1>1. ProjectInv => DetachedBySqueeze
    BY DEF ProjectInv, DeletionsSound
<1> QED BY <1>1, ProjectAlways, PTL

-----------------------------------------------------------------------------
\* Rank tracking.

\* The times a keyword was seen at, by its observations, and its latest position.
Seen(row) == {t \in Times : row[t] # Nothing}
HasLatest(row) == Seen(row) # {} => \E t \in Seen(row) : \A u \in Seen(row) : u <= t
LatestOf(row) ==
    IF Seen(row) = {} THEN Nothing
    ELSE row[CHOOSE t \in Seen(row) : \A u \in Seen(row) : u <= t]

\* An alert, if there was one, says whether a position is on the first page.
Tells(news, position) ==
    news # "none" => position # Nothing /\ (news = "entered" <=> OnFirstPage(position))

\* What a job holds fits its answer: the time of an observation it is about to save
\* is new, the position before is the latest, and once it is saved it is the
\* latest itself and the last alert told of the one before.
JobSound(x) ==
    /\ x.pc = "idle" => x.listed = {}
    /\ x.pc # "idle" => x.answer \in [Sites -> Positions]
    /\ x.todo \subseteq x.listed /\ x.listed \subseteq tracked
    /\ x.pc \in {"save", "alert"} => x.keyword \in x.listed \ x.todo
    /\ x.time <= clock
    /\ \A k \in x.todo \ disturbed : \A t \in Seen(observations[k]) : t < clock
    /\ x.pc = "save" /\ x.keyword \notin disturbed
       => /\ x.previous = LatestOf(observations[x.keyword])
          /\ \A t \in Seen(observations[x.keyword]) : t < x.time
    /\ x.pc = "alert" /\ x.keyword \notin disturbed
       => /\ observations[x.keyword][x.time] = x.answer[Site(x.keyword)]
          /\ \A t \in Seen(observations[x.keyword]) : t <= x.time
          /\ Tells(alert[x.keyword], x.previous)

Alerting(x, k) == x.pc = "alert" /\ x.keyword = k

\* What is known of a keyword: nothing before it is tracked; and if nothing disturbed
\* it, one job at most has it and, once that job has published its alerts, the last
\* one tells of the latest position.
KeywordSound(k) ==
    /\ k \notin tracked => Seen(observations[k]) = {} /\ alert[k] = "none"
    /\ HasLatest(observations[k])
    /\ \A t \in Seen(observations[k]) : t <= clock
    /\ k \notin disturbed
       => /\ k \notin repeated
          /\ \A i, j \in SerpJobs : i # j => k \notin serpJob[i].listed \cap serpJob[j].listed
          /\ (\A j \in SerpJobs : ~Alerting(serpJob[j], k))
             => Tells(alert[k], LatestOf(observations[k]))

RankInv ==
    /\ RankTypeOK
    /\ \A j \in SerpJobs : JobSound(serpJob[j])
    /\ \A k \in Keywords : KeywordSound(k)

Rows == [Times -> Positions \cup {Nothing}]

LEMMA NothingFacts ==
    /\ Nothing \notin Positions /\ Positions \subseteq Nat /\ Nothing = 0
    /\ Ranks \subseteq Positions /\ NotRanked \in Positions
BY RankAssumption DEF Nothing, NotRanked, Positions

LEMMA TimesFacts == 0 \in Times /\ Times \subseteq Nat
BY TimeAssumption DEF Times

LEMMA SiteFacts == \A k \in Keywords : Site(k) \in Sites
BY DEF Site, Sites

LEMMA LatestType ==
    ASSUME NEW row \in Rows, HasLatest(row)
    PROVE  LatestOf(row) \in Positions \cup {Nothing}
BY DEF Rows, HasLatest, LatestOf, Seen

LEMMA LatestIs ==
    ASSUME NEW row \in Rows, NEW t \in Times, row[t] # Nothing, \A u \in Seen(row) : u <= t
    PROVE  HasLatest(row) /\ LatestOf(row) = row[t]
<1>1. t \in Seen(row) /\ Seen(row) \subseteq Nat
    BY TimesFacts DEF Seen
<1>2. \A v \in Seen(row) : (\A u \in Seen(row) : u <= v) => v = t
    BY <1>1
<1>3. (CHOOSE v \in Seen(row) : \A u \in Seen(row) : u <= v) = t
    BY <1>1, <1>2
<1> QED BY <1>1, <1>3 DEF HasLatest, LatestOf

\* One more observation.
LEMMA OneMore ==
    ASSUME NEW row \in Rows, HasLatest(row), NEW t \in Times, row[t] = Nothing, NEW p \in Positions
    PROVE  /\ [row EXCEPT ![t] = p] \in Rows
           /\ [row EXCEPT ![t] = p][t] = p
           /\ Seen([row EXCEPT ![t] = p]) = Seen(row) \cup {t}
           /\ HasLatest([row EXCEPT ![t] = p])
<1> DEFINE new == [row EXCEPT ![t] = p]
<1>1. new \in Rows /\ new[t] = p /\ \A u \in Times : u # t => new[u] = row[u]
    BY DEF Rows
<1>2. Seen(new) = Seen(row) \cup {t}
    BY <1>1, NothingFacts DEF Seen
<1> HIDE DEF new
<1>3. HasLatest(new)
    <2>1. Seen(row) \subseteq Nat /\ t \in Nat
        BY TimesFacts DEF Seen
    <2>2. CASE Seen(row) = {}
        BY <1>2, <2>1, <2>2 DEF HasLatest
    <2>3. CASE Seen(row) # {}
        <3>1. PICK v \in Seen(row) : \A u \in Seen(row) : u <= v
            BY <2>3 DEF HasLatest
        <3>2. CASE t <= v
            BY <1>2, <2>1, <3>1, <3>2 DEF HasLatest
        <3>3. CASE ~(t <= v)
            <4>1. \A u \in Seen(new) : u <= t
                BY <1>2, <2>1, <3>1, <3>3
            <4> QED BY <1>2, <4>1 DEF HasLatest
        <3> QED BY <3>2, <3>3
    <2> QED BY <2>2, <2>3
<1> QED BY <1>1, <1>2, <1>3 DEF new

\* The best of some ranks, which is one of them and none of them is above it.
LEMMA BestIs ==
    ASSUME NEW ranks \in SUBSET Ranks, ranks # {}, NEW none
    PROVE  Best(ranks, none) \in ranks /\ \A q \in ranks : Best(ranks, none) <= q
<1>1. ranks \subseteq Nat
    BY NothingFacts
<1>2. PICK r \in ranks : \A q \in ranks : <<q, r>> \notin OpToRel(<, Nat)
    BY <1>1, NatLessThanWellFounded, WFMin
<1>3. \A q \in ranks : ~(q < r)
    BY <1>1, <1>2, Zenon DEF OpToRel
<1>4. \A q \in ranks : r <= q
    BY <1>1, <1>3
<1> QED BY <1>4 DEF Best

\* What a job takes from an answer: the row of a site is an item the rankings look at
\* as well, so that they have the site there or above.
LEMMA ExtractionFacts ==
    ASSUME NEW e \in Extractions
    PROVE  /\ e.answer \in [Sites -> Positions]
           /\ e.top \in [Sites -> Ranks \cup {Nothing}]
           /\ e.organic \in BOOLEAN
           /\ \A s \in Sites : e.top[s] # Nothing => e.answer[s] <= e.top[s]
<1>1. PICK serp \in Serps :
         e = [answer  |-> [s \in Sites |-> Best(Showing(serp, s), NotRanked)],
              top     |-> [s \in Sites |-> Best(Listing(serp, s), Nothing)],
              organic |-> TopRows(serp) # {}]
    BY DEF Extractions
<1>2. ASSUME NEW s \in Sites
      PROVE  /\ e.answer[s] \in Positions
             /\ e.top[s] \in Ranks \cup {Nothing}
             /\ e.top[s] # Nothing => e.answer[s] <= e.top[s]
    <2>1. e.answer[s] = Best(Showing(serp, s), NotRanked) /\ e.top[s] = Best(Listing(serp, s), Nothing)
        BY <1>1
    <2>2. Showing(serp, s) \subseteq Ranks /\ Listing(serp, s) \subseteq Showing(serp, s)
        BY HostAssumption DEF Showing, Listing, TopRows
    <2>3. CASE Listing(serp, s) = {}
        <3>1. e.top[s] = Nothing
            BY <2>1, <2>3 DEF Best
        <3>2. e.answer[s] \in Positions
            <4>1. CASE Showing(serp, s) = {}
                BY <2>1, <4>1, NothingFacts DEF Best
            <4>2. CASE Showing(serp, s) # {}
                BY <2>1, <2>2, <4>2, BestIs, NothingFacts
            <4> QED BY <4>1, <4>2
        <3> QED BY <3>1, <3>2
    <2>4. CASE Listing(serp, s) # {}
        <3>1. e.top[s] \in Listing(serp, s)
            BY <2>1, <2>2, <2>4, BestIs
        <3>2. /\ e.answer[s] \in Showing(serp, s)
              /\ \A q \in Showing(serp, s) : e.answer[s] <= q
            BY <2>1, <2>2, <2>4, BestIs
        <3> QED BY <2>2, <3>1, <3>2, NothingFacts
    <2> QED BY <2>3, <2>4
<1> QED BY <1>1, <1>2

\* The model's expressions in these terms.
LEMMA LatestEq == \A k \in Keywords : Latest(k) = LatestOf(observations[k])
BY DEF Latest, LatestOf, LatestTime, Ranked, Seen

LEMMA RankTypes ==
    ASSUME RankInv
    PROVE  /\ \A j \in SerpJobs : serpJob[j] \in SerpJob /\ JobSound(serpJob[j])
           /\ \A k \in Keywords : observations[k] \in Rows /\ KeywordSound(k)
           /\ clock \in Nat
BY TimesFacts DEF RankInv, RankTypeOK, Rows

LEMMA IdleJobFacts ==
    /\ IdleSerpJob \in SerpJob /\ IdleSerpJob.pc = "idle" /\ IdleSerpJob.listed = {}
    /\ IdleSerpJob.todo = {} /\ IdleSerpJob.time = 0 /\ IdleSerpJob.top = EmptySnapshot
BY TimesFacts DEF IdleSerpJob, SerpJob, EmptySnapshot, Sites

\* A job moves on and stores nothing.
LEMMA JobMoves ==
    ASSUME RankInv, NEW j \in SerpJobs, NEW y \in SerpJob,
           serpJob' \in [SerpJobs -> SerpJob], serpJob'[j] = y,
           \A i \in SerpJobs : i # j =>
              \E o \in BOOLEAN : serpJob'[i] = [serpJob[i] EXCEPT !.overtaken = o],
           UNCHANGED <<tracked, start, observations, clock, alert, repeated>>,
           snapshot' \in [Sites -> Ranks \cup {Nothing}],
           rankFaults' \in 0 .. MaxRankFaults,
           disturbed \subseteq disturbed', disturbed' \subseteq Keywords,
           y.listed \subseteq serpJob[j].listed,
           serpJob[j].pc = "alert" => serpJob[j].keyword \in disturbed',
           JobSound(y)
    PROVE  RankInv'
<1>1. RankTypeOK'
    BY DEF RankInv, RankTypeOK, OneKeywordPerTuple
<1>2. ASSUME NEW i \in SerpJobs PROVE JobSound(serpJob[i])'
    <2>1. CASE i = j
        BY <2>1 DEF JobSound
    <2>2. CASE i # j
        <3>1. PICK x \in SerpJob : x = serpJob[i]
            BY RankTypes
        <3>2. PICK o \in BOOLEAN : serpJob'[i] = [x EXCEPT !.overtaken = o]
            BY <2>2, <3>1
        <3>3. PICK z \in SerpJob : z = serpJob'[i]
            OBVIOUS
        <3>4. /\ z.pc = x.pc /\ z.answer = x.answer /\ z.listed = x.listed /\ z.todo = x.todo
              /\ z.keyword = x.keyword /\ z.previous = x.previous /\ z.time = x.time
            BY <3>2, <3>3 DEF SerpJob
        <3>5. JobSound(x)
            BY <3>1, RankTypes
        <3>6. JobSound(z)'
            BY <3>4, <3>5 DEF JobSound
        <3> QED BY <3>3, <3>6
    <2> QED BY <2>1, <2>2
<1>3. ASSUME NEW k \in Keywords PROVE KeywordSound(k)'
    <2>1. KeywordSound(k)
        BY RankTypes
    <2>2. \A i \in SerpJobs : i # j =>
             /\ serpJob'[i].listed = serpJob[i].listed
             /\ \A l \in Keywords : Alerting(serpJob'[i], l) <=> Alerting(serpJob[i], l)
        BY RankTypes DEF Alerting, SerpJob
    <2>3. \A i \in SerpJobs : serpJob'[i].listed \subseteq serpJob[i].listed
        BY <2>2
    <2>4. k \notin disturbed' => ~Alerting(serpJob[j], k)
        BY DEF Alerting
    <2>5. k \notin disturbed' /\ (\A i \in SerpJobs : ~Alerting(serpJob'[i], k))
          => \A i \in SerpJobs : ~Alerting(serpJob[i], k)
        BY <2>2, <2>4
    <2> QED BY <2>1, <2>3, <2>5 DEF KeywordSound
<1> QED BY <1>1, <1>2, <1>3 DEF RankInv

\* A job that ends.
LEMMA JobEnds ==
    ASSUME RankInv
    PROVE  IdleSerpJob \in SerpJob /\ JobSound(IdleSerpJob)
BY IdleJobFacts, RankTypes DEF JobSound

LEMMA FindKeywordStep ==
    ASSUME RankInv, NEW k \in Keywords, FindKeyword(k) PROVE RankInv'
BY DEF FindKeyword, RankInv, RankTypeOK, OneKeywordPerTuple, JobSound, KeywordSound

LEMMA SaveKeywordStep ==
    ASSUME RankInv, NEW k \in Keywords, SaveKeyword(k) PROVE RankInv'
<1>1. /\ UNCHANGED <<serpJob, observations, snapshot, clock, alert, repeated, rankFaults>>
      /\ disturbed \subseteq disturbed' /\ disturbed' \subseteq Keywords
      /\ tracked \subseteq tracked' /\ tracked' \subseteq Keywords
    BY DEF SaveKeyword, RankInv, RankTypeOK
<1>2. OneKeywordPerTuple'
    BY DEF SaveKeyword, RankInv, RankTypeOK, OneKeywordPerTuple, TupleTaken
<1>3. RankTypeOK'
    BY <1>1, <1>2 DEF SaveKeyword, RankInv, RankTypeOK
<1>4. ASSUME NEW j \in SerpJobs PROVE JobSound(serpJob[j])'
    <2>1. PICK x \in SerpJob : x = serpJob[j]
        BY RankTypes
    <2>2. JobSound(x)
        BY <2>1, RankTypes
    <2>3. JobSound(x)'
        BY <1>1, <2>2 DEF JobSound
    <2> QED BY <1>1, <2>1, <2>3
<1>5. ASSUME NEW l \in Keywords PROVE KeywordSound(l)'
    BY <1>1, RankTypes DEF KeywordSound
<1> QED BY <1>3, <1>4, <1>5 DEF RankInv

\* The other jobs stay as they are.
LEMMA OthersStay ==
    ASSUME RankInv, NEW j \in SerpJobs, NEW y, serpJob' = [serpJob EXCEPT ![j] = y]
    PROVE  \A i \in SerpJobs : i # j =>
              \E o \in BOOLEAN : serpJob'[i] = [serpJob[i] EXCEPT !.overtaken = o]
<1> SUFFICES ASSUME NEW i \in SerpJobs, i # j
             PROVE  \E o \in BOOLEAN : serpJob'[i] = [serpJob[i] EXCEPT !.overtaken = o]
    OBVIOUS
<1>1. PICK x \in SerpJob : x = serpJob[i]
    BY RankTypes
<1>2. serpJob'[i] = x
    BY <1>1 DEF RankInv, RankTypeOK
<1>3. x.overtaken \in BOOLEAN /\ x = [x EXCEPT !.overtaken = x.overtaken]
    BY DEF SerpJob
<1> QED BY <1>1, <1>2, <1>3

LEMMA ObserveStep ==
    ASSUME RankInv, NEW j \in SerpJobs, Observe(j) PROVE RankInv'
<1>1. PICK x \in SerpJob : x = serpJob[j] /\ JobSound(x)
    BY RankTypes
<1>2. PICK k \in x.todo :
         /\ serpJob' = [serpJob EXCEPT ![j] =
               [x EXCEPT !.pc = "save", !.keyword = k, !.todo = x.todo \ {k},
                         !.previous = Latest(k), !.time = clock]]
         /\ x.pc = "observe"
    BY <1>1 DEF Observe
<1>3. UNCHANGED <<tracked, start, observations, snapshot, clock, alert, repeated, disturbed, rankFaults>>
    BY DEF Observe
<1>4. k \in Keywords /\ k \in x.listed
    BY <1>1 DEF SerpJob, JobSound
<1>5. Latest(k) \in Positions \cup {Nothing} /\ Latest(k) = LatestOf(observations[k])
    BY <1>4, LatestEq, LatestType, RankTypes DEF KeywordSound
<1> DEFINE y == [x EXCEPT !.pc = "save", !.keyword = k, !.todo = x.todo \ {k},
                          !.previous = Latest(k), !.time = clock]
<1>6. y \in SerpJob
    BY <1>4, <1>5 DEF SerpJob, RankInv, RankTypeOK
<1>7. /\ y.pc = "save" /\ y.keyword = k /\ y.todo = x.todo \ {k} /\ y.previous = Latest(k)
      /\ y.time = clock /\ y.listed = x.listed /\ y.answer = x.answer /\ y.top = x.top
    BY DEF SerpJob
<1> HIDE DEF y
<1>8. JobSound(y)
    BY <1>1, <1>2, <1>4, <1>5, <1>7, RankTypes DEF JobSound
<1>9. /\ serpJob' = [serpJob EXCEPT ![j] = y]
      /\ serpJob' \in [SerpJobs -> SerpJob] /\ serpJob'[j] = y
    BY <1>2, <1>6 DEF RankInv, RankTypeOK, y
<1>10. \A i \in SerpJobs : i # j =>
          \E o \in BOOLEAN : serpJob'[i] = [serpJob[i] EXCEPT !.overtaken = o]
    BY <1>9, OthersStay
<1>11. y.listed \subseteq serpJob[j].listed /\ serpJob[j].pc # "alert"
    BY <1>1, <1>2, <1>7
<1> QED BY <1>3, <1>6, <1>8, <1>9, <1>10, <1>11, JobMoves DEF RankInv, RankTypeOK

LEMMA BeginOverwriteStep ==
    ASSUME RankInv, NEW j \in SerpJobs, BeginOverwrite(j) PROVE RankInv'
<1>1. PICK x \in SerpJob : x = serpJob[j] /\ JobSound(x)
    BY RankTypes
<1> DEFINE y == [x EXCEPT !.pc = "overwrite"]
<1>2. /\ x.pc = "observe" /\ serpJob' = [serpJob EXCEPT ![j] = y]
      /\ UNCHANGED <<tracked, start, observations, snapshot, clock, alert, repeated, disturbed, rankFaults>>
    BY <1>1 DEF BeginOverwrite
<1>3. /\ y \in SerpJob /\ y.pc = "overwrite" /\ y.todo = x.todo /\ y.listed = x.listed
      /\ y.answer = x.answer /\ y.time = x.time
    BY DEF SerpJob
<1> HIDE DEF y
<1>4. JobSound(y)
    BY <1>1, <1>2, <1>3 DEF JobSound
<1>5. serpJob' \in [SerpJobs -> SerpJob] /\ serpJob'[j] = y
    BY <1>2, <1>3 DEF RankInv, RankTypeOK
<1> QED BY <1>1, <1>2, <1>3, <1>4, <1>5, OthersStay, JobMoves DEF RankInv, RankTypeOK

LEMMA SkipOverwriteStep ==
    ASSUME RankInv, NEW j \in SerpJobs, SkipOverwrite(j) PROVE RankInv'
<1>1. /\ serpJob[j].pc = "observe" /\ serpJob' = [serpJob EXCEPT ![j] = IdleSerpJob]
      /\ UNCHANGED <<tracked, start, observations, snapshot, clock, alert, repeated, rankFaults>>
      /\ disturbed' = disturbed \cup serpJob[j].listed
    BY DEF SkipOverwrite
<1>2. serpJob' \in [SerpJobs -> SerpJob] /\ serpJob'[j] = IdleSerpJob
    BY <1>1, IdleJobFacts DEF RankInv, RankTypeOK
<1>3. disturbed' \subseteq Keywords
    BY <1>1, RankTypes DEF RankInv, RankTypeOK, SerpJob
<1> QED BY <1>1, <1>2, <1>3, JobEnds, IdleJobFacts, OthersStay, JobMoves DEF RankInv, RankTypeOK

LEMMA SerpJobFailsStep ==
    ASSUME RankInv, NEW j \in SerpJobs, SerpJobFails(j) PROVE RankInv'
<1>1. /\ serpJob' = [serpJob EXCEPT ![j] = IdleSerpJob]
      /\ UNCHANGED <<tracked, start, observations, snapshot, clock, alert, repeated>>
      /\ disturbed' = disturbed \cup serpJob[j].listed
      /\ rankFaults < MaxRankFaults /\ rankFaults' = rankFaults + 1
    BY DEF SerpJobFails
<1>2. serpJob' \in [SerpJobs -> SerpJob] /\ serpJob'[j] = IdleSerpJob
    BY <1>1, IdleJobFacts DEF RankInv, RankTypeOK
<1>3. disturbed' \subseteq Keywords
    BY <1>1, RankTypes DEF RankInv, RankTypeOK, SerpJob
<1>4. serpJob[j].pc = "alert" => serpJob[j].keyword \in disturbed'
    BY <1>1, RankTypes DEF JobSound
<1>5. rankFaults' \in 0 .. MaxRankFaults
    BY <1>1, TimeAssumption DEF RankInv, RankTypeOK
<1> QED BY <1>1, <1>2, <1>3, <1>4, <1>5, JobEnds, IdleJobFacts, OthersStay, JobMoves
        DEF RankInv, RankTypeOK

LEMMA CommitOverwriteStep ==
    ASSUME RankInv, NEW j \in SerpJobs, CommitOverwrite(j) PROVE RankInv'
<1>1. PICK x \in SerpJob : x = serpJob[j] /\ JobSound(x)
    BY RankTypes
<1>2. /\ x.pc = "overwrite"
      /\ snapshot' = IF x.overtaken THEN snapshot ELSE x.top
      /\ disturbed' = IF x.overtaken THEN disturbed \cup x.listed ELSE disturbed
      /\ serpJob' =
             [i \in SerpJobs |->
                 IF i = j THEN IdleSerpJob
                 ELSE [serpJob[i] EXCEPT !.overtaken =
                          serpJob[i].overtaken \/ (serpJob[i].pc = "overwrite" /\ ~x.overtaken)]]
      /\ UNCHANGED <<tracked, start, observations, clock, alert, repeated, rankFaults>>
    BY <1>1 DEF CommitOverwrite, Overwritten
<1>3. \A i \in SerpJobs : i # j =>
         \E o \in BOOLEAN : serpJob'[i] = [serpJob[i] EXCEPT !.overtaken = o]
    <2> SUFFICES ASSUME NEW i \in SerpJobs, i # j
                 PROVE  \E o \in BOOLEAN : serpJob'[i] = [serpJob[i] EXCEPT !.overtaken = o]
        OBVIOUS
    <2> DEFINE o == serpJob[i].overtaken \/ (serpJob[i].pc = "overwrite" /\ ~x.overtaken)
    <2>1. serpJob'[i] = [serpJob[i] EXCEPT !.overtaken = o]
        BY <1>2
    <2>2. o \in BOOLEAN
        OBVIOUS
    <2> QED BY <2>1, <2>2
<1>4. serpJob' \in [SerpJobs -> SerpJob] /\ serpJob'[j] = IdleSerpJob
    <2>1. ASSUME NEW i \in SerpJobs, i # j PROVE serpJob'[i] \in SerpJob
        <3>1. PICK o \in BOOLEAN : serpJob'[i] = [serpJob[i] EXCEPT !.overtaken = o]
            BY <1>3, <2>1
        <3>2. serpJob[i] \in SerpJob
            BY RankTypes
        <3> QED BY <3>1, <3>2 DEF SerpJob
    <2> QED BY <1>2, <2>1, IdleJobFacts
<1>5. snapshot' \in [Sites -> Ranks \cup {Nothing}]
    BY <1>2 DEF RankInv, RankTypeOK, SerpJob
<1>6. disturbed \subseteq disturbed' /\ disturbed' \subseteq Keywords
    BY <1>2 DEF RankInv, RankTypeOK, SerpJob
<1> QED BY <1>1, <1>2, <1>3, <1>4, <1>5, <1>6, JobEnds, IdleJobFacts, JobMoves
        DEF RankInv, RankTypeOK

LEMMA NextSerpDayStep ==
    ASSUME RankInv, NextSerpDay PROVE RankInv'
BY DEF NextSerpDay, RankInv, RankTypeOK, OneKeywordPerTuple, JobSound, KeywordSound, EmptySnapshot

LEMMA ListKeywordsStep ==
    ASSUME RankInv, NEW j \in SerpJobs, ListKeywords(j) PROVE RankInv'
<1>1. PICK e \in Extractions, K \in FanOutSets :
         /\ serpJob' = [serpJob EXCEPT ![j] =
               [IdleSerpJob EXCEPT !.pc = "observe", !.answer = e.answer, !.top = e.top,
                                   !.organic = e.organic, !.listed = K, !.todo = K]]
         /\ disturbed' = disturbed \cup {k \in K : \E i \in SerpJobs \ {j} : k \in serpJob[i].listed}
    BY DEF ListKeywords
<1>2. /\ serpJob[j].pc = "idle" /\ clock < LastTime /\ clock' = clock + 1
      /\ UNCHANGED <<tracked, start, observations, snapshot, alert, repeated, rankFaults>>
    BY DEF ListKeywords
<1> DEFINE y == [IdleSerpJob EXCEPT !.pc = "observe", !.answer = e.answer, !.top = e.top,
                                    !.organic = e.organic, !.listed = K, !.todo = K]
<1>3. K \subseteq tracked /\ K \subseteq Keywords
    BY DEF FanOutSets, RankInv, RankTypeOK
<1>4. /\ y \in SerpJob /\ y.pc = "observe" /\ y.answer = e.answer /\ y.listed = K /\ y.todo = K
      /\ y.time = 0 /\ y.answer \in [Sites -> Positions]
    BY <1>3, TimesFacts, ExtractionFacts DEF IdleSerpJob, SerpJob
<1>5. serpJob' = [serpJob EXCEPT ![j] = y]
    BY <1>1
<1> HIDE DEF y
<1>6. /\ serpJob' \in [SerpJobs -> SerpJob] /\ serpJob'[j] = y
      /\ \A i \in SerpJobs : i # j => serpJob'[i] = serpJob[i]
    BY <1>4, <1>5 DEF RankInv, RankTypeOK
<1>7. /\ clock \in Nat /\ clock' \in Times /\ clock' = clock + 1
      /\ disturbed \subseteq disturbed' /\ disturbed' \subseteq Keywords
    BY <1>1, <1>2, <1>3, TimeAssumption DEF RankInv, RankTypeOK, Times
<1>8. RankTypeOK'
    BY <1>2, <1>6, <1>7 DEF RankInv, RankTypeOK, OneKeywordPerTuple
<1>9. \A k \in Keywords : \A t \in Seen(observations[k]) : t \in Nat /\ t <= clock
    BY RankTypes, TimesFacts DEF KeywordSound, Seen
<1>10. JobSound(serpJob[j])'
    <2>1. PICK z \in SerpJob : z = y
        BY <1>4
    <2>2. JobSound(z)'
        BY <1>2, <1>3, <1>4, <1>7, <1>9, <2>1 DEF JobSound
    <2> QED BY <1>6, <2>1, <2>2
<1>11. ASSUME NEW i \in SerpJobs, i # j PROVE JobSound(serpJob[i])'
    <2>1. PICK x \in SerpJob : x = serpJob[i] /\ JobSound(x)
        BY RankTypes
    <2>2. x.time \in Nat /\ x.todo \subseteq Keywords
        BY TimesFacts DEF SerpJob
    <2>3. \A k \in x.todo \ disturbed' : \A t \in Seen(observations'[k]) : t < clock'
        BY <1>2, <1>7, <1>9, <2>2
    <2>4. x.time <= clock'
        BY <1>7, <2>1, <2>2 DEF JobSound
    <2>5. JobSound(x)'
        BY <1>2, <1>7, <2>1, <2>3, <2>4 DEF JobSound
    <2> QED BY <1>6, <1>11, <2>1, <2>5
<1>12. ASSUME NEW k \in Keywords PROVE KeywordSound(k)'
    <2>1. KeywordSound(k)
        BY RankTypes
    <2>2. \A t \in Seen(observations[k]) : t <= clock'
        BY <1>7, <1>9
    <2>3. \A i \in SerpJobs : Alerting(serpJob'[i], k) <=> Alerting(serpJob[i], k)
        BY <1>2, <1>4, <1>6 DEF Alerting
    <2>4. ASSUME k \notin disturbed', NEW i \in SerpJobs, NEW l \in SerpJobs, i # l
          PROVE  k \notin serpJob'[i].listed \cap serpJob'[l].listed
        <3>1. CASE i # j /\ l # j
            BY <1>6, <1>7, <2>1, <2>4, <3>1 DEF KeywordSound
        <3>2. CASE i = j
            BY <1>1, <1>4, <1>6, <2>4, <3>2
        <3>3. CASE l = j
            BY <1>1, <1>4, <1>6, <2>4, <3>3
        <3> QED BY <3>1, <3>2, <3>3
    <2> QED BY <1>2, <1>7, <2>1, <2>2, <2>3, <2>4 DEF KeywordSound
<1> QED BY <1>6, <1>8, <1>10, <1>11, <1>12 DEF RankInv

LEMMA SaveObservationStep ==
    ASSUME RankInv, NEW j \in SerpJobs, SaveObservation(j) PROVE RankInv'
<1>1. PICK x \in SerpJob : x = serpJob[j] /\ JobSound(x)
    BY RankTypes
<1>2. PICK k \in Keywords : k = x.keyword /\ k \in x.listed \ x.todo
    BY <1>1 DEF SaveObservation, JobSound, SerpJob
<1>3. PICK row \in Rows : row = observations[k] /\ HasLatest(row)
    BY RankTypes DEF KeywordSound
<1>4. PICK p \in Positions : p = x.answer[Site(k)]
    BY <1>1, <1>2, SiteFacts DEF SaveObservation, JobSound
<1>5. /\ x.pc = "save" /\ x.time \in Times
      /\ UNCHANGED <<tracked, start, snapshot, clock, alert, repeated, disturbed, rankFaults>>
    BY <1>1 DEF SaveObservation, SerpJob
<1> DEFINE new == IF x.time \in Seen(row) THEN row ELSE [row EXCEPT ![x.time] = p]
           y == [x EXCEPT !.pc = "alert"]
<1>6. /\ observations' = [observations EXCEPT ![k] = new]
      /\ serpJob' = [serpJob EXCEPT ![j] = y]
    <2>1. x.time \in Ranked(x.keyword) <=> x.time \in Seen(row)
        BY <1>2, <1>3 DEF Ranked, Seen
    <2>2. Position(j) = p
        BY <1>1, <1>2, <1>4 DEF Position
    <2>3. /\ serpJob' = [serpJob EXCEPT ![j] = y]
          /\ observations' =
                IF x.time \in Ranked(x.keyword) THEN observations
                ELSE [observations EXCEPT ![x.keyword] =
                         [observations[x.keyword] EXCEPT ![x.time] = Position(j)]]
        BY <1>1 DEF SaveObservation
    <2>4. observations = [observations EXCEPT ![k] = observations[k]]
        BY DEF RankInv, RankTypeOK
    <2>5. CASE x.time \in Seen(row)
        BY <1>3, <2>1, <2>3, <2>4, <2>5
    <2>6. CASE x.time \notin Seen(row)
        BY <1>2, <1>3, <2>1, <2>2, <2>3, <2>6
    <2> QED BY <2>3, <2>5, <2>6
<1>7. /\ new \in Rows /\ HasLatest(new) /\ Seen(new) = Seen(row) \cup {x.time}
      /\ x.time \notin Seen(row) => new[x.time] = p
    <2>1. CASE x.time \in Seen(row)
        BY <1>3, <2>1
    <2>2. CASE x.time \notin Seen(row)
        <3>1. row[x.time] = Nothing
            BY <1>5, <2>2 DEF Seen
        <3> QED BY <1>3, <1>4, <1>5, <2>2, <3>1, OneMore
    <2> QED BY <2>1, <2>2
<1>8. /\ y \in SerpJob /\ y.pc = "alert" /\ y.keyword = x.keyword /\ y.time = x.time
      /\ y.listed = x.listed /\ y.todo = x.todo /\ y.answer = x.answer
      /\ y.previous = x.previous
    BY DEF SerpJob
<1> HIDE DEF new, y
<1>9. /\ observations' \in [Keywords -> Rows] /\ observations'[k] = new
      /\ \A l \in Keywords : l # k => observations'[l] = observations[l]
    BY <1>6, <1>7 DEF RankInv, RankTypeOK, Rows
<1>10. /\ serpJob' \in [SerpJobs -> SerpJob] /\ serpJob'[j] = y
       /\ \A i \in SerpJobs : i # j => serpJob'[i] = serpJob[i]
    BY <1>6, <1>8 DEF RankInv, RankTypeOK
<1>11. RankTypeOK'
    BY <1>5, <1>9, <1>10 DEF RankInv, RankTypeOK, OneKeywordPerTuple, Rows
<1>12. \A l \in Keywords : \A t \in Seen(observations'[l]) : t <= clock
    <2>1. \A l \in Keywords : \A t \in Seen(observations[l]) : t <= clock
        BY RankTypes DEF KeywordSound
    <2>2. x.time <= clock
        BY <1>1 DEF JobSound
    <2> QED BY <1>3, <1>7, <1>9, <2>1, <2>2
\* Undisturbed: the observation is the first at its time, and the latest.
<1>13. ASSUME k \notin disturbed
       PROVE  /\ x.previous = LatestOf(row) /\ new[x.time] = p
              /\ \A t \in Seen(new) : t <= x.time
              /\ LatestOf(new) = p
    <2>1. /\ x.previous = LatestOf(row)
          /\ \A t \in Seen(row) : t < x.time
        BY <1>1, <1>2, <1>3, <1>5, <1>13 DEF JobSound
    <2>2. Seen(row) \subseteq Nat /\ x.time \in Nat
        BY <1>5, TimesFacts DEF Seen
    <2>3. x.time \notin Seen(row)
        BY <2>1, <2>2
    <2>4. new[x.time] = p /\ \A t \in Seen(new) : t <= x.time
        BY <1>7, <2>1, <2>2, <2>3
    <2> QED BY <1>5, <1>7, <2>1, <2>4, LatestIs, NothingFacts
\* No other job has an undisturbed keyword.
<1>14. k \notin disturbed => \A i \in SerpJobs : i # j => k \notin serpJob[i].listed
    BY <1>1, <1>2, RankTypes DEF KeywordSound
<1>15. k \notin disturbed => Tells(alert[k], LatestOf(row))
    <2>1. k \notin disturbed => \A i \in SerpJobs : ~Alerting(serpJob[i], k)
        BY <1>1, <1>2, <1>5, <1>14, RankTypes DEF Alerting, JobSound
    <2> QED BY <1>3, <2>1, RankTypes DEF KeywordSound
<1>16. JobSound(serpJob[j])'
    <2>1. PICK z \in SerpJob : z = y
        BY <1>8
    <2>2. k \notin disturbed =>
             /\ observations'[k][z.time] = z.answer[Site(k)]
             /\ \A t \in Seen(observations'[k]) : t <= z.time
             /\ Tells(alert[k], z.previous)
        BY <1>4, <1>8, <1>9, <1>13, <1>15, <2>1
    <2>3. \A l \in z.todo \ disturbed : \A t \in Seen(observations'[l]) : t < clock
        BY <1>1, <1>2, <1>8, <1>9, <2>1 DEF JobSound, SerpJob
    <2>4. JobSound(z)'
        BY <1>1, <1>2, <1>5, <1>8, <2>1, <2>2, <2>3 DEF JobSound
    <2> QED BY <1>10, <2>1, <2>4
<1>17. ASSUME NEW i \in SerpJobs, i # j PROVE JobSound(serpJob[i])'
    <2>1. PICK z \in SerpJob : z = serpJob[i] /\ JobSound(z)
        BY RankTypes
    <2>2. \A l \in z.todo \ disturbed : \A t \in Seen(observations'[l]) : t < clock
        BY <1>9, <1>14, <1>17, <2>1 DEF JobSound, SerpJob
    <2>3. z.pc \in {"save", "alert"} /\ z.keyword \notin disturbed
          => z.keyword \in Keywords /\ observations'[z.keyword] = observations[z.keyword]
        BY <1>9, <1>14, <1>17, <2>1 DEF JobSound, SerpJob
    <2>4. JobSound(z)'
        BY <1>5, <2>1, <2>2, <2>3 DEF JobSound
    <2> QED BY <1>10, <1>17, <2>1, <2>4
<1>18. ASSUME NEW l \in Keywords PROVE KeywordSound(l)'
    <2>1. KeywordSound(l)
        BY RankTypes
    <2>2. \A i \in SerpJobs : serpJob'[i].listed = serpJob[i].listed
        BY <1>1, <1>8, <1>10
    <2>3. CASE l = k
        <3>1. k \in tracked
            BY <1>1, <1>2 DEF JobSound
        <3>2. Alerting(serpJob'[j], k)
            BY <1>2, <1>8, <1>10 DEF Alerting
        <3> QED BY <1>5, <1>7, <1>9, <1>12, <2>1, <2>2, <2>3, <3>1, <3>2 DEF KeywordSound
    <2>4. CASE l # k
        <3>1. \A i \in SerpJobs : Alerting(serpJob'[i], l) <=> Alerting(serpJob[i], l)
            BY <1>1, <1>2, <1>5, <1>8, <1>10, <2>4 DEF Alerting
        <3> QED BY <1>5, <1>9, <1>12, <2>1, <2>2, <2>4, <3>1 DEF KeywordSound
    <2> QED BY <2>3, <2>4
<1> QED BY <1>10, <1>11, <1>16, <1>17, <1>18 DEF RankInv

\* What an alert says of the position that caused it, and that it is not said twice.
LEMMA AlertsTell ==
    ASSUME NEW old \in {"none", "entered", "dropped"}, NEW previous \in Positions \cup {Nothing},
           NEW position \in Positions, Tells(old, previous),
           NEW news, news = CASE Entered(previous, position) -> "entered"
                              [] Dropped(previous, position) -> "dropped"
                              [] OTHER -> "none"
    PROVE  /\ news # "none" => news # old
           /\ Tells(IF news = "none" THEN old ELSE news, position)
<1>1. position # Nothing /\ ~OnFirstPage(Nothing)
    BY NothingFacts DEF OnFirstPage
<1>2. CASE Entered(previous, position)
    BY <1>1, <1>2 DEF Entered, Dropped, Tells
<1>3. CASE Dropped(previous, position) /\ ~Entered(previous, position)
    BY <1>1, <1>3 DEF Dropped, Tells
<1>4. CASE ~Dropped(previous, position) /\ ~Entered(previous, position)
    BY <1>1, <1>4 DEF Entered, Dropped, Tells
<1> QED BY <1>2, <1>3, <1>4

LEMMA PublishAlertsStep ==
    ASSUME RankInv, NEW j \in SerpJobs, PublishAlerts(j) PROVE RankInv'
<1>1. PICK x \in SerpJob : x = serpJob[j] /\ JobSound(x)
    BY RankTypes
<1>2. PICK k \in Keywords : k = x.keyword /\ k \in x.listed \ x.todo
    BY <1>1 DEF PublishAlerts, JobSound, SerpJob
<1>3. PICK p \in Positions : p = x.answer[Site(k)]
    BY <1>1, <1>2, SiteFacts DEF PublishAlerts, JobSound
<1> DEFINE news == CASE Entered(x.previous, p) -> "entered"
                     [] Dropped(x.previous, p) -> "dropped"
                     [] OTHER -> "none"
           y == [x EXCEPT !.pc = "observe", !.keyword = NoKeyword, !.previous = Nothing, !.time = 0]
<1>4. /\ x.pc = "alert"
      /\ alert' = IF news = "none" THEN alert ELSE [alert EXCEPT ![k] = news]
      /\ repeated' = IF news # "none" /\ news = alert[k] THEN repeated \cup {k} ELSE repeated
      /\ serpJob' = [serpJob EXCEPT ![j] = y]
      /\ UNCHANGED <<tracked, start, observations, snapshot, clock, disturbed, rankFaults>>
    <2>1. Position(j) = p
        BY <1>1, <1>2, <1>3 DEF Position
    <2> QED BY <1>1, <1>2, <2>1 DEF PublishAlerts
<1>5. news \in {"none", "entered", "dropped"} /\ x.previous \in Positions \cup {Nothing}
    BY DEF SerpJob
<1>6. alert[k] \in {"none", "entered", "dropped"}
    BY DEF RankInv, RankTypeOK
<1>7. /\ y \in SerpJob /\ y.pc = "observe" /\ y.listed = x.listed /\ y.todo = x.todo
      /\ y.answer = x.answer /\ y.time = 0
    BY TimesFacts DEF SerpJob
<1>8. k \notin disturbed =>
         /\ news # "none" => news # alert[k]
         /\ Tells(IF news = "none" THEN alert[k] ELSE news, p)
    <2>1. k \notin disturbed => Tells(alert[k], x.previous)
        BY <1>1, <1>2, <1>4 DEF JobSound
    <2> QED BY <1>5, <1>6, <2>1, AlertsTell
<1> HIDE DEF news, y
<1>9. /\ alert' \in [Keywords -> {"none", "entered", "dropped"}]
      /\ alert'[k] = IF news = "none" THEN alert[k] ELSE news
      /\ \A l \in Keywords : l # k => alert'[l] = alert[l]
      /\ repeated' \subseteq Keywords
      /\ \A l \in Keywords : l \in repeated' => l \in repeated \/ (l = k /\ k \in disturbed)
    BY <1>4, <1>5, <1>8 DEF RankInv, RankTypeOK
<1>10. /\ serpJob' \in [SerpJobs -> SerpJob] /\ serpJob'[j] = y
       /\ \A i \in SerpJobs : i # j => serpJob'[i] = serpJob[i]
    BY <1>4, <1>7 DEF RankInv, RankTypeOK
<1>11. RankTypeOK'
    BY <1>4, <1>9, <1>10 DEF RankInv, RankTypeOK, OneKeywordPerTuple
<1>12. k \notin disturbed => LatestOf(observations[k]) = p
    <2>1. PICK row \in Rows : row = observations[k]
        BY RankTypes
    <2>2. k \notin disturbed => row[x.time] = p /\ \A t \in Seen(row) : t <= x.time
        BY <1>1, <1>2, <1>3, <1>4, <2>1 DEF JobSound
    <2>3. x.time \in Times
        BY DEF SerpJob
    <2> QED BY <2>1, <2>2, <2>3, LatestIs, NothingFacts
<1>13. k \notin disturbed => \A i \in SerpJobs : i # j => k \notin serpJob[i].listed
    BY <1>1, <1>2, RankTypes DEF KeywordSound
<1>14. JobSound(serpJob[j])'
    <2>1. PICK z \in SerpJob : z = y
        BY <1>7
    <2>2. JobSound(z)'
        BY <1>1, <1>4, <1>7, <2>1, RankTypes DEF JobSound
    <2> QED BY <1>10, <2>1, <2>2
<1>15. ASSUME NEW i \in SerpJobs, i # j PROVE JobSound(serpJob[i])'
    <2>1. PICK z \in SerpJob : z = serpJob[i] /\ JobSound(z)
        BY RankTypes
    <2>2. z.pc \in {"save", "alert"} /\ z.keyword \notin disturbed
          => z.keyword \in Keywords /\ alert'[z.keyword] = alert[z.keyword]
        BY <1>9, <1>13, <1>15, <2>1 DEF JobSound, SerpJob
    <2>3. JobSound(z)'
        BY <1>4, <2>1, <2>2 DEF JobSound
    <2> QED BY <1>10, <1>15, <2>1, <2>3
<1>16. ASSUME NEW l \in Keywords PROVE KeywordSound(l)'
    <2>1. KeywordSound(l)
        BY RankTypes
    <2>2. \A i \in SerpJobs : serpJob'[i].listed = serpJob[i].listed
        BY <1>1, <1>7, <1>10
    <2>3. CASE l = k
        <3>1. k \in tracked
            BY <1>1, <1>2 DEF JobSound
        <3>2. k \notin disturbed => k \notin repeated'
            BY <1>9, <2>1, <2>3 DEF KeywordSound
        <3>3. k \notin disturbed => Tells(alert'[k], LatestOf(observations[k]))
            BY <1>8, <1>9, <1>12
        <3> QED BY <1>4, <2>1, <2>2, <2>3, <3>1, <3>2, <3>3 DEF KeywordSound
    <2>4. CASE l # k
        <3>1. \A i \in SerpJobs : Alerting(serpJob'[i], l) <=> Alerting(serpJob[i], l)
            BY <1>1, <1>2, <1>4, <1>7, <1>10, <2>4 DEF Alerting
        <3>2. l \in repeated' => l \in repeated
            BY <1>9, <2>4
        <3> QED BY <1>4, <1>9, <2>1, <2>2, <2>4, <3>1, <3>2 DEF KeywordSound
    <2> QED BY <2>3, <2>4
<1> QED BY <1>10, <1>11, <1>14, <1>15, <1>16 DEF RankInv

LEMMA RankStarts ==
    RankInit => RankInv
<1> SUFFICES ASSUME RankInit PROVE RankInv
    OBVIOUS
<1>1. RankTypeOK
    BY IdleJobFacts, TimesFacts, TimeAssumption
    DEF RankInit, RankTypeOK, OneKeywordPerTuple, EmptySnapshot
<1>2. ASSUME NEW j \in SerpJobs PROVE JobSound(serpJob[j])
    BY IdleJobFacts DEF RankInit, JobSound
<1>3. ASSUME NEW k \in Keywords PROVE KeywordSound(k)
    <2>1. Seen(observations[k]) = {}
        BY DEF RankInit, Seen
    <2> QED BY <2>1, IdleJobFacts DEF RankInit, KeywordSound, HasLatest, Tells
<1> QED BY <1>1, <1>2, <1>3 DEF RankInv

LEMMA RankStep ==
    RankInv /\ [RankNext]_rankVars => RankInv'
<1> SUFFICES ASSUME RankInv, [RankNext]_rankVars PROVE RankInv'
    OBVIOUS
<1>1. CASE UNCHANGED rankVars
    BY <1>1 DEF rankVars, RankInv, RankTypeOK, OneKeywordPerTuple, JobSound, KeywordSound
<1>2. CASE \E k \in Keywords : FindKeyword(k) \/ SaveKeyword(k)
    BY <1>2, FindKeywordStep, SaveKeywordStep
<1>3. CASE \E j \in SerpJobs :
              \/ ListKeywords(j) \/ Observe(j) \/ SaveObservation(j) \/ PublishAlerts(j)
              \/ BeginOverwrite(j) \/ SkipOverwrite(j) \/ CommitOverwrite(j) \/ SerpJobFails(j)
    BY <1>3, ListKeywordsStep, ObserveStep, SaveObservationStep, PublishAlertsStep,
       BeginOverwriteStep, SkipOverwriteStep, CommitOverwriteStep, SerpJobFailsStep
<1>4. CASE NextSerpDay
    BY <1>4, NextSerpDayStep
<1> QED BY <1>1, <1>2, <1>3, <1>4 DEF RankNext

LEMMA RankAlways == RankSpec => []RankInv
BY RankStarts, RankStep, PTL DEF RankSpec

\* Types, and one keyword per domain of a query, whatever calls overlap.
THEOREM RankTypesCorrect == RankSpec => []RankTypeOK
<1>1. RankInv => RankTypeOK
    BY DEF RankInv
<1> QED BY <1>1, RankAlways, PTL

\* A keyword does not enter the first page twice without leaving it, nor leave it
\* twice, unless something disturbed it.
THEOREM NoAlertTwice == RankSpec => []AlertsAlternate
<1>1. RankInv => AlertsAlternate
    BY DEF RankInv, RankTypeOK, KeywordSound, AlertsAlternate
<1> QED BY <1>1, RankAlways, PTL

\* The last alert of an undisturbed keyword that no job has tells where it ranks.
THEOREM LastAlertTells == RankSpec => []AlertsTellRanking
<1>1. RankInv => AlertsTellRanking
    <2> SUFFICES ASSUME RankInv, NEW k \in Keywords, Undisturbed(k), ~AtWork(k), alert[k] # "none"
                 PROVE  alert[k] = "entered" <=> OnFirstPage(Latest(k))
        BY DEF AlertsTellRanking
    <2>1. \A j \in SerpJobs : ~Alerting(serpJob[j], k)
        BY RankTypes DEF AtWork, Alerting, JobSound
    <2>2. Tells(alert[k], LatestOf(observations[k]))
        BY <2>1, RankTypes DEF Undisturbed, KeywordSound
    <2> QED BY <2>2, LatestEq DEF Tells
<1> QED BY <1>1, RankAlways, PTL

-----------------------------------------------------------------------------
\* The snapshot and the rankings.  A job has a keyword of every site that has an
\* undisturbed one, those it has observed rank where its answer says, which is where the
\* rows of the site are or above, and it overwrites the snapshot only when it has
\* observed them all.
Covers(x) ==
    x.pc # "idle" => \A k \in tracked \ disturbed : \E l \in x.listed : Site(l) = Site(k)
Told(x) ==
    \A l \in x.listed \ (x.todo \cup disturbed) :
        ~(x.pc = "save" /\ x.keyword = l) => LatestOf(observations[l]) = x.answer[Site(l)]
Fits(x) == \A s \in Sites : x.top[s] # Nothing => x.answer[s] <= x.top[s]
Through(x) == x.pc = "overwrite" => x.todo = {}

JobTells(x) == Covers(x) /\ Told(x) /\ Fits(x) /\ Through(x)

\* A site that no job has in hand, with a row and a ranking, ranks there or above.
Quiet(s) == \A l \in tracked : Site(l) = s => Undisturbed(l) /\ ~AtWork(l)
SiteAgrees(s) ==
    /\ snapshot[s] # Nothing /\ Quiet(s)
    /\ \E k \in tracked : Site(k) = s /\ Seen(observations[k]) # {}
    => \E l \in tracked : Site(l) = s /\ LatestOf(observations[l]) <= snapshot[s]

AgreeInv ==
    /\ \A j \in SerpJobs : JobTells(serpJob[j])
    /\ \A s \in Sites : SiteAgrees(s)

SameJob(x, y) ==
    /\ y.pc = x.pc /\ y.answer = x.answer /\ y.top = x.top /\ y.listed = x.listed
    /\ y.todo = x.todo /\ y.keyword = x.keyword

\* The jobs a step is not about still tell what they did: no undisturbed keyword is
\* in two hands.
LEMMA OthersTell ==
    ASSUME RankInv, AgreeInv, NEW j \in SerpJobs, NEW i \in SerpJobs, i # j,
           SameJob(serpJob[i], serpJob'[i]),
           UNCHANGED tracked, disturbed \subseteq disturbed',
           \A l \in Keywords \ serpJob[j].listed : observations'[l] = observations[l]
    PROVE  JobTells(serpJob[i])'
<1>1. PICK x \in SerpJob : x = serpJob[i] /\ JobSound(x) /\ JobTells(x)
    BY RankTypes DEF AgreeInv
<1>2. PICK y : y = serpJob'[i] /\ SameJob(x, y)
    BY <1>1
<1>3. Covers(y)'
    BY <1>1, <1>2 DEF JobTells, Covers, SameJob
<1>4. Told(y)'
    <2> SUFFICES ASSUME NEW l \in y.listed \ (y.todo \cup disturbed'),
                        ~(y.pc = "save" /\ y.keyword = l)
                 PROVE  LatestOf(observations'[l]) = y.answer[Site(l)]
        BY DEF Told
    <2>1. l \in x.listed \ (x.todo \cup disturbed) /\ ~(x.pc = "save" /\ x.keyword = l)
        BY <1>2 DEF SameJob
    <2>2. LatestOf(observations[l]) = x.answer[Site(l)]
        BY <1>1, <2>1 DEF JobTells, Told
    <2>3. l \in Keywords
        BY <2>1 DEF SerpJob
    <2>4. l \notin serpJob[j].listed
        BY <1>1, <2>1, <2>3, RankTypes DEF KeywordSound
    <2> QED BY <1>2, <2>2, <2>3, <2>4 DEF SameJob
<1>5. Fits(y)' /\ Through(y)'
    BY <1>1, <1>2 DEF JobTells, Fits, Through, SameJob
<1> QED BY <1>2, <1>3, <1>4, <1>5 DEF JobTells

\* A site that is quiet after a step of a job, which then did not have it in hand.
LEMMA QuietBefore ==
    ASSUME RankInv, NEW j \in SerpJobs, NEW s \in Sites, Quiet(s)',
           \A i \in SerpJobs : i # j => serpJob'[i].listed = serpJob[i].listed,
           UNCHANGED tracked, disturbed \subseteq disturbed',
           serpJob[j].listed \subseteq serpJob'[j].listed \cup disturbed'
    PROVE  Quiet(s) /\ \A l \in tracked : Site(l) = s => l \notin serpJob[j].listed
<1> SUFFICES ASSUME NEW l \in tracked, Site(l) = s
             PROVE  Undisturbed(l) /\ ~AtWork(l) /\ l \notin serpJob[j].listed
    BY DEF Quiet
<1>1. l \in tracked' /\ l \notin disturbed' /\ \A i \in SerpJobs : l \notin serpJob'[i].listed
    BY DEF Quiet, Undisturbed, AtWork
<1>2. l \notin serpJob[j].listed
    BY <1>1
<1>3. \A i \in SerpJobs : l \notin serpJob[i].listed
    BY <1>1, <1>2
<1> QED BY <1>1, <1>2, <1>3 DEF Undisturbed, AtWork

LEMMA SitesStay ==
    ASSUME RankInv, AgreeInv, NEW j \in SerpJobs, UNCHANGED <<tracked, snapshot>>,
           \A i \in SerpJobs : i # j => serpJob'[i].listed = serpJob[i].listed,
           disturbed \subseteq disturbed',
           serpJob[j].listed \subseteq serpJob'[j].listed \cup disturbed',
           \A l \in Keywords \ serpJob[j].listed : observations'[l] = observations[l]
    PROVE  \A s \in Sites : SiteAgrees(s)'
<1> SUFFICES ASSUME NEW s \in Sites, snapshot'[s] # Nothing, Quiet(s)',
                    NEW k \in tracked', Site(k) = s, Seen(observations'[k]) # {}
             PROVE  \E l \in tracked' : Site(l) = s /\ LatestOf(observations'[l]) <= snapshot'[s]
    BY DEF SiteAgrees
<1>1. Quiet(s) /\ \A l \in tracked : Site(l) = s => l \notin serpJob[j].listed
    BY QuietBefore
<1>2. tracked \subseteq Keywords
    BY DEF RankInv, RankTypeOK
<1>3. \A l \in tracked : Site(l) = s => observations'[l] = observations[l]
    BY <1>1, <1>2
<1>4. \E l \in tracked : Site(l) = s /\ LatestOf(observations[l]) <= snapshot[s]
    BY <1>1, <1>3 DEF AgreeInv, SiteAgrees
<1> QED BY <1>3, <1>4

\* A step of a job that leaves the snapshot.
LEMMA AgreeMoves ==
    ASSUME RankInv, AgreeInv, NEW j \in SerpJobs, UNCHANGED <<tracked, snapshot>>,
           \A i \in SerpJobs : i # j => SameJob(serpJob[i], serpJob'[i]),
           disturbed \subseteq disturbed',
           serpJob[j].listed \subseteq serpJob'[j].listed \cup disturbed',
           \A l \in Keywords \ serpJob[j].listed : observations'[l] = observations[l],
           JobTells(serpJob[j])'
    PROVE  AgreeInv'
<1>1. \A i \in SerpJobs : JobTells(serpJob[i])'
    <2> SUFFICES ASSUME NEW i \in SerpJobs, i # j PROVE JobTells(serpJob[i])'
        OBVIOUS
    <2> QED BY OthersTell
<1>2. \A s \in Sites : SiteAgrees(s)'
    BY SitesStay DEF SameJob
<1> QED BY <1>1, <1>2 DEF AgreeInv

LEMMA OthersSame ==
    ASSUME RankInv, NEW j \in SerpJobs, NEW y, serpJob' = [serpJob EXCEPT ![j] = y]
    PROVE  /\ serpJob'[j] = y
           /\ \A i \in SerpJobs : i # j => SameJob(serpJob[i], serpJob'[i])
BY DEF RankInv, RankTypeOK, SameJob

LEMMA ListKeywordsAgrees ==
    ASSUME RankInv, AgreeInv, NEW j \in SerpJobs, ListKeywords(j) PROVE AgreeInv'
<1>1. PICK e \in Extractions, K \in FanOutSets :
         /\ serpJob' = [serpJob EXCEPT ![j] =
               [IdleSerpJob EXCEPT !.pc = "observe", !.answer = e.answer, !.top = e.top,
                                   !.organic = e.organic, !.listed = K, !.todo = K]]
         /\ disturbed' = disturbed \cup {k \in K : \E i \in SerpJobs \ {j} : k \in serpJob[i].listed}
    BY DEF ListKeywords
<1>2. serpJob[j].pc = "idle" /\ UNCHANGED <<tracked, observations, snapshot>>
    BY DEF ListKeywords
<1>3. serpJob[j].listed = {} /\ disturbed \subseteq disturbed'
    BY <1>1, <1>2, RankTypes DEF JobSound
<1> DEFINE y == [IdleSerpJob EXCEPT !.pc = "observe", !.answer = e.answer, !.top = e.top,
                                    !.organic = e.organic, !.listed = K, !.todo = K]
<1>4. /\ serpJob' = [serpJob EXCEPT ![j] = y]
      /\ y.pc = "observe" /\ y.listed = K /\ y.todo = K
      /\ y.answer = e.answer /\ y.top = e.top
    BY <1>1 DEF IdleSerpJob
<1> HIDE DEF y
<1>5. JobTells(y)'
    <2>1. Covers(y)'
        BY <1>2, <1>4 DEF Covers, FanOutSets
    <2>2. Told(y)' /\ Fits(y)' /\ Through(y)'
        BY <1>4, ExtractionFacts DEF Told, Fits, Through
    <2> QED BY <2>1, <2>2 DEF JobTells
<1>6. serpJob'[j] = y /\ \A i \in SerpJobs : i # j => SameJob(serpJob[i], serpJob'[i])
    BY <1>4, OthersSame
<1> QED BY <1>2, <1>3, <1>5, <1>6, AgreeMoves

\* A job that ends, with the keywords it had in hand disturbed.
LEMMA JobEndsTelling ==
    ASSUME RankInv, AgreeInv, NEW j \in SerpJobs,
           serpJob' = [serpJob EXCEPT ![j] = IdleSerpJob],
           UNCHANGED <<tracked, observations, snapshot>>,
           disturbed' = disturbed \cup serpJob[j].listed
    PROVE  AgreeInv'
<1>1. JobTells(IdleSerpJob)'
    BY IdleJobFacts DEF JobTells, Covers, Told, Fits, Through, EmptySnapshot
<1> QED BY <1>1, OthersSame, AgreeMoves

LEMMA ObserveAgrees ==
    ASSUME RankInv, AgreeInv, NEW j \in SerpJobs, Observe(j) PROVE AgreeInv'
<1>1. PICK x \in SerpJob : x = serpJob[j] /\ JobSound(x) /\ JobTells(x)
    BY RankTypes DEF AgreeInv
<1>2. PICK k \in x.todo :
         serpJob' = [serpJob EXCEPT ![j] =
            [x EXCEPT !.pc = "save", !.keyword = k, !.todo = x.todo \ {k},
                      !.previous = Latest(k), !.time = clock]]
    BY <1>1 DEF Observe
<1>3. UNCHANGED <<tracked, observations, snapshot, disturbed>> /\ x.pc = "observe"
    BY <1>1 DEF Observe
<1> DEFINE z == [x EXCEPT !.pc = "save", !.keyword = k, !.todo = x.todo \ {k},
                          !.previous = Latest(k), !.time = clock]
<1>4. PICK y : /\ serpJob' = [serpJob EXCEPT ![j] = y]
               /\ y.pc = "save" /\ y.keyword = k /\ y.todo = x.todo \ {k}
               /\ y.listed = x.listed /\ y.answer = x.answer /\ y.top = x.top
    <2>1. /\ serpJob' = [serpJob EXCEPT ![j] = z]
          /\ z.pc = "save" /\ z.keyword = k /\ z.todo = x.todo \ {k}
          /\ z.listed = x.listed /\ z.answer = x.answer /\ z.top = x.top
        BY <1>2 DEF SerpJob
    <2> HIDE DEF z
    <2> QED BY <2>1
<1>5. JobTells(y)'
    <2>1. Covers(y)' /\ Fits(y)' /\ Through(y)'
        BY <1>1, <1>3, <1>4 DEF JobTells, Covers, Fits, Through
    <2>2. ASSUME NEW l \in y.listed \ (y.todo \cup disturbed'), l # k
          PROVE  LatestOf(observations'[l]) = y.answer[Site(l)]
        <3>1. l \in x.listed \ (x.todo \cup disturbed)
            BY <1>3, <1>4, <2>2
        <3> QED BY <1>1, <1>3, <1>4, <3>1 DEF JobTells, Told
    <2>3. Told(y)'
        BY <1>4, <2>2 DEF Told
    <2> QED BY <2>1, <2>3 DEF JobTells
<1>6. serpJob'[j] = y /\ \A i \in SerpJobs : i # j => SameJob(serpJob[i], serpJob'[i])
    BY <1>4, OthersSame
<1> QED BY <1>1, <1>3, <1>4, <1>5, <1>6, AgreeMoves

LEMMA SaveObservationAgrees ==
    ASSUME RankInv, RankInv', AgreeInv, NEW j \in SerpJobs, SaveObservation(j) PROVE AgreeInv'
<1>1. PICK x \in SerpJob : x = serpJob[j] /\ JobSound(x) /\ JobTells(x)
    BY RankTypes DEF AgreeInv
<1>2. /\ x.pc = "save" /\ x.keyword \in x.listed
      /\ serpJob' = [serpJob EXCEPT ![j] = [x EXCEPT !.pc = "alert"]]
      /\ UNCHANGED <<tracked, snapshot, disturbed>>
      /\ \A l \in Keywords : l # x.keyword => observations'[l] = observations[l]
    BY <1>1 DEF SaveObservation, JobSound, RankInv, RankTypeOK
<1> DEFINE y == [x EXCEPT !.pc = "alert"]
<1>3. /\ serpJob' = [serpJob EXCEPT ![j] = y]
      /\ y \in SerpJob
      /\ y.pc = "alert" /\ y.keyword = x.keyword /\ y.todo = x.todo
      /\ y.listed = x.listed /\ y.answer = x.answer /\ y.top = x.top /\ y.time = x.time
    BY <1>2 DEF SerpJob
<1> HIDE DEF y
<1>4. serpJob'[j] = y /\ \A i \in SerpJobs : i # j => SameJob(serpJob[i], serpJob'[i])
    BY <1>3, OthersSame
<1>5. x.keyword \notin disturbed => LatestOf(observations'[x.keyword]) = y.answer[Site(x.keyword)]
    <2>1. JobSound(y)'
        BY <1>4 DEF RankInv
    <2>2. PICK row \in Rows : row = observations'[x.keyword]
        BY <1>2 DEF RankInv, RankTypeOK, Rows, SerpJob
    <2>3. y.answer[Site(x.keyword)] \in Positions
        BY <1>2, <1>3, <2>1, SiteFacts DEF JobSound, SerpJob
    <2>4. x.keyword \notin disturbed
          => /\ row[y.time] = y.answer[Site(x.keyword)]
             /\ \A t \in Seen(row) : t <= y.time
        BY <1>2, <1>3, <2>1, <2>2 DEF JobSound
    <2>5. y.time \in Times
        BY <1>3 DEF SerpJob
    <2> QED BY <2>2, <2>3, <2>4, <2>5, LatestIs, NothingFacts
<1>6. JobTells(y)'
    <2>1. Covers(y)' /\ Fits(y)' /\ Through(y)'
        BY <1>1, <1>2, <1>3 DEF JobTells, Covers, Fits, Through
    <2>2. Told(y)'
        BY <1>1, <1>2, <1>3, <1>5 DEF JobTells, Told, SerpJob
    <2> QED BY <2>1, <2>2 DEF JobTells
<1> QED BY <1>1, <1>2, <1>3, <1>4, <1>6, AgreeMoves

LEMMA PublishAlertsAgrees ==
    ASSUME RankInv, AgreeInv, NEW j \in SerpJobs, PublishAlerts(j) PROVE AgreeInv'
<1>1. PICK x \in SerpJob : x = serpJob[j] /\ JobSound(x) /\ JobTells(x)
    BY RankTypes DEF AgreeInv
<1>2. /\ x.pc = "alert"
      /\ serpJob' = [serpJob EXCEPT ![j] =
            [x EXCEPT !.pc = "observe", !.keyword = NoKeyword, !.previous = Nothing, !.time = 0]]
      /\ UNCHANGED <<tracked, observations, snapshot, disturbed>>
    BY <1>1 DEF PublishAlerts
<1> DEFINE y == [x EXCEPT !.pc = "observe", !.keyword = NoKeyword, !.previous = Nothing, !.time = 0]
<1>3. /\ serpJob' = [serpJob EXCEPT ![j] = y]
      /\ y.pc = "observe" /\ y.todo = x.todo
      /\ y.listed = x.listed /\ y.answer = x.answer /\ y.top = x.top
    BY <1>2 DEF SerpJob
<1> HIDE DEF y
<1>4. JobTells(y)'
    BY <1>1, <1>2, <1>3 DEF JobTells, Covers, Told, Fits, Through
<1>5. serpJob'[j] = y /\ \A i \in SerpJobs : i # j => SameJob(serpJob[i], serpJob'[i])
    BY <1>3, OthersSame
<1> QED BY <1>1, <1>2, <1>3, <1>4, <1>5, AgreeMoves

LEMMA BeginOverwriteAgrees ==
    ASSUME RankInv, AgreeInv, NEW j \in SerpJobs, BeginOverwrite(j) PROVE AgreeInv'
<1>1. PICK x \in SerpJob : x = serpJob[j] /\ JobSound(x) /\ JobTells(x)
    BY RankTypes DEF AgreeInv
<1>2. /\ x.pc = "observe" /\ x.todo = {}
      /\ serpJob' = [serpJob EXCEPT ![j] = [x EXCEPT !.pc = "overwrite"]]
      /\ UNCHANGED <<tracked, observations, snapshot, disturbed>>
    BY <1>1 DEF BeginOverwrite
<1> DEFINE y == [x EXCEPT !.pc = "overwrite"]
<1>3. /\ serpJob' = [serpJob EXCEPT ![j] = y]
      /\ y.pc = "overwrite" /\ y.todo = x.todo
      /\ y.listed = x.listed /\ y.answer = x.answer /\ y.top = x.top
    BY <1>2 DEF SerpJob
<1> HIDE DEF y
<1>4. JobTells(y)'
    BY <1>1, <1>2, <1>3 DEF JobTells, Covers, Told, Fits, Through
<1>5. serpJob'[j] = y /\ \A i \in SerpJobs : i # j => SameJob(serpJob[i], serpJob'[i])
    BY <1>3, OthersSame
<1> QED BY <1>1, <1>2, <1>3, <1>4, <1>5, AgreeMoves

\* A job that overwrites the snapshot has observed a keyword of each site, at the rank
\* of the site's row or above.
LEMMA CommitOverwriteAgrees ==
    ASSUME RankInv, AgreeInv, NEW j \in SerpJobs, CommitOverwrite(j) PROVE AgreeInv'
<1>1. PICK x \in SerpJob : x = serpJob[j] /\ JobSound(x) /\ JobTells(x)
    BY RankTypes DEF AgreeInv
<1>2. /\ x.pc = "overwrite"
      /\ snapshot' = IF x.overtaken THEN snapshot ELSE x.top
      /\ disturbed' = IF x.overtaken THEN disturbed \cup x.listed ELSE disturbed
      /\ UNCHANGED <<tracked, observations>>
    BY <1>1 DEF CommitOverwrite, Overwritten
<1>3. /\ serpJob'[j] = IdleSerpJob
      /\ \A i \in SerpJobs : i # j => SameJob(serpJob[i], serpJob'[i])
    <2>1. ASSUME NEW i \in SerpJobs, i # j PROVE SameJob(serpJob[i], serpJob'[i])
        <3>1. PICK w \in SerpJob : w = serpJob[i]
            BY RankTypes
        <3>2. serpJob'[i] = [w EXCEPT !.overtaken = @ \/ (w.pc = "overwrite" /\ ~x.overtaken)]
            BY <1>1, <2>1, <3>1 DEF CommitOverwrite
        <3>3. SameJob(w, serpJob'[i])
            BY <3>2 DEF SerpJob, SameJob
        <3> QED BY <3>1, <3>3
    <2> QED BY <2>1 DEF CommitOverwrite
<1>4. JobTells(serpJob[j])'
    BY <1>3, IdleJobFacts DEF JobTells, Covers, Told, Fits, Through, EmptySnapshot
<1>5. CASE x.overtaken
    BY <1>1, <1>2, <1>3, <1>4, <1>5, AgreeMoves
<1>6. CASE ~x.overtaken
    <2>1. ASSUME NEW i \in SerpJobs, i # j PROVE JobTells(serpJob[i])'
        BY <1>2, <1>3, <1>6, <2>1, OthersTell
    <2>2. ASSUME NEW s \in Sites, snapshot'[s] # Nothing, Quiet(s)', NEW k \in tracked, Site(k) = s
          PROVE  \E l \in tracked : Site(l) = s /\ LatestOf(observations[l]) <= snapshot'[s]
        <3>1. k \notin disturbed
            BY <1>2, <1>6, <2>2 DEF Quiet, Undisturbed
        <3>2. PICK l \in x.listed : Site(l) = s
            BY <1>1, <1>2, <2>2, <3>1 DEF JobTells, Covers
        <3>3. l \in tracked /\ l \notin disturbed
            BY <1>1, <1>2, <1>6, <2>2, <3>2 DEF JobSound, Quiet, Undisturbed
        <3>4. LatestOf(observations[l]) = x.answer[s]
            BY <1>1, <1>2, <3>2, <3>3 DEF JobTells, Told, Through
        <3>5. x.answer[s] <= x.top[s] /\ snapshot'[s] = x.top[s]
            BY <1>1, <1>2, <1>6, <2>2 DEF JobTells, Fits
        <3> QED BY <3>2, <3>3, <3>4, <3>5
    <2>3. \A s \in Sites : SiteAgrees(s)'
        BY <1>2, <2>2 DEF SiteAgrees
    <2> QED BY <1>4, <2>1, <2>3 DEF AgreeInv
<1> QED BY <1>5, <1>6

\* A keyword saved during a job is disturbed; one saved otherwise has no ranking yet.
LEMMA SaveKeywordAgrees ==
    ASSUME RankInv, AgreeInv, NEW n \in Keywords, SaveKeyword(n) PROVE AgreeInv'
<1>1. /\ UNCHANGED <<serpJob, observations, snapshot>>
      /\ tracked \subseteq tracked' /\ tracked' \subseteq tracked \cup {n}
      /\ disturbed \subseteq disturbed'
      /\ Fanning => n \in disturbed'
    BY DEF SaveKeyword
<1>2. ASSUME NEW i \in SerpJobs PROVE JobTells(serpJob[i])'
    <2>1. JobTells(serpJob[i]) /\ (serpJob[i].pc # "idle" => n \in disturbed')
        BY <1>1 DEF AgreeInv, Fanning
    <2>2. Covers(serpJob[i])'
        BY <1>1, <2>1 DEF JobTells, Covers
    <2>3. Told(serpJob[i])' /\ Fits(serpJob[i])' /\ Through(serpJob[i])'
        BY <1>1, <2>1 DEF JobTells, Told, Fits, Through
    <2> QED BY <2>2, <2>3 DEF JobTells
<1>3. ASSUME NEW s \in Sites, snapshot'[s] # Nothing, Quiet(s)',
             NEW k \in tracked', Site(k) = s, Seen(observations'[k]) # {}
      PROVE  \E l \in tracked' : Site(l) = s /\ LatestOf(observations'[l]) <= snapshot'[s]
    <2>1. Quiet(s)
        BY <1>1, <1>3 DEF Quiet, Undisturbed, AtWork
    <2>2. k \in tracked
        BY <1>1, <1>3, RankTypes DEF KeywordSound, RankInv, RankTypeOK
    <2>3. \E l \in tracked : Site(l) = s /\ LatestOf(observations[l]) <= snapshot[s]
        BY <1>1, <1>3, <2>1, <2>2 DEF AgreeInv, SiteAgrees
    <2> QED BY <1>1, <2>3
<1> QED BY <1>2, <1>3 DEF AgreeInv, SiteAgrees

LEMMA NextSerpDayAgrees ==
    ASSUME RankInv, AgreeInv, NextSerpDay PROVE AgreeInv'
<1>1. UNCHANGED <<tracked, serpJob, observations, disturbed>> /\ snapshot' = EmptySnapshot
    BY DEF NextSerpDay
<1>2. \A i \in SerpJobs : JobTells(serpJob[i])'
    BY <1>1 DEF AgreeInv, JobTells, Covers, Told, Through
<1>3. \A s \in Sites : SiteAgrees(s)'
    BY <1>1 DEF SiteAgrees, EmptySnapshot
<1> QED BY <1>2, <1>3 DEF AgreeInv

LEMMA AgreeStays ==
    ASSUME AgreeInv, UNCHANGED <<tracked, serpJob, observations, disturbed, snapshot>>
    PROVE  AgreeInv'
BY DEF AgreeInv, JobTells, Covers, Told, Through, SiteAgrees, Quiet, Undisturbed, AtWork

LEMMA AgreeStarts ==
    RankInit => AgreeInv
<1> SUFFICES ASSUME RankInit PROVE AgreeInv
    OBVIOUS
<1>1. \A i \in SerpJobs : JobTells(serpJob[i])
    BY IdleJobFacts DEF RankInit, JobTells, Covers, Told, Fits, Through, EmptySnapshot
<1>2. \A s \in Sites : SiteAgrees(s)
    BY DEF RankInit, SiteAgrees, EmptySnapshot
<1> QED BY <1>1, <1>2 DEF AgreeInv

LEMMA AgreeStep ==
    RankInv /\ RankInv' /\ AgreeInv /\ [RankNext]_rankVars => AgreeInv'
<1> SUFFICES ASSUME RankInv, RankInv', AgreeInv, [RankNext]_rankVars PROVE AgreeInv'
    OBVIOUS
<1>1. CASE UNCHANGED rankVars
    BY <1>1, AgreeStays DEF rankVars
<1>2. ASSUME NEW k \in Keywords, FindKeyword(k) PROVE AgreeInv'
    BY <1>2, AgreeStays DEF FindKeyword
<1>3. ASSUME NEW k \in Keywords, SaveKeyword(k) PROVE AgreeInv'
    BY <1>3, SaveKeywordAgrees
<1>4. ASSUME NEW j \in SerpJobs, SkipOverwrite(j) \/ SerpJobFails(j) PROVE AgreeInv'
    BY <1>4, JobEndsTelling DEF SkipOverwrite, SerpJobFails
<1>5. CASE \E j \in SerpJobs :
              \/ ListKeywords(j) \/ Observe(j) \/ SaveObservation(j) \/ PublishAlerts(j)
              \/ BeginOverwrite(j) \/ SkipOverwrite(j) \/ CommitOverwrite(j) \/ SerpJobFails(j)
    BY <1>4, <1>5, ListKeywordsAgrees, ObserveAgrees, SaveObservationAgrees,
       PublishAlertsAgrees, BeginOverwriteAgrees, CommitOverwriteAgrees
<1>6. CASE NextSerpDay
    BY <1>6, NextSerpDayAgrees
<1> QED BY <1>1, <1>2, <1>3, <1>5, <1>6 DEF RankNext

\* The snapshot of the day and the rankings, each with an extraction of its own, tell
\* one story: of a site that nothing disturbed and no job has in hand, a keyword ranks
\* where the snapshot has it or above.
THEOREM SnapshotAgrees == RankSpec => []SnapshotAgreesWithRankings
<1>1. RankInv /\ AgreeInv => SnapshotAgreesWithRankings
    <2> SUFFICES ASSUME RankInv, AgreeInv, NEW k \in Keywords, snapshot[Site(k)] # Nothing,
                        \A l \in tracked : Site(l) = Site(k) => Undisturbed(l) /\ ~AtWork(l),
                        Ranked(k) # {}
                 PROVE  \E l \in tracked : Site(l) = Site(k) /\ Latest(l) <= snapshot[Site(k)]
        BY DEF SnapshotAgreesWithRankings
    <2>1. Seen(observations[k]) # {} /\ tracked \subseteq Keywords
        BY DEF Seen, Ranked, RankInv, RankTypeOK
    <2>2. k \in tracked
        BY <2>1, RankTypes DEF KeywordSound
    <2>3. Quiet(Site(k)) /\ Site(k) \in Sites
        BY SiteFacts DEF Quiet
    <2>4. \E l \in tracked : Site(l) = Site(k) /\ LatestOf(observations[l]) <= snapshot[Site(k)]
        BY <2>1, <2>2, <2>3 DEF AgreeInv, SiteAgrees
    <2> QED BY <2>1, <2>4, LatestEq
<1>2. RankSpec => []AgreeInv
    BY AgreeStarts, AgreeStep, RankAlways, PTL DEF RankSpec
<1> QED BY <1>1, <1>2, RankAlways, PTL
=============================================================================
