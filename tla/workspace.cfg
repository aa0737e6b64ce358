SPECIFICATION Spec
CONSTANTS
    l1 = l1
    l2 = l2
    site = site
    foo = foo
    p1 = p1
    p2 = p2
    bar = bar
    alias = alias
    r1 = r1
    r2 = r2
    r3 = r3
    i1 = i1
    i2 = i2
    slug = slug
    ann = ann
    bob = bob
    c1 = c1
    c2 = c2
    c3 = c3
    c4 = c4
    x1 = x1
    x2 = x2
    m1 = m1
    m2 = m2
    Links = {l1, l2}
    KeyOf <- MCKeyOf
    Kinds <- AllKinds
    Removals = {remove}
    Jobs = {j1, j2}
    Window = 2
    LastDay = 4
    MaxRunNows = 1
    MaxLinkFaults = 1
    NoLink = NoLink
    Projects = {p1, p2}
    PrimaryOf <- MCPrimaryOf
    Portfolios = {f}
    Domains = {foo, bar, alias}
    Locations = {es}
    Adds = {x1, x2}
    PortfolioCalls = {m1, m2}
    None = None
    Registers = {r1, r2, r3}
    Invites = {i1, i2}
    SlugOf <- MCSlugOf
    EmailOf <- MCEmailOf
    MaxIdFaults = 1
    Nobody = Nobody
    Credentials = {c1, c2, c3, c4}
    PlaceOf <- MCPlaceOf
    Resolvers = {e1}
    LastMoment = 2
    NoCredential = NoCredential
    MaxCalls = 3
    k1 = k1
    k2 = k2
    k3 = k3
    wwwfoo = wwwfoo
    blog = blog
    other = other
    Keywords = {k1, k2, k3}
    DomainOf <- MCDomainOf
    SiteOf <- MCSiteOf
    Ranks = {10, 30}
    Hosts = {foo, blog, other}
    Within <- MCWithin
    SerpJobs = {rj1, rj2}
    LastTime = 3
    MaxRankFaults = 1
    NoKeyword = NoKeyword
    MaxTracking = 2
SYMMETRY Symmetry
INVARIANTS
    LinksTypeOK
    EventsCountRowsOnce
    LateRowsAreRaces
    DeletedLeavesNothing
    
    ProjectTypeOK
    AddsLast
    DetachedBySqueeze
    IdentityTypeOK
    MembersHaveOwner
    EmptyOrganizationsFailed
    CredentialTypeOK
    CascadeFindsBest
    RankTypeOK
    AlertsAlternate
    AlertsTellRanking
    SnapshotAgreesWithRankings
CHECK_DEADLOCK FALSE
