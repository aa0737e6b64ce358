---------------------------- MODULE MCWorkspace ----------------------------
(***************************************************************************)
(* Instances of the components of a workspace for TLC: its organizations,  *)
(* credentials, projects, linked entities and rankings.  They share no     *)
(* state (what one has of another is an id), so that a behaviour is about  *)
(* one of them, the area, and the others stay as they began.               *)
(***************************************************************************)
EXTENDS LinkedEntities, ProjectCatalog, IdentityAccess, CredentialResolution,
        RankTracking, TLC

VARIABLE area

CONSTANTS
    l1, l2, site,                        \* two links of one site
    p1, p2, foo, bar, alias,             \* two projects
    r1, r2, r3, i1, i2, slug, ann, bob,  \* registrations and invitations
    c1, c2, c3, c4,                      \* credentials
    x1, x2, m1, m2,                      \* calls on projects and portfolios
    k1, k2, k3, wwwfoo, blog, other,     \* keywords of two domains of one site
    MaxCalls, MaxTracking

MCKeyOf == l1 :> site @@ l2 :> site
MCPrimaryOf == p1 :> foo @@ p2 :> bar
MCSlugOf == r1 :> slug @@ r2 :> slug @@ r3 :> foo
MCEmailOf == r1 :> ann @@ r2 :> bob @@ r3 :> bob @@ i1 :> bob @@ i2 :> bob
MCPlaceOf == c1 :> [scope |-> "org", label |-> foo] @@ c2 :> [scope |-> "org", label |-> foo]
             @@ c3 :> [scope |-> "project", label |-> foo]
             @@ c4 :> [scope |-> "project", label |-> bar]
MCDomainOf == k1 :> foo @@ k2 :> foo @@ k3 :> wwwfoo
MCSiteOf == foo :> foo @@ wwwfoo :> foo
MCWithin == foo :> {foo} @@ blog :> {foo} @@ other :> {}

\* Bounds, for the number of states: of the calls on projects other than creations
\* at most MaxCalls are begun, and of those that track a keyword MaxTracking.  A
\* query of two keywords takes one answer less, and the last answer comes when the
\* jobs of the others are done.
Begun ==
    {c \in Adds : add[c].pc # "ready"} \cup {m \in PortfolioCalls : managing[m].pc # "ready"}
Tracking == {k \in Keywords : start[k] # "ready"}
BusyJobs == {j \in SerpJobs : serpJob[j].pc # "idle"}
Bounded ==
    /\ Cardinality(Begun) <= MaxCalls
    /\ Cardinality(Tracking) <= MaxTracking
    /\ Cardinality(tracked) > 1 \/ Cardinality(BusyJobs) > 1 => clock < LastTime

\* Of calls that only differ in their name, or in names that mirror each other as the
\* two projects and their domains do, the first begins first.
InOrder ==
    /\ linking[l2] # "ready" => linking[l1] # "ready"
    /\ create[p2] # "ready" => create[p1] # "ready"
    /\ add[x2].pc # "ready" => add[x1].pc # "ready"
    /\ managing[m2].pc # "ready" => managing[m1].pc # "ready"
    /\ pc[i2] # "inviter" => pc[i1] # "inviter"
    /\ register[c2] # "ready" => register[c1] # "ready"
    /\ start[k2] # "ready" => start[k1] # "ready"

\* The slots of the workers are interchangeable.
Symmetry == Permutations(Jobs) \cup Permutations(SerpJobs)

Init ==
    /\ area \in {"links", "projects", "identity", "credentials", "ranks"}
    /\ LinksInit /\ ProjectInit /\ IdentityInit /\ CredentialInit /\ RankInit
    /\ area # "links" => kind = CHOOSE k \in Kinds : TRUE

Links_ == UNCHANGED linkVars
Projects_ == UNCHANGED projectVars
Identity_ == UNCHANGED identityVars
Credentials_ == UNCHANGED credentialVars
Ranks_ == UNCHANGED rankVars

Next ==
    /\ UNCHANGED area
    /\ \/ area = "links" /\ LinksNext /\ Projects_ /\ Identity_ /\ Credentials_ /\ Ranks_
       \/ area = "projects" /\ ProjectNext /\ Links_ /\ Identity_ /\ Credentials_ /\ Ranks_
       \/ area = "identity" /\ IdentityNext /\ Links_ /\ Projects_ /\ Credentials_ /\ Ranks_
       \/ area = "credentials" /\ CredentialNext /\ Links_ /\ Projects_ /\ Identity_ /\ Ranks_
       \/ area = "ranks" /\ RankNext /\ Links_ /\ Projects_ /\ Identity_ /\ Credentials_
    /\ Bounded' /\ InOrder'

Spec ==
    Init /\ [][Next]_<<area, linkVars, projectVars, identityVars, credentialVars, rankVars>>
=============================================================================
