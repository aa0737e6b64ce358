--------------------------- MODULE IdentityAccess ---------------------------
(***************************************************************************)
(* Registration of organizations with their owners, and invitations.  Both *)
(* check first and then save what belongs together one row after the       *)
(* other, without a transaction.  (No call revokes a membership.)          *)
(***************************************************************************)
EXTENDS Naturals

CONSTANTS
    Registers,   \* calls of RegisterOrganizationUseCase; the organization and the
                 \* user of a call have its name
    Invites,     \* calls of InviteUserUseCase; the same for the user
    SlugOf,      \* the slug each registration asks for
    EmailOf,     \* the email of each call
    MaxIdFaults, \* bound: saves that fail
    Nobody

Calls == Registers \cup Invites

\* A viewer may do no more than a member here: "MEMBER" stands for both.
Roles == {"OWNER", "ADMIN", "MEMBER"}
Membership == [org : Registers, user : Calls, role : Roles]

ASSUME NobodyAssumption == Nobody \notin Calls
ASSUME CallsAssumption == Registers \cap Invites = {}
ASSUME SlugAssumption == DOMAIN SlugOf = Registers
ASSUME EmailAssumption == DOMAIN EmailOf = Calls
ASSUME IdFaultsAssumption == MaxIdFaults \in Nat

VARIABLES
    users,
    organizations,
    memberships,
    pc,        \* the next step of a call
    invite,    \* the organization, the role and the user of an invitation
    failed,    \* history: calls that a fault ended
    refused,   \* history: calls that a unique index ended
    idFaults   \* failures so far

identityVars == <<users, organizations, memberships, pc, invite, failed, refused, idFaults>>

Steps == {"slug", "email", "saveUser", "saveOrg", "saveMembership", "inviter", "member", "done"}
IdleInvite == [org |-> Nobody, role |-> "MEMBER", user |-> Nobody]
Invitation == [org : Registers \cup {Nobody}, role : Roles, user : Calls \cup {Nobody}]

Goes(c, step) == pc' = [pc EXCEPT ![c] = step]
Member(o, u) == \E m \in memberships : m.org = o /\ m.user = u
Working(c) == pc[c] # "done"

-----------------------------------------------------------------------------
\* The unique indexes.

\* Mutant of EmailTaken: no unique index.
EmailFree(c) == FALSE

EmailTaken(c) == \E u \in users : EmailOf[u] = EmailOf[c]
SlugTaken(r) == \E o \in organizations : SlugOf[o] = SlugOf[r]
MemberTaken(o, u) == Member(o, u)

-----------------------------------------------------------------------------
\* RegisterOrganizationUseCase.

FindSlug(r) ==
    /\ pc[r] = "slug"
    /\ Goes(r, IF SlugTaken(r) THEN "done" ELSE "email")
    /\ UNCHANGED <<users, organizations, memberships, invite, failed, refused, idFaults>>

\* Mutant of Then: the organization is saved before its owner.
OrganizationFirst ==
    [email |-> "saveOrg", saveOrg |-> "saveUser", saveUser |-> "saveMembership"]

\* The order of the saves.
Then == [email |-> "saveUser", saveUser |-> "saveOrg", saveOrg |-> "saveMembership"]

FindOwnerEmail(r) ==
    /\ pc[r] = "email"
    /\ r \in Registers
    /\ Goes(r, IF \E u \in users : EmailOf[u] = EmailOf[r] THEN "done" ELSE Then.email)
    /\ UNCHANGED <<users, organizations, memberships, invite, failed, refused, idFaults>>

\* A duplicate email, slug or membership is refused by its index, and the call
\* ends there: what it has saved stays.
SaveOwner(r) ==
    /\ pc[r] = "saveUser"
    /\ r \in Registers
    /\ IF EmailTaken(r)
       THEN Goes(r, "done") /\ refused' = refused \cup {r} /\ UNCHANGED users
       ELSE /\ users' = users \cup {r}
            /\ Goes(r, Then.saveUser)
            /\ UNCHANGED refused
    /\ UNCHANGED <<organizations, memberships, invite, failed, idFaults>>

SaveOrganization(r) ==
    /\ pc[r] = "saveOrg"
    /\ IF SlugTaken(r)
       THEN Goes(r, "done") /\ refused' = refused \cup {r} /\ UNCHANGED organizations
       ELSE /\ organizations' = organizations \cup {r}
            /\ Goes(r, Then.saveOrg)
            /\ UNCHANGED refused
    /\ UNCHANGED <<users, memberships, invite, failed, idFaults>>

SaveOwnership(r) ==
    /\ pc[r] = "saveMembership"
    /\ r \in Registers
    /\ memberships' = memberships \cup {[org |-> r, user |-> r, role |-> "OWNER"]}
    /\ Goes(r, "done")
    /\ UNCHANGED <<users, organizations, invite, failed, refused, idFaults>>

-----------------------------------------------------------------------------
\* InviteUserUseCase.

\* Mutant of MayInvite: the inviter is not asked for a membership.
AnybodyInvites(o, u) == TRUE

\* An active membership that is at least an admin's.
MayInvite(o, u) == \E m \in memberships : m.org = o /\ m.user = u /\ m.role # "MEMBER"

BeginInvite(i) ==
    /\ pc[i] = "inviter"
    /\ \E o \in organizations, inviter \in users, role \in Roles :
          /\ MayInvite(o, inviter)
          /\ invite' = [invite EXCEPT ![i] = [org |-> o, role |-> role, user |-> i]]
    /\ Goes(i, "email")
    /\ UNCHANGED <<users, organizations, memberships, failed, refused, idFaults>>

\* A user of that email is invited as he is, whichever call saved him.
FindInvitee(i) ==
    /\ pc[i] = "email"
    /\ i \in Invites
    /\ IF \E u \in users : EmailOf[u] = EmailOf[i]
       THEN /\ \E u \in users :
                  /\ EmailOf[u] = EmailOf[i]
                  /\ invite' = [invite EXCEPT ![i].user = u]
            /\ Goes(i, "member")
       ELSE Goes(i, "saveUser") /\ UNCHANGED invite
    /\ UNCHANGED <<users, organizations, memberships, failed, refused, idFaults>>

SaveInvitee(i) ==
    /\ pc[i] = "saveUser"
    /\ i \in Invites
    /\ IF EmailTaken(i)
       THEN Goes(i, "done") /\ refused' = refused \cup {i} /\ UNCHANGED users
       ELSE Goes(i, "member") /\ users' = users \cup {i} /\ UNCHANGED refused
    /\ UNCHANGED <<organizations, memberships, invite, failed, idFaults>>

FindMember(i) ==
    /\ pc[i] = "member"
    /\ Goes(i, IF Member(invite[i].org, invite[i].user) THEN "done" ELSE "saveMembership")
    /\ UNCHANGED <<users, organizations, memberships, invite, failed, refused, idFaults>>

SaveMembership(i) ==
    LET x == invite[i]
    IN /\ pc[i] = "saveMembership"
       /\ i \in Invites
       /\ Goes(i, "done")
       /\ IF MemberTaken(x.org, x.user)
          THEN refused' = refused \cup {i} /\ UNCHANGED memberships
          ELSE /\ memberships' = memberships \cup {x}
               /\ UNCHANGED refused
       /\ UNCHANGED <<users, organizations, invite, failed, idFaults>>

-----------------------------------------------------------------------------
\* A query rejects, or the API restarts.
CallFails(c) ==
    /\ idFaults < MaxIdFaults
    /\ Working(c)
    /\ Goes(c, "done")
    /\ failed' = failed \cup {c}
    /\ idFaults' = idFaults + 1
    /\ UNCHANGED <<users, organizations, memberships, invite, refused>>

IdentityInit ==
    /\ users = {}
    /\ organizations = {}
    /\ memberships = {}
    /\ pc = [c \in Calls |-> IF c \in Registers THEN "slug" ELSE "inviter"]
    /\ invite = [i \in Invites |-> IdleInvite]
    /\ failed = {}
    /\ refused = {}
    /\ idFaults = 0

IdentityNext ==
    \/ \E r \in Registers :
          \/ FindSlug(r) \/ FindOwnerEmail(r)
          \/ SaveOwner(r) \/ SaveOrganization(r) \/ SaveOwnership(r)
    \/ \E i \in Invites :
          \/ BeginInvite(i) \/ FindInvitee(i) \/ SaveInvitee(i) \/ FindMember(i)
          \/ SaveMembership(i)
    \/ \E c \in Calls : CallFails(c)

IdentitySpec == IdentityInit /\ [][IdentityNext]_identityVars

-----------------------------------------------------------------------------
\* However registrations and invitations of one person overlap, he has one
\* account: the one that authentication finds.
OneAccountPerEmail == \A u, v \in users : EmailOf[u] = EmailOf[v] => u = v

\* The role of a member is never ambiguous, though the check for a membership and its
\* insert are apart.
OneRolePerMember ==
    \A m, n \in memberships : m.org = n.org /\ m.user = n.user => m = n

\* Types; and the foreign keys of memberships never refuse one.
IdentityTypeOK ==
    /\ users \subseteq Calls
    /\ organizations \subseteq Registers
    /\ memberships \subseteq Membership
    /\ pc \in [Calls -> Steps]
    /\ invite \in [Invites -> Invitation]
    /\ failed \subseteq Calls
    /\ refused \subseteq Calls
    /\ idFaults \in 0 .. MaxIdFaults
    /\ \A m \in memberships : m.org \in organizations /\ m.user \in users
    /\ OneAccountPerEmail
    /\ OneRolePerMember

\* Every organization with a member has an owner, its registrar: nobody is
\* invited before the registration is complete, nor after it broke off.
MembersHaveOwner ==
    \A m \in memberships : [org |-> m.org, user |-> m.org, role |-> "OWNER"] \in memberships

\* Of the registration ("in one consistent action"): an organization without a
\* member, which keeps its slug taken and that nobody can enter, comes only of a
\* failure in the middle of its registration: not of two registrations racing for
\* a slug or an email.
EmptyOrganizationsFailed ==
    \A o \in organizations : ~Working(o) /\ (\A m \in memberships : m.org # o) => o \in failed
=============================================================================
