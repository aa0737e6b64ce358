------------------------ MODULE CredentialResolution ------------------------
(***************************************************************************)
(* The credentials of one organization for one provider, and how the       *)
(* worker picks the one an execution for a project calls the provider      *)
(* with: the most specific one that has not expired, the newest of those.  *)
(* (No call revokes or rotates a credential.)                              *)
(***************************************************************************)
EXTENDS Naturals

CONSTANTS
    Credentials,  \* ids, each generated by the registering call of its name
    PlaceOf,      \* the scope and the label each is registered with
    Resolvers,    \* executions
    LastMoment,   \* bound: the time looked at
    NoCredential

Moments == 0 .. LastMoment

\* One past the last moment: a credential that does not expire.
Never == LastMoment + 1

\* Scopes as the execution sees them: its project, the portfolio and a domain
\* of its project, its organization; or another project, portfolio or domain.
Specificity == [domain |-> 4, project |-> 3, portfolio |-> 2, org |-> 1, elsewhere |-> 0]

ASSUME NoCredentialAssumption == NoCredential \notin Credentials
ASSUME PlaceAssumption ==
    /\ DOMAIN PlaceOf = Credentials
    /\ \A c \in Credentials : PlaceOf[c].scope \in DOMAIN Specificity
ASSUME MomentAssumption == LastMoment \in Nat

VARIABLES
    credential, \* the rows: when each was created and when it expires
    register,   \* calls that register
    resolver,   \* executions that resolve
    moment

credentialVars == <<credential, register, resolver, moment>>

Absent == [created |-> 0, expires |-> 0]
Row == [created : Moments, expires : 0 .. Never]

\* A resolution has the moment it read the rows, those of them the loop has yet
\* to look at, and the one chosen so far.
IdleResolver ==
    [pc |-> "idle", asked |-> 0, override |-> FALSE, todo |-> {}, chosen |-> NoCredential]
Resolver ==
    [pc : {"idle", "loop", "call", "refused"}, asked : Moments, override : BOOLEAN,
     todo : SUBSET Credentials, chosen : Credentials \cup {NoCredential}]

Registered(c) == register[c] = "registered"
Usable(c) == Registered(c) /\ moment < credential[c].expires

-----------------------------------------------------------------------------
\* RegisterProviderCredentialUseCase.

FindByScope(c) ==
    /\ register[c] = "ready"
    /\ \A d \in Credentials : Registered(d) => PlaceOf[d] # PlaceOf[c]
    /\ register' = [register EXCEPT ![c] = "insert"]
    /\ UNCHANGED <<credential, resolver, moment>>

\* Mutant of PlaceTaken: no unique index.
PlaceFree(c) == FALSE

PlaceTaken(c) == \E d \in Credentials : Registered(d) /\ PlaceOf[d] = PlaceOf[c]

\* The row is inserted, to expire in the future or never, or refused by the unique
\* index on scope and label.
InsertCredential(c) ==
    /\ register[c] = "insert"
    /\ IF PlaceTaken(c)
       THEN /\ register' = [register EXCEPT ![c] = "refused"]
            /\ UNCHANGED credential
       ELSE /\ register' = [register EXCEPT ![c] = "registered"]
            /\ \E expires \in moment + 1 .. Never :
                  credential' = [credential EXCEPT ![c] =
                                    [created |-> moment, expires |-> expires]]
    /\ UNCHANGED <<resolver, moment>>

-----------------------------------------------------------------------------
\* ResolveProviderCredentialUseCase, as the worker calls it.

\* The worker passes the project and no other hint, so that credentials of a
\* domain or a portfolio match nothing.
Hints == {"project"}

\* score: 0 for null.
Score(c) ==
    IF PlaceOf[c].scope \in Hints \cup {"org"} THEN Specificity[PlaceOf[c].scope] ELSE 0

\* The rows are listed, in no order, and those that are not usable left out.
ListForProvider(r) ==
    /\ resolver[r].pc = "idle"
    /\ resolver' = [resolver EXCEPT ![r] =
           [IdleResolver EXCEPT !.pc = "loop", !.asked = moment,
                                !.todo = {c \in Credentials : Usable(c)}]]
    /\ UNCHANGED <<credential, register, moment>>

\* A definition may name its credential, whatever its scope: there is no other
\* when that one is missing or expired.
ResolveOverride(r) ==
    /\ resolver[r].pc = "idle"
    /\ \E c \in Credentials :
          resolver' = [resolver EXCEPT ![r] =
             IF Usable(c)
             THEN [IdleResolver EXCEPT !.pc = "call", !.asked = moment, !.override = TRUE,
                                       !.chosen = c]
             ELSE [IdleResolver EXCEPT !.pc = "refused", !.asked = moment, !.override = TRUE]]
    /\ UNCHANGED <<credential, register, moment>>

\* Mutant of Better: the newest, whatever its scope.
Newer(c, chosen) ==
    Score(c) > 0 /\ (chosen = NoCredential \/ credential[c].created > credential[chosen].created)

Better(c, chosen) ==
    /\ Score(c) > 0
    /\ \/ chosen = NoCredential
       \/ Score(c) > Score(chosen)
       \/ Score(c) = Score(chosen) /\ credential[c].created > credential[chosen].created

Consider(r) ==
    /\ resolver[r].pc = "loop"
    /\ \E c \in resolver[r].todo :
          resolver' = [resolver EXCEPT
             ![r].todo = @ \ {c},
             ![r].chosen = IF Better(c, @) THEN c ELSE @]
    /\ UNCHANGED <<credential, register, moment>>

\* The provider is called with the credential, or the job fails for want of one.
Resolve(r) ==
    /\ resolver[r].pc = "loop"
    /\ resolver[r].todo = {}
    /\ resolver' = [resolver EXCEPT ![r].pc = IF resolver[r].chosen = NoCredential
                                              THEN "refused" ELSE "call"]
    /\ UNCHANGED <<credential, register, moment>>

\* The call is over.
EndCall(r) ==
    /\ resolver[r].pc \in {"call", "refused"}
    /\ resolver' = [resolver EXCEPT ![r] = IdleResolver]
    /\ UNCHANGED <<credential, register, moment>>

TimePasses ==
    /\ moment < LastMoment
    /\ moment' = moment + 1
    /\ UNCHANGED <<credential, register, resolver>>

CredentialInit ==
    /\ credential = [c \in Credentials |-> Absent]
    /\ register = [c \in Credentials |-> "ready"]
    /\ resolver = [r \in Resolvers |-> IdleResolver]
    /\ moment = 0

CredentialNext ==
    \/ \E c \in Credentials : FindByScope(c) \/ InsertCredential(c)
    \/ \E r \in Resolvers :
          ListForProvider(r) \/ ResolveOverride(r) \/ Consider(r) \/ Resolve(r) \/ EndCall(r)
    \/ TimePasses

CredentialSpec == CredentialInit /\ [][CredentialNext]_credentialVars

-----------------------------------------------------------------------------
\* Two registrations that overlap do not leave two credentials of one scope and
\* label.
OneCredentialPerLabel ==
    \A c, d \in {e \in Credentials : Registered(e)} : PlaceOf[c] = PlaceOf[d] => c = d

CredentialTypeOK ==
    /\ credential \in [Credentials -> Row]
    /\ register \in [Credentials -> {"ready", "insert", "registered", "refused"}]
    /\ resolver \in [Resolvers -> Resolver]
    /\ moment \in Moments
    /\ \A c \in Credentials : Registered(c) => credential[c].created < credential[c].expires
    /\ OneCredentialPerLabel

\* What an execution could have been called with: the credentials of its project and
\* its organization registered before it asked and not expired by then.
Candidates(r) ==
    {c \in Credentials : /\ Registered(c)
                         /\ credential[c].created < resolver[r].asked
                         /\ resolver[r].asked < credential[c].expires
                         /\ PlaceOf[c].scope \in {"project", "org"}}

\* "Cascade-resolves the most specific usable credential": in whatever order the
\* database lists the rows, and whatever is registered or expires during the loop,
\* the project's own credential goes before the organization's, and of those of
\* one scope a later one replaces an earlier one; and a job fails for want of a
\* credential only if there is none.
CascadeFindsBest ==
    \A r \in Resolvers :
        ~resolver[r].override
        => /\ resolver[r].pc = "refused" => Candidates(r) = {}
           /\ resolver[r].pc = "call"
              => LET x == resolver[r].chosen
                 IN /\ resolver[r].asked < credential[x].expires
                    /\ \A c \in Candidates(r) :
                          /\ PlaceOf[c].scope = "project" => PlaceOf[x].scope = "project"
                          /\ PlaceOf[c].scope = PlaceOf[x].scope
                             => credential[c].created <= credential[x].created
=============================================================================
