---------------------------- MODULE AccessProofs ----------------------------
(***************************************************************************)
(* Proofs about the two components that decide who may do what: that the   *)
(* worker calls a provider with the best credential there is, and that an  *)
(* organization with members has an owner.                                 *)
(***************************************************************************)
EXTENDS CredentialResolution, IdentityAccess, TLAPS

\* A credential that the loop may have chosen: usable when the rows were read.
Sound(c, asked) ==
    /\ c \in Credentials
    /\ Registered(c)
    /\ asked < credential[c].expires
    /\ Score(c) > 0

\* What x was chosen over.
AtLeast(x, c) ==
    \/ Score(x) > Score(c)
    \/ Score(x) = Score(c) /\ credential[c].created <= credential[x].created

\* A loop has looked at all candidates but those it has yet to look at.
LoopSound(r) ==
    LET x == resolver[r]
    IN /\ x.pc = "loop" => ~x.override
       /\ x.pc # "idle" /\ ~x.override
          => /\ x.chosen # NoCredential => Sound(x.chosen, x.asked)
             /\ \A c \in x.todo : Registered(c) /\ x.asked < credential[c].expires
             /\ \A c \in Candidates(r) :
                   c \in x.todo \/ (x.chosen # NoCredential /\ AtLeast(x.chosen, c))
       /\ x.pc = "call" /\ ~x.override => x.todo = {} /\ x.chosen # NoCredential
       /\ x.pc = "refused" /\ ~x.override => x.todo = {} /\ x.chosen = NoCredential

CredentialInv ==
    /\ CredentialTypeOK
    /\ \A r \in Resolvers : resolver[r].asked <= moment
    /\ \A r \in Resolvers : LoopSound(r)

Ownership(o) == [org |-> o, user |-> o, role |-> "OWNER"]

\* How far a registration is, and what it has saved: nobody is a member of an
\* organization before its owner is.
RegistrationSound(r) ==
    /\ pc[r] \in {"slug", "email", "saveUser", "saveOrg", "saveMembership", "done"}
    /\ pc[r] \in {"saveOrg", "saveMembership"} => r \in users
    /\ pc[r] = "saveMembership" => r \in organizations
    /\ r \in organizations => pc[r] \in {"saveMembership", "done"}
    /\ r \in organizations /\ pc[r] = "done" => Ownership(r) \in memberships \/ r \in failed
    /\ (\E m \in memberships : m.org = r) => pc[r] = "done" /\ Ownership(r) \in memberships

\* An invitation is to an organization with an owner, of a user who is saved before
\* his membership.
InvitationSound(i) ==
    /\ pc[i] \in {"inviter", "email", "saveUser", "member", "saveMembership", "done"}
    /\ pc[i] \in {"email", "saveUser", "member", "saveMembership"}
       => invite[i].org \in Registers /\ Ownership(invite[i].org) \in memberships
    /\ pc[i] \in {"email", "saveUser"} => invite[i].user = i
    /\ pc[i] \in {"member", "saveMembership"} => invite[i].user \in users

IdentityInv ==
    /\ IdentityTypeOK
    /\ \A r \in Registers : RegistrationSound(r)
    /\ \A i \in Invites : InvitationSound(i)

-----------------------------------------------------------------------------
\* Credentials.

\* The worker's hints leave two scopes that count.
LEMMA Scores ==
    ASSUME NEW c \in Credentials
    PROVE  /\ PlaceOf[c].scope = "project" => Score(c) = 3
           /\ PlaceOf[c].scope = "org" => Score(c) = 1
           /\ PlaceOf[c].scope \notin {"project", "org"} => Score(c) = 0
           /\ Score(c) \in {0, 1, 3}
BY PlaceAssumption DEF Score, Hints, Specificity

LEMMA MomentFacts == Moments \subseteq Nat /\ Never \in Nat /\ \A n \in Moments : n < Never
BY MomentAssumption DEF Moments, Never

LEMMA CredentialInitially == CredentialInit => CredentialInv
<1> SUFFICES ASSUME CredentialInit PROVE CredentialInv
    OBVIOUS
<1>1. 0 \in Moments /\ 0 \in 0 .. Never
    BY MomentAssumption DEF Moments, Never
<1>2. IdleResolver \in Resolver
    BY <1>1, NoCredentialAssumption DEF IdleResolver, Resolver
<1>3. CredentialTypeOK
    BY <1>1, <1>2 DEF CredentialInit, CredentialTypeOK, Absent, Row, Registered,
       OneCredentialPerLabel
<1>4. \A r \in Resolvers : resolver[r] = IdleResolver /\ moment = 0
    BY DEF CredentialInit
<1>5. \A r \in Resolvers : resolver[r].asked <= moment /\ LoopSound(r)
    BY <1>4 DEF IdleResolver, LoopSound
<1> QED BY <1>3, <1>5 DEF CredentialInv

\* A step of one execution leaves the others as they are.
LEMMA OtherLoops ==
    ASSUME CredentialInv, UNCHANGED <<credential, register, moment>>,
           NEW r \in Resolvers, resolver'[r] = resolver[r]
    PROVE  LoopSound(r)' /\ resolver'[r].asked <= moment'
BY DEF CredentialInv, LoopSound, Sound, AtLeast, Candidates, Registered, Score, Hints

\* A step of one execution that leaves it sound keeps the invariant.
LEMMA OneLoop ==
    ASSUME CredentialInv, UNCHANGED <<credential, register, moment>>,
           NEW r \in Resolvers, resolver' \in [Resolvers -> Resolver],
           \A s \in Resolvers : s # r => resolver'[s] = resolver[s],
           resolver'[r].asked <= moment, LoopSound(r)'
    PROVE  CredentialInv'
<1>1. CredentialTypeOK'
    BY DEF CredentialInv, CredentialTypeOK, Registered, OneCredentialPerLabel
<1>2. \A s \in Resolvers : LoopSound(s)' /\ resolver'[s].asked <= moment'
    BY OtherLoops
<1> QED BY <1>1, <1>2 DEF CredentialInv

LEMMA ListForProviderStep ==
    ASSUME CredentialInv, NEW r \in Resolvers, ListForProvider(r)
    PROVE  CredentialInv'
<1> DEFINE usable == {c \in Credentials : Usable(c)}
           x == [IdleResolver EXCEPT !.pc = "loop", !.asked = moment, !.todo = usable]
<1>1. moment \in Moments /\ moment \in Nat
    BY MomentFacts DEF CredentialInv, CredentialTypeOK
<1>2. /\ x \in Resolver /\ x.pc = "loop" /\ x.asked = moment /\ x.override = FALSE
      /\ x.todo = usable /\ x.chosen = NoCredential
    BY <1>1 DEF IdleResolver, Resolver
<1> HIDE DEF x
<1>3. resolver' = [resolver EXCEPT ![r] = x] /\ UNCHANGED <<credential, register, moment>>
    BY DEF ListForProvider, x
<1>4. /\ resolver' \in [Resolvers -> Resolver] /\ resolver'[r] = x
      /\ \A s \in Resolvers : s # r => resolver'[s] = resolver[s]
    BY <1>2, <1>3 DEF CredentialInv, CredentialTypeOK
<1>5. \A c \in usable : Registered(c)' /\ moment < credential'[c].expires
    BY <1>3 DEF Usable, Registered
<1>6. \A c \in Candidates(r)' : c \in usable
    BY <1>2, <1>3, <1>4 DEF Candidates, Usable, Registered
<1>7. LoopSound(r)'
    BY <1>2, <1>4, <1>5, <1>6 DEF LoopSound
<1> QED BY <1>1, <1>2, <1>3, <1>4, <1>7, OneLoop

LEMMA ResolveOverrideStep ==
    ASSUME CredentialInv, NEW r \in Resolvers, ResolveOverride(r)
    PROVE  CredentialInv'
<1>1. PICK c \in Credentials :
          resolver' = [resolver EXCEPT ![r] =
             IF Usable(c)
             THEN [IdleResolver EXCEPT !.pc = "call", !.asked = moment, !.override = TRUE,
                                       !.chosen = c]
             ELSE [IdleResolver EXCEPT !.pc = "refused", !.asked = moment, !.override = TRUE]]
    BY DEF ResolveOverride
<1> DEFINE x == IF Usable(c)
                THEN [IdleResolver EXCEPT !.pc = "call", !.asked = moment, !.override = TRUE,
                                          !.chosen = c]
                ELSE [IdleResolver EXCEPT !.pc = "refused", !.asked = moment, !.override = TRUE]
<1>2. moment \in Moments /\ moment \in Nat
    BY MomentFacts DEF CredentialInv, CredentialTypeOK
<1>3. x \in Resolver /\ x.asked = moment /\ x.override = TRUE /\ x.pc # "loop"
    BY <1>2 DEF IdleResolver, Resolver
<1> HIDE DEF x
<1>4. resolver' = [resolver EXCEPT ![r] = x]
    BY <1>1 DEF x
<1>5. UNCHANGED <<credential, register, moment>>
    BY DEF ResolveOverride
<1>6. /\ resolver' \in [Resolvers -> Resolver] /\ resolver'[r] = x
      /\ \A s \in Resolvers : s # r => resolver'[s] = resolver[s]
    BY <1>3, <1>4 DEF CredentialInv, CredentialTypeOK
<1>7. LoopSound(r)'
    BY <1>3, <1>6 DEF LoopSound
<1> QED BY <1>2, <1>3, <1>5, <1>6, <1>7, OneLoop

\* What was chosen stays so when only executions take steps.
LEMMA RowsStay ==
    ASSUME UNCHANGED <<credential, register>>, NEW x \in Credentials \cup {NoCredential},
           NEW asked \in Moments
    PROVE  /\ Sound(x, asked) => Sound(x, asked)'
           /\ \A c \in Credentials : AtLeast(x, c) => AtLeast(x, c)'
<1>1. Sound(x, asked) => Sound(x, asked)'
    BY DEF Sound, Registered, Score, Hints
<1>2. ASSUME NEW c \in Credentials, AtLeast(x, c)
      PROVE  AtLeast(x, c)'
    BY <1>2 DEF AtLeast, Score, Hints
<1> QED BY <1>1, <1>2

\* The loop keeps the better of two.
LEMMA KeepsBetter ==
    ASSUME CredentialTypeOK, NEW c \in Credentials, NEW x \in Credentials \cup {NoCredential},
           NEW d \in Credentials, NEW n \in Credentials \cup {NoCredential},
           n = (IF Better(c, x) THEN c ELSE x)
    PROVE  /\ Score(c) > 0 => n # NoCredential /\ AtLeast(n, c)
           /\ x # NoCredential /\ AtLeast(x, d) => n # NoCredential /\ AtLeast(n, d)
<1>1. \A e \in Credentials : credential[e].created \in Nat /\ Score(e) \in Nat
    <2>1. \A e \in Credentials : credential[e] \in Row
        BY DEF CredentialTypeOK
    <2>2. \A e \in Credentials : credential[e].created \in Nat
        BY <2>1, MomentFacts DEF Row
    <2>3. \A e \in Credentials : Score(e) \in Nat
        BY Scores
    <2> QED BY <2>2, <2>3
<1>2. c # NoCredential
    BY NoCredentialAssumption
<1>3. CASE Better(c, x)
    BY <1>1, <1>2, <1>3 DEF Better, AtLeast
<1>4. CASE ~Better(c, x)
    BY <1>1, <1>2, <1>4 DEF Better, AtLeast
<1> QED BY <1>3, <1>4

LEMMA ConsiderStep ==
    ASSUME CredentialInv, NEW r \in Resolvers, Consider(r)
    PROVE  CredentialInv'
<1>1. PICK c \in resolver[r].todo :
          resolver' = [resolver EXCEPT
             ![r].todo = @ \ {c},
             ![r].chosen = IF Better(c, @) THEN c ELSE @]
    BY DEF Consider
<1>2. PICK old \in Resolver : old = resolver[r]
    BY DEF CredentialInv, CredentialTypeOK
<1>3. /\ old.asked \in Moments /\ old.chosen \in Credentials \cup {NoCredential}
      /\ old.todo \subseteq Credentials /\ c \in old.todo
    BY <1>1, <1>2 DEF Resolver
<1>4. PICK n \in Credentials \cup {NoCredential} :
          n = (IF Better(c, old.chosen) THEN c ELSE old.chosen)
    BY <1>3
<1>5. PICK x \in Resolver : x = [old EXCEPT !.todo = old.todo \ {c}, !.chosen = n]
    BY <1>3 DEF Resolver
<1>6. /\ x.asked = old.asked /\ x.override = old.override
      /\ x.pc = old.pc /\ x.todo = old.todo \ {c} /\ x.chosen = n
    BY <1>5 DEF Resolver
<1>7. resolver' = [resolver EXCEPT ![r] = x]
    BY <1>1, <1>2, <1>4, <1>5 DEF CredentialInv, CredentialTypeOK, Resolver
<1>8. UNCHANGED <<credential, register, moment>> /\ old.pc = "loop"
    BY <1>2 DEF Consider
<1>9. /\ resolver' \in [Resolvers -> Resolver] /\ resolver'[r] = x
      /\ \A s \in Resolvers : s # r => resolver'[s] = resolver[s]
    BY <1>7 DEF CredentialInv, CredentialTypeOK
<1>10. /\ ~old.override
       /\ old.chosen # NoCredential => Sound(old.chosen, old.asked)
       /\ \A d \in old.todo : Registered(d) /\ old.asked < credential[d].expires
       /\ \A d \in Candidates(r) :
             d \in old.todo \/ (old.chosen # NoCredential /\ AtLeast(old.chosen, d))
    BY <1>2, <1>8 DEF CredentialInv, LoopSound
<1>11. n # NoCredential => Sound(n, old.asked)
    BY <1>3, <1>4, <1>10 DEF Better, Sound
<1>12. ASSUME NEW d \in Candidates(r)'
       PROVE  d \in x.todo \/ (n # NoCredential /\ AtLeast(n, d)')
    <2>1. d \in Candidates(r)
        BY <1>2, <1>6, <1>8, <1>9 DEF Candidates, Registered
    <2>2. d \in Credentials /\ Score(d) > 0
        BY <2>1, Scores DEF Candidates
    <2>3. d \in x.todo \/ d = c \/ (old.chosen # NoCredential /\ AtLeast(old.chosen, d))
        BY <1>6, <1>10, <2>1
    <2>4. CredentialTypeOK /\ c \in Credentials
        BY <1>3 DEF CredentialInv
    <2>5. d \in x.todo \/ (n # NoCredential /\ AtLeast(n, d))
        BY <1>3, <1>4, <2>2, <2>3, <2>4, KeepsBetter
    <2> QED BY <1>3, <1>8, <2>2, <2>5, RowsStay
<1>13. \A d \in x.todo : Registered(d)' /\ x.asked < credential'[d].expires
    BY <1>6, <1>8, <1>10 DEF Registered
<1>14. n # NoCredential => Sound(n, x.asked)'
    BY <1>3, <1>6, <1>8, <1>11, RowsStay
<1>15. LoopSound(r)'
    BY <1>6, <1>8, <1>9, <1>10, <1>12, <1>13, <1>14 DEF LoopSound
<1>16. x.asked <= moment
    BY <1>2, <1>6 DEF CredentialInv
<1> QED BY <1>8, <1>9, <1>15, <1>16, OneLoop

LEMMA ResolveStep ==
    ASSUME CredentialInv, NEW r \in Resolvers, Resolve(r)
    PROVE  CredentialInv'
<1>1. PICK old \in Resolver : old = resolver[r]
    BY DEF CredentialInv, CredentialTypeOK
<1>2. PICK x \in Resolver : x = [old EXCEPT !.pc = IF old.chosen = NoCredential
                                                    THEN "refused" ELSE "call"]
    BY DEF Resolver
<1>3. /\ x.asked = old.asked /\ x.override = old.override /\ x.todo = old.todo
      /\ x.chosen = old.chosen
      /\ x.pc = IF old.chosen = NoCredential THEN "refused" ELSE "call"
    BY <1>2 DEF Resolver
<1>4. resolver' = [resolver EXCEPT ![r] = x] /\ old.pc = "loop" /\ old.todo = {}
    BY <1>1, <1>2 DEF Resolve
<1>5. UNCHANGED <<credential, register, moment>>
    BY DEF Resolve
<1>6. /\ resolver' \in [Resolvers -> Resolver] /\ resolver'[r] = x
      /\ \A s \in Resolvers : s # r => resolver'[s] = resolver[s]
    BY <1>4 DEF CredentialInv, CredentialTypeOK
<1>7. old.asked \in Moments /\ old.chosen \in Credentials \cup {NoCredential}
    BY DEF Resolver
<1>8. /\ ~old.override
      /\ old.chosen # NoCredential => Sound(old.chosen, old.asked)
      /\ \A d \in Candidates(r) : old.chosen # NoCredential /\ AtLeast(old.chosen, d)
    BY <1>1, <1>4 DEF CredentialInv, LoopSound
<1>9. \A d \in Candidates(r)' : d \in Credentials /\ d \in Candidates(r)
    BY <1>1, <1>3, <1>5, <1>6 DEF Candidates, Registered
<1>10. old.chosen # NoCredential => Sound(old.chosen, old.asked)'
    BY <1>5, <1>7, <1>8, RowsStay
<1>11. \A d \in Candidates(r)' : old.chosen # NoCredential /\ AtLeast(old.chosen, d)'
    BY <1>5, <1>7, <1>8, <1>9, RowsStay
<1>12. LoopSound(r)'
    BY <1>3, <1>4, <1>6, <1>8, <1>10, <1>11 DEF LoopSound
<1>13. x.asked <= moment
    BY <1>1, <1>3 DEF CredentialInv
<1> QED BY <1>5, <1>6, <1>12, <1>13, OneLoop

LEMMA EndCallStep ==
    ASSUME CredentialInv, NEW r \in Resolvers, EndCall(r)
    PROVE  CredentialInv'
<1>1. /\ resolver' = [resolver EXCEPT ![r] = IdleResolver]
      /\ UNCHANGED <<credential, register, moment>>
    BY DEF EndCall
<1>2. IdleResolver \in Resolver /\ 0 <= moment
    BY MomentFacts, MomentAssumption
       DEF IdleResolver, Resolver, CredentialInv, CredentialTypeOK, Moments
<1>3. /\ resolver' \in [Resolvers -> Resolver] /\ resolver'[r] = IdleResolver
      /\ \A s \in Resolvers : s # r => resolver'[s] = resolver[s]
    BY <1>1, <1>2 DEF CredentialInv, CredentialTypeOK
<1>4. LoopSound(r)'
    BY <1>3 DEF LoopSound, IdleResolver
<1>5. resolver'[r].asked <= moment
    BY <1>2, <1>3 DEF IdleResolver
<1> QED BY <1>1, <1>3, <1>4, <1>5, OneLoop

\* Registrations and time change nothing of what the loops have read, and a row
\* inserted after a loop has begun is no candidate of it.
LEMMA RowsOnlyGrow ==
    ASSUME CredentialInv, CredentialTypeOK', resolver' = resolver,
           moment <= moment',
           \A c \in Credentials : Registered(c) => Registered(c)' /\ credential'[c] = credential[c],
           \A c \in Credentials : Registered(c)' => Registered(c) \/ credential'[c].created = moment
    PROVE  CredentialInv'
<1>1. moment \in Nat /\ moment' \in Nat
    BY MomentFacts DEF CredentialInv, CredentialTypeOK
<1>2. ASSUME NEW r \in Resolvers
      PROVE  LoopSound(r)' /\ resolver'[r].asked <= moment'
    <2>1. PICK x \in Resolver : x = resolver[r] /\ x = resolver'[r]
        BY DEF CredentialInv, CredentialTypeOK
    <2>2. x.asked \in Moments /\ x.asked \in Nat /\ x.chosen \in Credentials \cup {NoCredential}
          /\ x.todo \subseteq Credentials /\ x.asked <= moment
        BY <2>1, MomentFacts DEF Resolver, CredentialInv
    <2>3. ASSUME NEW c \in Candidates(r)'
          PROVE  c \in Candidates(r)
        <3>1. c \in Credentials /\ Registered(c)' /\ credential'[c].created < x.asked
              /\ x.asked < credential'[c].expires /\ PlaceOf[c].scope \in {"project", "org"}
            BY <2>1 DEF Candidates
        <3>2. credential'[c].created # moment
            BY <1>1, <2>2, <3>1
        <3>3. Registered(c) /\ credential'[c] = credential[c]
            BY <3>1, <3>2
        <3> QED BY <2>1, <3>1, <3>3 DEF Candidates
    <2>4. Sound(x.chosen, x.asked) => Sound(x.chosen, x.asked)'
        BY DEF Sound, Score, Hints
    <2>5. ASSUME NEW c \in Credentials, Registered(c), Registered(x.chosen),
                 x.chosen \in Credentials, AtLeast(x.chosen, c)
          PROVE  AtLeast(x.chosen, c)'
        <3>1. credential'[c] = credential[c] /\ credential'[x.chosen] = credential[x.chosen]
            BY <2>5
        <3> QED BY <2>5, <3>1 DEF AtLeast, Score, Hints
    <2>6. LoopSound(r)
        BY DEF CredentialInv
    <2>7. ASSUME x.pc # "idle", ~x.override
          PROVE  /\ x.chosen # NoCredential => Sound(x.chosen, x.asked)'
                 /\ \A c \in x.todo : Registered(c)' /\ x.asked < credential'[c].expires
                 /\ \A c \in Candidates(r)' :
                       c \in x.todo \/ (x.chosen # NoCredential /\ AtLeast(x.chosen, c)')
        <3>1. /\ x.chosen # NoCredential => Sound(x.chosen, x.asked)
              /\ \A c \in x.todo : Registered(c) /\ x.asked < credential[c].expires
              /\ \A c \in Candidates(r) :
                    c \in x.todo \/ (x.chosen # NoCredential /\ AtLeast(x.chosen, c))
            BY <2>1, <2>6, <2>7 DEF LoopSound
        <3>2. x.chosen # NoCredential => Sound(x.chosen, x.asked)'
            BY <2>4, <3>1
        <3>3. \A c \in x.todo : Registered(c)' /\ x.asked < credential'[c].expires
            BY <2>2, <3>1
        <3>4. ASSUME NEW c \in Candidates(r)'
              PROVE  c \in x.todo \/ (x.chosen # NoCredential /\ AtLeast(x.chosen, c)')
            <4>1. c \in Candidates(r) /\ c \in Credentials /\ Registered(c)
                BY <2>3 DEF Candidates
            <4>2. x.chosen # NoCredential => x.chosen \in Credentials /\ Registered(x.chosen)
                BY <3>1 DEF Sound
            <4> QED BY <2>5, <3>1, <4>1, <4>2
        <3> QED BY <3>2, <3>3, <3>4
    <2>8. LoopSound(r)'
        BY <2>1, <2>6, <2>7 DEF LoopSound
    <2> QED BY <1>1, <2>1, <2>2, <2>8
<1> QED BY <1>2 DEF CredentialInv

LEMMA FindByScopeStep ==
    ASSUME CredentialInv, NEW c \in Credentials, FindByScope(c)
    PROVE  CredentialInv'
<1>1. /\ register' = [register EXCEPT ![c] = "insert"] /\ register[c] = "ready"
      /\ UNCHANGED <<credential, resolver, moment>>
    BY DEF FindByScope
<1>2. CredentialTypeOK /\ moment \in Nat
    BY MomentFacts DEF CredentialInv, CredentialTypeOK
<1>3. \A d \in Credentials : Registered(d)' <=> Registered(d)
    BY <1>1, <1>2 DEF Registered, CredentialTypeOK
<1>4. CredentialTypeOK'
    BY <1>1, <1>2, <1>3 DEF CredentialTypeOK, OneCredentialPerLabel
<1> QED BY <1>1, <1>2, <1>3, <1>4, RowsOnlyGrow

LEMMA InsertCredentialStep ==
    ASSUME CredentialInv, NEW c \in Credentials, InsertCredential(c)
    PROVE  CredentialInv'
<1>1. UNCHANGED <<resolver, moment>> /\ register[c] = "insert"
    BY DEF InsertCredential
<1>2. CredentialTypeOK /\ moment \in Moments /\ moment \in Nat
    BY MomentFacts DEF CredentialInv, CredentialTypeOK
<1>3. CASE PlaceTaken(c)
    <2>1. register' = [register EXCEPT ![c] = "refused"] /\ credential' = credential
        BY <1>3 DEF InsertCredential
    <2>2. \A d \in Credentials : Registered(d)' <=> Registered(d)
        BY <1>1, <1>2, <2>1 DEF Registered, CredentialTypeOK
    <2>3. CredentialTypeOK'
        BY <1>1, <1>2, <2>1, <2>2 DEF CredentialTypeOK, OneCredentialPerLabel
    <2> QED BY <1>1, <1>2, <2>1, <2>2, <2>3, RowsOnlyGrow
<1>4. CASE ~PlaceTaken(c)
    <2>1. PICK expires \in moment + 1 .. Never :
             credential' = [credential EXCEPT ![c] = [created |-> moment, expires |-> expires]]
        BY <1>4 DEF InsertCredential
    <2>2. register' = [register EXCEPT ![c] = "registered"]
        BY <1>4 DEF InsertCredential
    <2> DEFINE row == [created |-> moment, expires |-> expires]
    <2>3. row \in Row /\ row.created = moment /\ row.created < row.expires
        <3>1. expires \in Nat /\ moment < expires /\ expires <= Never
            BY <1>2, <2>1, MomentFacts
        <3> QED BY <1>2, <3>1, MomentFacts DEF Row
    <2> HIDE DEF row
    <2>4. credential' \in [Credentials -> Row] /\ credential'[c] = row
          /\ \A d \in Credentials : d # c => credential'[d] = credential[d]
        BY <1>2, <2>1, <2>3 DEF CredentialTypeOK, row
    <2>5. /\ register' \in [Credentials -> {"ready", "insert", "registered", "refused"}]
          /\ \A d \in Credentials : Registered(d)' <=> Registered(d) \/ d = c
          /\ ~Registered(c)
        BY <1>1, <1>2, <2>2 DEF CredentialTypeOK, Registered
    <2>6. OneCredentialPerLabel'
        BY <1>2, <1>4, <2>5 DEF CredentialTypeOK, OneCredentialPerLabel, PlaceTaken
    <2>7. CredentialTypeOK'
        BY <1>1, <1>2, <2>3, <2>4, <2>5, <2>6 DEF CredentialTypeOK
    <2> QED BY <1>1, <1>2, <2>3, <2>4, <2>5, <2>7, RowsOnlyGrow
<1> QED BY <1>3, <1>4

LEMMA TimePassesStep ==
    ASSUME CredentialInv, TimePasses
    PROVE  CredentialInv'
<1>1. moment' = moment + 1 /\ moment < LastMoment /\ UNCHANGED <<credential, register, resolver>>
    BY DEF TimePasses
<1>2. CredentialTypeOK /\ moment \in Moments /\ moment \in Nat /\ moment' \in Moments
    BY <1>1, MomentFacts, MomentAssumption DEF CredentialInv, CredentialTypeOK, Moments
<1>3. \A d \in Credentials : Registered(d)' <=> Registered(d)
    BY <1>1 DEF Registered
<1>4. CredentialTypeOK'
    BY <1>1, <1>2, <1>3 DEF CredentialTypeOK, OneCredentialPerLabel
<1> QED BY <1>1, <1>2, <1>3, <1>4, RowsOnlyGrow

LEMMA CredentialStep == CredentialInv /\ [CredentialNext]_credentialVars => CredentialInv'
<1> SUFFICES ASSUME CredentialInv, [CredentialNext]_credentialVars PROVE CredentialInv'
    OBVIOUS
<1>1. CASE UNCHANGED credentialVars
    BY <1>1, MomentFacts, RowsOnlyGrow
       DEF credentialVars, CredentialInv, CredentialTypeOK, Registered, OneCredentialPerLabel
<1>2. CASE \E c \in Credentials : FindByScope(c) \/ InsertCredential(c)
    BY <1>2, FindByScopeStep, InsertCredentialStep
<1>3. CASE \E r \in Resolvers :
              ListForProvider(r) \/ ResolveOverride(r) \/ Consider(r) \/ Resolve(r) \/ EndCall(r)
    BY <1>3, ListForProviderStep, ResolveOverrideStep, ConsiderStep, ResolveStep, EndCallStep
<1>4. CASE TimePasses
    BY <1>4, TimePassesStep
<1> QED BY <1>1, <1>2, <1>3, <1>4 DEF CredentialNext

LEMMA CredentialAlways == CredentialSpec => []CredentialInv
BY CredentialInitially, CredentialStep, PTL DEF CredentialSpec

\* Types, and: two registrations that overlap do not leave two credentials of one
\* scope and label, because the unique index comes after the check.
THEOREM CredentialTypesCorrect == CredentialSpec => []CredentialTypeOK
<1>1. CredentialInv => CredentialTypeOK
    BY DEF CredentialInv
<1> QED BY <1>1, CredentialAlways, PTL

\* Whatever the order of the rows and whatever is registered or expires meanwhile,
\* an execution calls the provider with the best credential it could have had, and
\* fails for want of one only if there was none.
THEOREM ResolutionFindsBest == CredentialSpec => []CascadeFindsBest
<1>1. ASSUME CredentialInv PROVE CascadeFindsBest
    <2>1. ASSUME NEW r \in Resolvers, ~resolver[r].override, resolver[r].pc = "refused"
          PROVE  Candidates(r) = {}
        BY <1>1, <2>1 DEF CredentialInv, LoopSound
    <2>2. ASSUME NEW r \in Resolvers, ~resolver[r].override, resolver[r].pc = "call",
                 NEW c \in Candidates(r)
          PROVE  /\ PlaceOf[c].scope = "project" => PlaceOf[resolver[r].chosen].scope = "project"
                 /\ PlaceOf[c].scope = PlaceOf[resolver[r].chosen].scope
                    => credential[c].created <= credential[resolver[r].chosen].created
        <3>1. AtLeast(resolver[r].chosen, c) /\ resolver[r].chosen \in Credentials
            BY <1>1, <2>2 DEF CredentialInv, LoopSound, Sound
        <3>2. c \in Credentials /\ PlaceOf[c].scope \in {"project", "org"}
            BY <2>2 DEF Candidates
        <3> QED BY <3>1, <3>2, Scores DEF AtLeast
    <2>3. ASSUME NEW r \in Resolvers, ~resolver[r].override, resolver[r].pc = "call"
          PROVE  resolver[r].asked < credential[resolver[r].chosen].expires
        BY <1>1, <2>3 DEF CredentialInv, LoopSound, Sound
    <2> QED BY <2>1, <2>2, <2>3 DEF CascadeFindsBest
<1> QED BY <1>1, CredentialAlways, PTL

-----------------------------------------------------------------------------
\* Organizations and their members.

LEMMA IdentityInitially == IdentityInit => IdentityInv
<1> SUFFICES ASSUME IdentityInit PROVE IdentityInv
    OBVIOUS
<1>1. IdentityTypeOK
    BY IdFaultsAssumption
       DEF IdentityInit, IdentityTypeOK, Steps, IdleInvite, Invitation, Roles,
           OneAccountPerEmail, OneRolePerMember
<1>2. \A r \in Registers : RegistrationSound(r)
    BY DEF IdentityInit, RegistrationSound, Calls
<1>3. \A i \in Invites : InvitationSound(i)
    BY CallsAssumption DEF IdentityInit, InvitationSound, Calls
<1> QED BY <1>1, <1>2, <1>3 DEF IdentityInv

\* A step that leaves the rows alone and moves on one call keeps the invariant when
\* that call stays sound.
LEMMA OneCall ==
    ASSUME IdentityInv, UNCHANGED <<users, organizations, memberships>>,
           NEW c \in Calls, NEW step \in Steps, pc' = [pc EXCEPT ![c] = step],
           invite' \in [Invites -> Invitation],
           \A i \in Invites : i # c => invite'[i] = invite[i],
           failed' \subseteq Calls, failed \subseteq failed', refused' \subseteq Calls,
           idFaults' \in 0 .. MaxIdFaults,
           c \in Registers => RegistrationSound(c)',
           c \in Invites => InvitationSound(c)'
    PROVE  IdentityInv'
<1>1. pc' \in [Calls -> Steps] /\ \A d \in Calls : d # c => pc'[d] = pc[d]
    BY DEF IdentityInv, IdentityTypeOK
<1>2. IdentityTypeOK'
    BY <1>1 DEF IdentityInv, IdentityTypeOK, OneAccountPerEmail, OneRolePerMember
<1>3. ASSUME NEW r \in Registers, r # c
      PROVE  RegistrationSound(r)'
    BY <1>1, <1>3 DEF IdentityInv, RegistrationSound, Calls, Ownership
<1>4. ASSUME NEW i \in Invites, i # c
      PROVE  InvitationSound(i)'
    BY <1>1, <1>4 DEF IdentityInv, InvitationSound, Calls, Ownership
<1> QED BY <1>2, <1>3, <1>4 DEF IdentityInv

\* A call that ends stays sound.
LEMMA CallFailsStep ==
    ASSUME IdentityInv, NEW c \in Calls, CallFails(c)
    PROVE  IdentityInv'
<1>1. /\ UNCHANGED <<users, organizations, memberships, invite, refused>>
      /\ pc' = [pc EXCEPT ![c] = "done"] /\ failed' = failed \cup {c}
      /\ idFaults' = idFaults + 1 /\ idFaults < MaxIdFaults
    BY DEF CallFails, Goes
<1>2. pc'[c] = "done" /\ "done" \in Steps /\ idFaults' \in 0 .. MaxIdFaults
    BY <1>1, IdFaultsAssumption DEF IdentityInv, IdentityTypeOK, Steps
<1>3. ASSUME c \in Registers PROVE RegistrationSound(c)'
    BY <1>1, <1>2, <1>3 DEF IdentityInv, RegistrationSound, Ownership
<1>4. ASSUME c \in Invites PROVE InvitationSound(c)'
    BY <1>1, <1>2, <1>4 DEF InvitationSound
<1>5. /\ invite' \in [Invites -> Invitation] /\ \A i \in Invites : i # c => invite'[i] = invite[i]
      /\ failed' \subseteq Calls /\ failed \subseteq failed' /\ refused' \subseteq Calls
    BY <1>1 DEF IdentityInv, IdentityTypeOK
<1> QED BY <1>1, <1>2, <1>3, <1>4, <1>5, OneCall

\* A call that moves on and saves nothing.
LEMMA OnlyReads ==
    ASSUME IdentityInv, NEW c \in Calls, NEW step \in Steps, pc' = [pc EXCEPT ![c] = step],
           UNCHANGED <<users, organizations, memberships, invite, failed, idFaults>>,
           refused' \in {refused, refused \cup {c}},
           c \in Registers => RegistrationSound(c)',
           c \in Invites => InvitationSound(c)'
    PROVE  IdentityInv'
<1>1. /\ invite' \in [Invites -> Invitation] /\ \A i \in Invites : invite'[i] = invite[i]
      /\ failed' \subseteq Calls /\ failed \subseteq failed' /\ refused' \subseteq Calls
      /\ idFaults' \in 0 .. MaxIdFaults
    BY DEF IdentityInv, IdentityTypeOK
<1> QED BY <1>1, OneCall

LEMMA FindSlugStep ==
    ASSUME IdentityInv, NEW r \in Registers, FindSlug(r)
    PROVE  IdentityInv'
<1>1. PICK step \in {"done", "email"} : pc' = [pc EXCEPT ![r] = step]
    BY DEF FindSlug, Goes
<1>2. /\ UNCHANGED <<users, organizations, memberships, invite, failed, refused, idFaults>>
      /\ pc[r] = "slug" /\ r \in Calls /\ step \in Steps
    BY DEF FindSlug, Calls, Steps
<1>3. pc'[r] = step
    BY <1>1, <1>2 DEF IdentityInv, IdentityTypeOK
<1>4. RegistrationSound(r)'
    BY <1>2, <1>3 DEF IdentityInv, RegistrationSound
<1> QED BY <1>1, <1>2, <1>4, CallsAssumption, OnlyReads

LEMMA FindOwnerEmailStep ==
    ASSUME IdentityInv, NEW r \in Registers, FindOwnerEmail(r)
    PROVE  IdentityInv'
<1>1. PICK step \in {"done", "saveUser"} : pc' = [pc EXCEPT ![r] = step]
    BY DEF FindOwnerEmail, Goes, Then
<1>2. /\ UNCHANGED <<users, organizations, memberships, invite, failed, refused, idFaults>>
      /\ pc[r] = "email" /\ r \in Calls /\ step \in Steps
    BY DEF FindOwnerEmail, Calls, Steps
<1>3. pc'[r] = step
    BY <1>1, <1>2 DEF IdentityInv, IdentityTypeOK
<1>4. RegistrationSound(r)'
    BY <1>2, <1>3 DEF IdentityInv, RegistrationSound
<1> QED BY <1>1, <1>2, <1>4, CallsAssumption, OnlyReads

\* A unique index ends a call: nothing else changes.
LEMMA RefusedStep ==
    ASSUME IdentityInv, NEW c \in Calls, pc' = [pc EXCEPT ![c] = "done"],
           UNCHANGED <<users, organizations, memberships, invite, failed, idFaults>>,
           refused' = refused \cup {c},
           c \notin organizations
    PROVE  IdentityInv'
<1>1. pc'[c] = "done" /\ "done" \in Steps
    BY DEF IdentityInv, IdentityTypeOK, Steps
<1>2. ASSUME c \in Registers PROVE RegistrationSound(c)'
    BY <1>1, <1>2 DEF IdentityInv, RegistrationSound, Ownership, IdentityTypeOK
<1>3. ASSUME c \in Invites PROVE InvitationSound(c)'
    BY <1>1 DEF InvitationSound
<1> QED BY <1>1, <1>2, <1>3, OnlyReads

\* A new user with an email of his own disturbs nobody.
LEMMA UserSaved ==
    ASSUME IdentityInv, NEW c \in Calls, ~EmailTaken(c), users' = users \cup {c},
           NEW step \in {"saveOrg", "member"}, pc' = [pc EXCEPT ![c] = step],
           UNCHANGED <<organizations, memberships, invite, failed, refused, idFaults>>,
           c \in Registers => pc[c] = "saveUser" /\ step = "saveOrg",
           c \in Invites => pc[c] = "saveUser" /\ step = "member"
    PROVE  IdentityInv'
<1>1. /\ pc' \in [Calls -> Steps] /\ pc'[c] = step
      /\ \A d \in Calls : d # c => pc'[d] = pc[d]
    BY DEF IdentityInv, IdentityTypeOK, Steps
<1>2. OneAccountPerEmail'
    BY DEF IdentityInv, IdentityTypeOK, OneAccountPerEmail, EmailTaken
<1>3. IdentityTypeOK'
    BY <1>1, <1>2 DEF IdentityInv, IdentityTypeOK, OneRolePerMember
<1>4. ASSUME NEW r \in Registers PROVE RegistrationSound(r)'
    BY <1>1 DEF IdentityInv, RegistrationSound, Calls, Ownership
<1>5. ASSUME NEW i \in Invites PROVE InvitationSound(i)'
    BY <1>1 DEF IdentityInv, InvitationSound, Calls, Ownership
<1> QED BY <1>3, <1>4, <1>5 DEF IdentityInv

LEMMA SaveOwnerStep ==
    ASSUME IdentityInv, NEW r \in Registers, SaveOwner(r)
    PROVE  IdentityInv'
<1>1. /\ UNCHANGED <<organizations, memberships, invite, failed, idFaults>>
      /\ pc[r] = "saveUser" /\ r \in Calls /\ r \notin Invites /\ r \notin organizations
    BY CallsAssumption DEF SaveOwner, Calls, IdentityInv, RegistrationSound
<1>2. CASE EmailTaken(r)
    BY <1>1, <1>2, RefusedStep DEF SaveOwner, Goes
<1>3. CASE ~EmailTaken(r)
    BY <1>1, <1>3, UserSaved DEF SaveOwner, Goes, Then
<1> QED BY <1>2, <1>3

LEMMA SaveInviteeStep ==
    ASSUME IdentityInv, NEW i \in Invites, SaveInvitee(i)
    PROVE  IdentityInv'
<1>1. /\ UNCHANGED <<organizations, memberships, invite, failed, idFaults>>
      /\ pc[i] = "saveUser" /\ i \in Calls /\ i \notin Registers /\ i \notin organizations
    BY CallsAssumption DEF SaveInvitee, Calls, IdentityInv, IdentityTypeOK
<1>2. CASE EmailTaken(i)
    BY <1>1, <1>2, RefusedStep DEF SaveInvitee, Goes
<1>3. CASE ~EmailTaken(i)
    BY <1>1, <1>3, UserSaved DEF SaveInvitee, Goes
<1> QED BY <1>2, <1>3

LEMMA SaveOrganizationStep ==
    ASSUME IdentityInv, NEW r \in Registers, SaveOrganization(r)
    PROVE  IdentityInv'
<1>1. /\ UNCHANGED <<users, memberships, invite, failed, idFaults>>
      /\ pc[r] = "saveOrg" /\ r \in Calls /\ r \notin Invites /\ r \notin organizations
    BY CallsAssumption DEF SaveOrganization, Calls, IdentityInv, RegistrationSound
<1>2. CASE SlugTaken(r)
    BY <1>1, <1>2, RefusedStep DEF SaveOrganization, Goes
<1>3. CASE ~SlugTaken(r)
    <2>1. /\ organizations' = organizations \cup {r} /\ refused' = refused
          /\ pc' = [pc EXCEPT ![r] = "saveMembership"]
        BY <1>3 DEF SaveOrganization, Goes, Then
    <2>2. /\ pc' \in [Calls -> Steps] /\ pc'[r] = "saveMembership"
          /\ \A d \in Calls : d # r => pc'[d] = pc[d]
        BY <1>1, <2>1 DEF IdentityInv, IdentityTypeOK, Steps
    <2>3. IdentityTypeOK'
        BY <1>1, <2>1, <2>2
           DEF IdentityInv, IdentityTypeOK, OneRolePerMember, OneAccountPerEmail
    <2>4. ASSUME NEW s \in Registers PROVE RegistrationSound(s)'
        BY <1>1, <2>1, <2>2 DEF IdentityInv, RegistrationSound, Calls, Ownership
    <2>5. ASSUME NEW i \in Invites PROVE InvitationSound(i)'
        BY <1>1, <2>1, <2>2 DEF IdentityInv, InvitationSound, Calls, Ownership
    <2> QED BY <2>3, <2>4, <2>5 DEF IdentityInv
<1> QED BY <1>2, <1>3

\* A membership added where there was none of that user.
LEMMA MembershipSaved ==
    ASSUME IdentityInv, NEW c \in Calls, pc' = [pc EXCEPT ![c] = "done"],
           NEW m \in Membership, memberships' = memberships \cup {m},
           m.org \in organizations, m.user \in users, ~Member(m.org, m.user),
           UNCHANGED <<users, organizations, invite, failed, refused, idFaults>>,
           c \in Registers => c = m.org,
           pc'[m.org] = "done", Ownership(m.org) \in memberships'
    PROVE  IdentityInv'
<1>1. /\ pc' \in [Calls -> Steps] /\ pc'[c] = "done"
      /\ \A d \in Calls : d # c => pc'[d] = pc[d]
    BY DEF IdentityInv, IdentityTypeOK, Steps
<1>2. OneRolePerMember'
    BY DEF IdentityInv, IdentityTypeOK, OneRolePerMember, Member
<1>3. IdentityTypeOK'
    BY <1>1, <1>2 DEF IdentityInv, IdentityTypeOK, OneAccountPerEmail
<1>4. ASSUME NEW r \in Registers PROVE RegistrationSound(r)'
    <2>1. CASE r = m.org
        BY <2>1 DEF IdentityInv, RegistrationSound
    <2>2. CASE r # m.org
        BY <1>1, <2>2 DEF IdentityInv, RegistrationSound, Calls
    <2> QED BY <2>1, <2>2
<1>5. ASSUME NEW i \in Invites PROVE InvitationSound(i)'
    BY <1>1 DEF IdentityInv, InvitationSound, Calls, Ownership
<1> QED BY <1>3, <1>4, <1>5 DEF IdentityInv

LEMMA SaveOwnershipStep ==
    ASSUME IdentityInv, NEW r \in Registers, SaveOwnership(r)
    PROVE  IdentityInv'
<1>1. /\ UNCHANGED <<users, organizations, invite, failed, refused, idFaults>>
      /\ pc[r] = "saveMembership" /\ r \in Calls
      /\ pc' = [pc EXCEPT ![r] = "done"]
      /\ memberships' = memberships \cup {Ownership(r)}
    BY DEF SaveOwnership, Calls, Goes, Ownership
<1>2. r \in users /\ r \in organizations /\ ~\E m \in memberships : m.org = r
    BY <1>1 DEF IdentityInv, RegistrationSound
<1>3. /\ Ownership(r) \in Membership /\ Ownership(r).org = r /\ Ownership(r).user = r
    BY <1>1 DEF Ownership, Membership, Roles
<1>4. pc'[r] = "done" /\ ~Member(r, r)
    BY <1>1, <1>2 DEF IdentityInv, IdentityTypeOK, Member
<1> QED BY <1>1, <1>2, <1>3, <1>4, MembershipSaved

LEMMA BeginInviteStep ==
    ASSUME IdentityInv, NEW i \in Invites, BeginInvite(i)
    PROVE  IdentityInv'
<1>1. PICK o \in organizations, inviter \in users, role \in Roles :
          /\ MayInvite(o, inviter)
          /\ invite' = [invite EXCEPT ![i] = [org |-> o, role |-> role, user |-> i]]
    BY DEF BeginInvite
<1>2. /\ UNCHANGED <<users, organizations, memberships, failed, refused, idFaults>>
      /\ i \in Calls /\ i \notin Registers /\ pc' = [pc EXCEPT ![i] = "email"] /\ "email" \in Steps
    BY CallsAssumption DEF BeginInvite, Calls, Goes, Steps
<1>3. o \in Registers /\ Ownership(o) \in memberships
    BY <1>1 DEF IdentityInv, IdentityTypeOK, RegistrationSound, MayInvite
<1> DEFINE x == [org |-> o, role |-> role, user |-> i]
<1>4. x \in Invitation /\ x.org = o /\ x.user = i
    BY <1>2, <1>3 DEF Invitation
<1> HIDE DEF x
<1>5. /\ invite' \in [Invites -> Invitation] /\ invite'[i] = x
      /\ \A j \in Invites : j # i => invite'[j] = invite[j]
    BY <1>1, <1>4 DEF IdentityInv, IdentityTypeOK, x
<1>6. pc'[i] = "email"
    BY <1>2 DEF IdentityInv, IdentityTypeOK
<1>7. InvitationSound(i)'
    BY <1>2, <1>3, <1>4, <1>5, <1>6 DEF InvitationSound
<1>8. failed' \subseteq Calls /\ failed \subseteq failed' /\ refused' \subseteq Calls
      /\ idFaults' \in 0 .. MaxIdFaults
    BY <1>2 DEF IdentityInv, IdentityTypeOK
<1> QED BY <1>2, <1>5, <1>7, <1>8, OneCall

LEMMA FindInviteeStep ==
    ASSUME IdentityInv, NEW i \in Invites, FindInvitee(i)
    PROVE  IdentityInv'
<1>1. /\ UNCHANGED <<users, organizations, memberships, failed, refused, idFaults>>
      /\ i \in Calls /\ i \notin Registers /\ pc[i] = "email"
      /\ "member" \in Steps /\ "saveUser" \in Steps
    BY CallsAssumption DEF FindInvitee, Calls, Steps
<1>2. CASE \E u \in users : EmailOf[u] = EmailOf[i]
    <2>1. PICK u \in users : invite' = [invite EXCEPT ![i].user = u]
        BY <1>2 DEF FindInvitee
    <2>2. pc' = [pc EXCEPT ![i] = "member"]
        BY <1>2 DEF FindInvitee, Goes
    <2>3. invite[i] \in Invitation /\ u \in Calls
        BY DEF IdentityInv, IdentityTypeOK
    <2>4. /\ invite' \in [Invites -> Invitation] /\ invite'[i].user = u
          /\ invite'[i].org = invite[i].org
          /\ \A j \in Invites : j # i => invite'[j] = invite[j]
        BY <2>1, <2>3 DEF IdentityInv, IdentityTypeOK, Invitation
    <2>5. pc'[i] = "member"
        BY <1>1, <2>2 DEF IdentityInv, IdentityTypeOK
    <2>6. InvitationSound(i)'
        BY <1>1, <2>4, <2>5 DEF InvitationSound, IdentityInv
    <2>7. failed' \subseteq Calls /\ failed \subseteq failed' /\ refused' \subseteq Calls
          /\ idFaults' \in 0 .. MaxIdFaults
        BY <1>1 DEF IdentityInv, IdentityTypeOK
    <2> QED BY <1>1, <2>2, <2>4, <2>6, <2>7, OneCall
<1>3. CASE ~\E u \in users : EmailOf[u] = EmailOf[i]
    <2>1. pc' = [pc EXCEPT ![i] = "saveUser"] /\ invite' = invite
        BY <1>3 DEF FindInvitee, Goes
    <2>2. pc'[i] = "saveUser"
        BY <1>1, <2>1 DEF IdentityInv, IdentityTypeOK
    <2>3. InvitationSound(i)'
        BY <1>1, <2>1, <2>2 DEF InvitationSound, IdentityInv
    <2> QED BY <1>1, <2>1, <2>3, OnlyReads
<1> QED BY <1>2, <1>3

LEMMA FindMemberStep ==
    ASSUME IdentityInv, NEW i \in Invites, FindMember(i)
    PROVE  IdentityInv'
<1>1. PICK step \in {"done", "saveMembership"} : pc' = [pc EXCEPT ![i] = step]
    BY DEF FindMember, Goes
<1>2. /\ UNCHANGED <<users, organizations, memberships, invite, failed, refused, idFaults>>
      /\ pc[i] = "member" /\ i \in Calls /\ i \notin Registers /\ step \in Steps
    BY CallsAssumption DEF FindMember, Calls, Steps
<1>3. pc'[i] = step
    BY <1>1, <1>2 DEF IdentityInv, IdentityTypeOK
<1>4. InvitationSound(i)'
    BY <1>2, <1>3 DEF IdentityInv, InvitationSound
<1> QED BY <1>1, <1>2, <1>4, OnlyReads

LEMMA SaveMembershipStep ==
    ASSUME IdentityInv, NEW i \in Invites, SaveMembership(i)
    PROVE  IdentityInv'
<1>1. PICK x \in Invitation : x = invite[i]
    BY DEF IdentityInv, IdentityTypeOK
<1>2. /\ UNCHANGED <<users, organizations, invite, failed, idFaults>>
      /\ pc' = [pc EXCEPT ![i] = "done"] /\ pc[i] = "saveMembership"
      /\ i \in Calls /\ i \notin Registers /\ i \notin organizations
    BY CallsAssumption DEF SaveMembership, Calls, Goes, IdentityInv, IdentityTypeOK
<1>3. CASE MemberTaken(x.org, x.user)
    BY <1>1, <1>2, <1>3, RefusedStep DEF SaveMembership
<1>4. CASE ~MemberTaken(x.org, x.user)
    <2>1. memberships' = memberships \cup {x} /\ refused' = refused
        BY <1>1, <1>4 DEF SaveMembership
    <2>2. /\ x.org \in Registers /\ Ownership(x.org) \in memberships /\ x.user \in users
        BY <1>1, <1>2 DEF IdentityInv, InvitationSound
    <2>3. x \in Membership
        BY <2>2 DEF Invitation, Membership, IdentityInv, IdentityTypeOK
    <2>4. Ownership(x.org).org = x.org
        BY DEF Ownership
    <2>5. x.org \in organizations /\ pc[x.org] = "done"
        BY <2>2, <2>4 DEF IdentityInv, IdentityTypeOK, RegistrationSound
    <2>6. pc'[x.org] = "done" /\ Ownership(x.org) \in memberships'
        BY <1>2, <2>1, <2>2, <2>5
    <2>7. ~Member(x.org, x.user)
        BY <1>4 DEF MemberTaken
    <2> QED BY <1>2, <2>1, <2>2, <2>3, <2>5, <2>6, <2>7, MembershipSaved
<1> QED BY <1>3, <1>4

LEMMA IdentityStep == IdentityInv /\ [IdentityNext]_identityVars => IdentityInv'
<1> SUFFICES ASSUME IdentityInv, [IdentityNext]_identityVars PROVE IdentityInv'
    OBVIOUS
<1>1. CASE UNCHANGED identityVars
    BY <1>1 DEF identityVars, IdentityInv, IdentityTypeOK, RegistrationSound, InvitationSound,
       Ownership, OneAccountPerEmail, OneRolePerMember
<1>2. CASE \E r \in Registers :
              \/ FindSlug(r) \/ FindOwnerEmail(r)
              \/ SaveOwner(r) \/ SaveOrganization(r) \/ SaveOwnership(r)
    BY <1>2, FindSlugStep, FindOwnerEmailStep, SaveOwnerStep, SaveOrganizationStep,
       SaveOwnershipStep
<1>3. CASE \E i \in Invites :
              \/ BeginInvite(i) \/ FindInvitee(i) \/ SaveInvitee(i) \/ FindMember(i)
              \/ SaveMembership(i)
    BY <1>3, BeginInviteStep, FindInviteeStep, SaveInviteeStep, FindMemberStep,
       SaveMembershipStep
<1>4. CASE \E c \in Calls : CallFails(c)
    BY <1>4, CallFailsStep
<1> QED BY <1>1, <1>2, <1>3, <1>4 DEF IdentityNext

LEMMA IdentityAlways == IdentitySpec => []IdentityInv
BY IdentityInitially, IdentityStep, PTL DEF IdentitySpec

\* Types, one account per email and one role per member: the check before each insert
\* decides nothing, the unique index does.
THEOREM IdentityTypesCorrect == IdentitySpec => []IdentityTypeOK
<1>1. IdentityInv => IdentityTypeOK
    BY DEF IdentityInv
<1> QED BY <1>1, IdentityAlways, PTL

\* Whatever fails or races, an organization with members has its owner among them.
THEOREM OwnersFirst == IdentitySpec => []MembersHaveOwner
<1>1. ASSUME IdentityInv PROVE MembersHaveOwner
    BY <1>1 DEF IdentityInv, IdentityTypeOK, RegistrationSound, Ownership, MembersHaveOwner
<1> QED BY <1>1, IdentityAlways, PTL

\* An organization nobody can enter comes only of a failure in the middle of its
\* registration.
THEOREM EmptyOnlyByFailure == IdentitySpec => []EmptyOrganizationsFailed
<1>1. ASSUME IdentityInv, NEW o \in organizations, ~Working(o), \A m \in memberships : m.org # o
      PROVE  o \in failed
    <2>1. RegistrationSound(o) /\ pc[o] = "done"
        BY <1>1 DEF IdentityInv, IdentityTypeOK, Working
    <2>2. Ownership(o) \notin memberships
        BY <1>1 DEF Ownership
    <2> QED BY <1>1, <2>1, <2>2 DEF RegistrationSound
<1>2. IdentityInv => EmptyOrganizationsFailed
    BY <1>1 DEF EmptyOrganizationsFailed
<1> QED BY <1>2, IdentityAlways, PTL
=============================================================================
