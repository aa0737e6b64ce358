--------------------- MODULE ProviderFetchBillingProofs ---------------------
(***************************************************************************)
(* How often one request hash can be billed, and that the usage table      *)
(* claims, up to no day, more calls than were answered by then.  Both      *)
(* follow from counting the executions that still owe the table an entry.  *)
(***************************************************************************)
EXTENDS ProviderFetchProofs

Unpaid == {"fetch", "store", "bill"}
Answered == {"store", "bill"}

\* The executions that owe an entry for hash h, if they go on, ...
Owing(h) == {w \in Workers : slot[w].pc \in Unpaid /\ slot[w].hash = h}

\* ... and those whose call was answered.
AnsweredSlots == {w \in Workers : slot[w].pc \in Answered}

\* Nothing is charged for a hash before its payload is stored.
NothingBeforeStored == \A h \in Hash : ~Stored(h) => charges[h] = 0

\* Entries and the executions that may still write one, counted together.
RoomToCharge ==
    \A h \in Hash : charges[h] + Cardinality(Owing(h)) <= Cardinality(Workers)

\* No entry lies in the future: its day has come when it is written.  So up to a
\* day that has not passed, the answered executions that did not write their
\* entry yet fit in between the entries and the calls.
Pending(d) == IF day <= d THEN Cardinality(AnsweredSlots) ELSE 0
CallsCovered == \A d \in Days : ledger[d] + Pending(d) <= calls[d]

BInv == NothingBeforeStored /\ RoomToCharge /\ CallsCovered

-----------------------------------------------------------------------------

LEMMA WorkersCount ==
    ASSUME NEW S, S \subseteq Workers
    PROVE  /\ IsFiniteSet(S)
           /\ Cardinality(S) \in Nat
           /\ Cardinality(Workers) \in Nat
           /\ Cardinality(S) <= Cardinality(Workers)
<1>1. IsFiniteSet(Workers)
  BY FiniteAssumption
<1>2. QED
  BY <1>1, FS_Subset, FS_CardinalityType

\* The counts of BInv, before and after a step, as numbers.
LEMMA Numbers ==
    /\ AnsweredSlots \subseteq Workers
    /\ IsFiniteSet(AnsweredSlots) /\ Cardinality(AnsweredSlots) \in Nat
    /\ IsFiniteSet(AnsweredSlots') /\ Cardinality(AnsweredSlots') \in Nat
    /\ Cardinality(Workers) \in Nat
    /\ \A h : /\ IsFiniteSet(Owing(h)) /\ Cardinality(Owing(h)) \in Nat
              /\ IsFiniteSet(Owing(h)') /\ Cardinality(Owing(h)') \in Nat
              /\ Cardinality(Owing(h)') <= Cardinality(Workers)
<1>1. AnsweredSlots \subseteq Workers /\ AnsweredSlots' \subseteq Workers
  BY DEF AnsweredSlots
<1>2. \A h : Owing(h) \subseteq Workers /\ Owing(h)' \subseteq Workers
  BY DEF Owing
<1>3. QED
  BY <1>1, <1>2, WorkersCount

\* The tables of IInv, before and after a step, as numbers.
LEMMA TableNumbers ==
    ASSUME TypeOK, TypeOK'
    PROVE  /\ \A h \in Hash : charges[h] \in Nat /\ charges'[h] \in Nat
           /\ \A d \in Days : /\ ledger[d] \in Nat /\ ledger'[d] \in Nat
                              /\ calls[d] \in Nat /\ calls'[d] \in Nat
                              /\ d \in Nat
           /\ day \in Nat /\ day' \in Nat
<1>1. Days \subseteq Nat
  BY BoundAssumption DEF Days
<1>2. QED
  BY <1>1 DEF TypeOK

\* A step after which no execution owes an entry that did not owe it before,
\* and that writes none.
LEMMA QuietStep ==
    ASSUME IInv, IInv', BInv, UNCHANGED <<ledger, calls, charges>>, day <= day',
           payloads \subseteq payloads',
           \A w \in Workers, steps \in {Unpaid, Answered} :
               slot'[w].pc \in steps
               => slot[w].pc \in steps /\ slot'[w].hash = slot[w].hash
    PROVE  BInv'
<1>1. \A h \in Hash : Cardinality(Owing(h)') <= Cardinality(Owing(h))
  <2>1. \A h \in Hash : Owing(h)' \subseteq Owing(h)
    BY DEF Owing
  <2>2. QED
    BY <2>1, Numbers, FS_Subset
<1>2. Cardinality(AnsweredSlots') <= Cardinality(AnsweredSlots)
  <2>1. AnsweredSlots' \subseteq AnsweredSlots
    BY DEF AnsweredSlots
  <2>2. QED
    BY <2>1, Numbers, FS_Subset
<1>3. TypeOK /\ TypeOK'
  BY DEF IInv
<1>4. NothingBeforeStored'
  BY DEF BInv, NothingBeforeStored, Stored
<1>5. RoomToCharge'
  <2> SUFFICES ASSUME NEW h \in Hash
               PROVE  charges'[h] + Cardinality(Owing(h)') <= Cardinality(Workers)
    BY DEF RoomToCharge
  <2>1. charges[h] + Cardinality(Owing(h)) <= Cardinality(Workers)
    BY DEF BInv, RoomToCharge
  <2>2. QED
    BY <1>1, <1>3, <2>1, Numbers, TableNumbers
<1>6. CallsCovered'
  <2> SUFFICES ASSUME NEW d \in Days
               PROVE  ledger'[d] + Pending(d)' <= calls'[d]
    BY DEF CallsCovered
  <2>1. ledger[d] + Pending(d) <= calls[d]
    BY DEF BInv, CallsCovered
  <2>2. QED
    BY <1>2, <1>3, <2>1, Numbers, TableNumbers DEF Pending
<1>7. QED
  BY <1>4, <1>5, <1>6 DEF BInv

\* Only LookUp lets a new execution owe an entry, and only for a hash that is
\* not stored yet: nothing was charged for it.
LEMMA LookUpCounts ==
    ASSUME IInv, IInv', BInv, NEW w \in Workers, LookUp(w)
    PROVE  BInv'
<1> DEFINE g == RequestHash(slot[w])
<1>1. UNCHANGED <<payloads, ledger, calls, charges, day>>
  BY DEF LookUp, tables, history
<1>2. \A v \in Workers : v # w => slot'[v] = slot[v]
  BY DEF LookUp, IInv, TypeOK
<1>3. \/ slot'[w].pc = "replay"
      \/ ~Stored(g) /\ slot'[w].pc = "fetch" /\ slot'[w].hash = g
  <2>1. slot[w] \in Slot
    BY BusySlot DEF LookUp, IInv, SlotsSound
  <2>2. QED
    BY <2>1 DEF LookUp, Cached, Stored, IInv, TypeOK, Slot
<1>4. TypeOK /\ TypeOK'
  BY DEF IInv
<1>5. NothingBeforeStored'
  BY <1>1 DEF BInv, NothingBeforeStored, Stored
<1>6. CallsCovered'
  <2>1. AnsweredSlots' \subseteq AnsweredSlots
    BY <1>2, <1>3 DEF AnsweredSlots, Answered
  <2>2. Cardinality(AnsweredSlots') <= Cardinality(AnsweredSlots)
    BY <2>1, Numbers, FS_Subset
  <2>3. QED
    BY <1>1, <1>4, <2>2, Numbers, TableNumbers DEF BInv, CallsCovered, Pending
<1>7. ASSUME NEW h \in Hash
      PROVE  charges'[h] + Cardinality(Owing(h)') <= Cardinality(Workers)
  <2>1. CASE Stored(h)
    <3>1. Owing(h)' \subseteq Owing(h)
      BY <1>2, <1>3, <2>1 DEF Owing, Unpaid
    <3>2. Cardinality(Owing(h)') <= Cardinality(Owing(h))
      BY <3>1, Numbers, FS_Subset
    <3>3. charges[h] + Cardinality(Owing(h)) <= Cardinality(Workers)
      BY DEF BInv, RoomToCharge
    <3>4. QED
      BY <1>1, <1>4, <3>2, <3>3, Numbers, TableNumbers
  <2>2. CASE ~Stored(h)
    BY <1>1, <2>2, Numbers DEF BInv, NothingBeforeStored
  <2>3. QED
    BY <2>1, <2>2
<1>8. QED
  BY <1>5, <1>6, <1>7 DEF BInv, RoomToCharge

\* An answered call is counted before its entry can be written.
LEMMA FetchCounts ==
    ASSUME IInv, IInv', BInv, NEW w \in Workers, Fetch(w)
    PROVE  BInv'
<1>1. slot[w] \in Slot /\ slot[w].pc = "fetch" /\ day \in Days
  BY BusySlot DEF Fetch, IInv, SlotsSound, Sound, TypeOK
<1>2. UNCHANGED <<payloads, ledger, charges, day>>
  BY DEF Fetch, tables
<1>3. TypeOK /\ TypeOK'
  BY DEF IInv
<1>4. CASE \E error \in Errors : slot' = [slot EXCEPT ![w] = Fail(slot[w], error)]
           /\ UNCHANGED calls
  <2>1. slot'[w].pc = "saveDef" /\ \A v \in Workers : v # w => slot'[v] = slot[v]
    BY <1>1, <1>4, FailType DEF IInv, TypeOK
  <2>2. \A v \in Workers, steps \in {Unpaid, Answered} :
           slot'[v].pc \in steps
           => slot[v].pc \in steps /\ slot'[v].hash = slot[v].hash
    BY <2>1 DEF Unpaid, Answered
  <2>3. day <= day'
    BY <1>2, <1>3, TableNumbers
  <2>4. QED
    BY <1>2, <1>4, <2>2, <2>3, QuietStep
<1>5. CASE /\ slot' = [slot EXCEPT ![w].pc = "store"]
           /\ calls' = OneMore(calls, day)
  <2>1. /\ slot'[w].pc = "store" /\ slot'[w].hash = slot[w].hash
        /\ \A v \in Workers : v # w => slot'[v] = slot[v]
    BY <1>1, <1>5 DEF IInv, TypeOK, Slot
  <2>2. \A h \in Hash : Owing(h)' = Owing(h)
    BY <1>1, <2>1 DEF Owing, Unpaid
  <2>3. RoomToCharge' /\ NothingBeforeStored'
    BY <1>2, <2>2 DEF BInv, RoomToCharge, NothingBeforeStored, Stored
  <2>4. Cardinality(AnsweredSlots') = Cardinality(AnsweredSlots) + 1
    <3>1. AnsweredSlots' = AnsweredSlots \cup {w} /\ w \notin AnsweredSlots
      BY <1>1, <2>1 DEF AnsweredSlots, Answered
    <3>2. QED
      BY <3>1, Numbers, FS_AddElement
  <2>5. ASSUME NEW d \in Days
        PROVE  ledger'[d] + Pending(d)' <= calls'[d]
    <3>1. ledger[d] + Pending(d) <= calls[d]
      BY DEF BInv, CallsCovered
    <3>2. calls'[d] = IF day <= d THEN calls[d] + 1 ELSE calls[d]
      BY <1>5 DEF OneMore
    <3>3. QED
      BY <1>2, <1>3, <2>4, <3>1, <3>2, Numbers, TableNumbers DEF Pending
  <2>6. QED
    BY <2>3, <2>5 DEF BInv, CallsCovered
<1>6. QED
  BY <1>4, <1>5 DEF Fetch

\* Writing the entry settles what the execution owed.
LEMMA BillCounts ==
    ASSUME IInv, IInv', BInv, NEW w \in Workers, Bill(w)
    PROVE  BInv'
<1> DEFINE g == slot[w].hash
<1>1. /\ slot[w] \in Slot /\ slot[w].pc = "bill" /\ g \in Hash /\ Stored(g)
  BY BusySlot DEF Bill, IInv, SlotsSound, Sound, Stored
<1>2. /\ UNCHANGED <<payloads, calls, day>>
      /\ slot' = [slot EXCEPT ![w].pc = "ingest"]
      /\ ledger' = OneMore(ledger, day)
      /\ charges' = [charges EXCEPT ![g] = @ + 1]
  BY DEF Bill, OccurredAt
<1>3. /\ slot'[w].pc = "ingest"
      /\ \A v \in Workers : v # w => slot'[v] = slot[v]
  BY <1>1, <1>2 DEF IInv, TypeOK, Slot
<1>4. TypeOK /\ TypeOK'
  BY DEF IInv
<1>5. NothingBeforeStored'
  BY <1>1, <1>2 DEF BInv, NothingBeforeStored, Stored, IInv, TypeOK
<1>6. ASSUME NEW h \in Hash
      PROVE  charges'[h] + Cardinality(Owing(h)') <= Cardinality(Workers)
  <2>1. charges[h] + Cardinality(Owing(h)) <= Cardinality(Workers)
    BY DEF BInv, RoomToCharge
  <2>2. CASE h = g
    <3>1. Owing(h)' = Owing(h) \ {w} /\ w \in Owing(h)
      BY <1>1, <1>3, <2>2 DEF Owing, Unpaid
    <3>2. Cardinality(Owing(h)') = Cardinality(Owing(h)) - 1
      BY <3>1, Numbers, FS_RemoveElement
    <3>3. charges'[h] = charges[h] + 1
      BY <1>1, <1>2, <2>2 DEF IInv, TypeOK
    <3>4. QED
      BY <1>4, <2>1, <3>2, <3>3, Numbers, TableNumbers
  <2>3. CASE h # g
    <3>1. Owing(h)' = Owing(h)
      BY <1>1, <1>3, <2>3 DEF Owing, Unpaid
    <3>2. charges'[h] = charges[h]
      BY <1>1, <1>2, <2>3 DEF IInv, TypeOK
    <3>3. QED
      BY <2>1, <3>1, <3>2
  <2>4. QED
    BY <2>2, <2>3
<1>7. Cardinality(AnsweredSlots') = Cardinality(AnsweredSlots) - 1
  <2>1. AnsweredSlots' = AnsweredSlots \ {w} /\ w \in AnsweredSlots
    BY <1>1, <1>3 DEF AnsweredSlots, Answered
  <2>2. QED
    BY <2>1, Numbers, FS_RemoveElement
<1>8. ASSUME NEW d \in Days
      PROVE  ledger'[d] + Pending(d)' <= calls'[d]
  <2>1. ledger[d] + Pending(d) <= calls[d]
    BY DEF BInv, CallsCovered
  <2>2. ledger'[d] = IF day <= d THEN ledger[d] + 1 ELSE ledger[d]
    BY <1>2 DEF OneMore
  <2>3. QED
    BY <1>2, <1>4, <1>7, <2>1, <2>2, Numbers, TableNumbers DEF Pending
<1>9. QED
  BY <1>5, <1>6, <1>8 DEF BInv, RoomToCharge, CallsCovered

\* Every other step of an execution is quiet: it ends up owing nothing, or
\* goes on owing what it did.
LEMMA QuietSlot ==
    ASSUME IInv, IInv', BInv, NEW w \in Workers, NEW t, UNCHANGED <<ledger, calls, charges, day>>,
           payloads \subseteq payloads', slot' = [slot EXCEPT ![w] = t],
           \/ t.pc \notin Unpaid
           \/ t.pc = "bill" /\ slot[w].pc = "store" /\ t.hash = slot[w].hash
           \/ t.pc = slot[w].pc /\ t.hash = slot[w].hash
    PROVE  BInv'
<1>1. slot'[w] = t /\ \A v \in Workers : v # w => slot'[v] = slot[v]
  BY DEF IInv, TypeOK
<1>2. \A v \in Workers, steps \in {Unpaid, Answered} :
         slot'[v].pc \in steps => slot[v].pc \in steps /\ slot'[v].hash = slot[v].hash
  BY <1>1 DEF Unpaid, Answered
<1>3. day <= day'
  BY TableNumbers DEF IInv
<1>4. QED
  BY <1>2, <1>3, QuietStep

LEMMA HandleCounts ==
    ASSUME IInv, IInv', BInv, NEW w \in Workers, Handle(w)
    PROVE  BInv'
<1> DEFINE s == slot[w]
<1>1. s \in Slot /\ day \in Days
  BY BusySlot DEF Handle, StartRun, LookUp, Replay, Fetch, Store, Bill, Ingest,
                  SaveDef, SaveRun, IInv, SlotsSound, TypeOK
<1>2. CASE StartRun(w)
  <2> DEFINE run == [NoRun EXCEPT !.status = "running", !.def = s.job.def]
             t == [s EXCEPT !.pc = "lookup", !.run = run]
  <2>1. UNCHANGED <<ledger, calls, charges, day, payloads>>
    BY <1>2 DEF StartRun, history
  <2>2. slot' = [slot EXCEPT ![w] = Idle] \/ slot' = [slot EXCEPT ![w] = t]
    BY <1>2 DEF StartRun, IInv, TypeOK
  <2> HIDE DEF run
  <2>3. t.pc \notin Unpaid /\ Idle.pc \notin Unpaid
    BY <1>1, RowTypes DEF Unpaid, Slot
  <2> HIDE DEF t
  <2>4. QED
    BY <2>1, <2>2, <2>3, QuietSlot
<1>3. CASE Replay(w)
  <2>1. UNCHANGED <<ledger, calls, charges, day, payloads>>
    BY <1>3 DEF Replay, tables
  <2>2. PICK t \in {Complete(s, TRUE), Fail(s, "permanent")} :
           slot' = [slot EXCEPT ![w] = t]
    BY <1>3 DEF Replay
  <2>3. Complete(s, TRUE).pc = "saveDef" /\ Fail(s, "permanent").pc = "saveDef"
    BY <1>1, CompleteType, FailType DEF Errors
  <2>4. t.pc \notin Unpaid
    BY <2>3 DEF Unpaid
  <2>5. QED
    BY <2>1, <2>2, <2>4, QuietSlot
<1>4. CASE Ingest(w)
  <2>1. UNCHANGED <<ledger, calls, charges, day, payloads>>
    BY <1>4 DEF Ingest, tables
  <2>2. PICK t \in {Complete(s, FALSE)} \cup {Fail(s, error) : error \in Errors} :
           slot' = [slot EXCEPT ![w] = t]
    BY <1>4 DEF Ingest
  <2>3. /\ Complete(s, FALSE).pc = "saveDef"
        /\ \A error \in Errors : Fail(s, error).pc = "saveDef"
    BY <1>1, CompleteType, FailType
  <2>4. t.pc \notin Unpaid
    BY <2>3 DEF Unpaid
  <2>5. QED
    BY <2>1, <2>2, <2>4, QuietSlot
<1>5. CASE Store(w)
  <2>1. UNCHANGED <<ledger, calls, charges, day>> /\ payloads \subseteq payloads'
    BY <1>5 DEF Store, history
  <2>2. PICK p : slot' = [slot EXCEPT ![w] = [s EXCEPT !.pc = "bill", !.payload = p]]
    BY <1>5 DEF Store, IInv, TypeOK
  <2>3. s.pc = "store"
    BY <1>5 DEF Store
  <2> DEFINE t == [s EXCEPT !.pc = "bill", !.payload = p]
  <2>4. t.pc = "bill" /\ t.hash = s.hash
    BY <1>1 DEF Slot
  <2> HIDE DEF t
  <2>5. slot' = [slot EXCEPT ![w] = t]
    BY <2>2 DEF t
  <2>6. QED
    BY <2>1, <2>3, <2>4, <2>5, QuietSlot
<1>6. CASE SaveDef(w) \/ SaveRun(w)
  <2> DEFINE t == [s EXCEPT !.pc = "saveRun"]
  <2>1. UNCHANGED <<ledger, calls, charges, day, payloads>>
    BY <1>6 DEF SaveDef, SaveRun, history
  <2>2. slot' = [slot EXCEPT ![w] = Idle] \/ slot' = [slot EXCEPT ![w] = t]
    BY <1>6 DEF SaveDef, SaveRun, IInv, TypeOK
  <2>3. t.pc \notin Unpaid /\ Idle.pc \notin Unpaid
    BY <1>1, RowTypes DEF Unpaid, Slot
  <2> HIDE DEF t
  <2>4. QED
    BY <2>1, <2>2, <2>3, QuietSlot
<1>7. QED
  BY <1>2, <1>3, <1>4, <1>5, <1>6, LookUpCounts, FetchCounts, BillCounts DEF Handle

LEMMA LoadCounts ==
    ASSUME IInv, IInv', BInv, NEW w \in Workers, Load(w)
    PROVE  BInv'
<1>1. PICK j, r : slot' = [slot EXCEPT ![w] =
          [Idle EXCEPT !.pc = "start", !.job = j, !.id = r, !.def = definitions[j.def]]]
  BY DEF Load
<1> DEFINE t == [Idle EXCEPT !.pc = "start", !.job = j, !.id = r,
                             !.def = definitions[j.def]]
<1>2. t.pc \notin Unpaid
  BY DEF Unpaid, Idle
<1> HIDE DEF t
<1>3. slot' = [slot EXCEPT ![w] = t] /\ UNCHANGED <<ledger, calls, charges, day, payloads>>
  BY <1>1 DEF t, Load, tables, history
<1>4. QED
  BY <1>2, <1>3, QuietSlot

LEMMA FaultCounts ==
    ASSUME IInv, IInv', BInv, NEW w \in Workers,
           DatabaseFails(w) \/ Crash(w) \/ LockExpires(w)
    PROVE  BInv'
<1> DEFINE s == slot[w]
           t == [s EXCEPT !.job = [s.job EXCEPT !.attempt = 1]]
<1>1. s \in Slot /\ day \in Days
  BY BusySlot DEF DatabaseFails, Crash, LockExpires, IInv, SlotsSound, TypeOK
<1>2. UNCHANGED <<ledger, calls, charges, day, payloads>>
  BY DEF DatabaseFails, Crash, LockExpires, tables, history
<1>3. \/ slot' = [slot EXCEPT ![w] = Idle]
      \/ slot' = [slot EXCEPT ![w] = Fail(s, "transient")]
      \/ slot' = [slot EXCEPT ![w] = t]
  BY DEF DatabaseFails, Crash, LockExpires, IInv, TypeOK
<1>4. t.pc = s.pc /\ t.hash = s.hash
  BY <1>1 DEF Slot
<1> HIDE DEF t
<1>5. Fail(s, "transient").pc \notin Unpaid /\ Idle.pc \notin Unpaid
  BY <1>1, FailType, RowTypes DEF Errors, Unpaid
<1>6. QED
  BY <1>2, <1>3, <1>4, <1>5, QuietSlot

LEMMA BillingInductive == IInv /\ IInv' /\ BInv /\ [Next]_vars => BInv'
<1> SUFFICES ASSUME IInv, IInv', BInv, [Next]_vars PROVE BInv'
  OBVIOUS
<1>1. day \in Nat /\ day <= day
  BY TableNumbers DEF IInv
<1>2. ASSUME UNCHANGED <<ledger, calls, charges, payloads, slot>>, day <= day'
      PROVE  BInv'
  BY <1>2, QuietStep
<1>3. CASE NextDay \/ UNCHANGED vars
  BY <1>1, <1>2, <1>3 DEF NextDay, vars, tables, history
<1>4. ASSUME NEW d \in Defs, Trigger(d) PROVE BInv'
  BY <1>1, <1>2, <1>4 DEF Trigger, tables, history
<1>5. ASSUME NEW w \in Workers, Skip(w) \/ Load(w) \/ Handle(w) PROVE BInv'
  <2>1. CASE Skip(w)
    BY <1>1, <1>2, <2>1 DEF Skip, tables, history
  <2>2. QED
    BY <1>5, <2>1, LoadCounts, HandleCounts
<1>6. ASSUME NEW w \in Workers, DatabaseFails(w) \/ Crash(w) \/ LockExpires(w)
      PROVE  BInv'
  BY <1>6, FaultCounts
<1>7. ASSUME NEW o \in Operators,
             SavePatch(o) \/ \E d \in Defs : ReadForPatch(o, d) \/ Delete(o, d)
      PROVE  BInv'
  BY <1>1, <1>2, <1>7 DEF SavePatch, ReadForPatch, Delete, tables, history
<1>8. QED
  BY <1>3, <1>4, <1>5, <1>6, <1>7 DEF Next

LEMMA BillingInit == Init => BInv
<1> SUFFICES ASSUME Init PROVE BInv
  OBVIOUS
<1>1. /\ \A h \in Hash : charges[h] = 0
      /\ \A d \in Days : ledger[d] = 0 /\ calls[d] = 0
  BY DEF Init
<1>2. AnsweredSlots = {} /\ \A h : Owing(h) = {}
  BY RowTypes DEF Init, AnsweredSlots, Answered, Owing, Unpaid
<1>3. Cardinality(AnsweredSlots) = 0 /\ \A h : Cardinality(Owing(h)) = 0
  BY <1>2, FS_EmptySet
<1>4. QED
  BY <1>1, <1>3, Numbers
     DEF BInv, NothingBeforeStored, RoomToCharge, CallsCovered, Pending

-----------------------------------------------------------------------------
THEOREM BillingInvariance == Spec => []BInv
BY BillingInit, BillingInductive, Invariance, PTL DEF Spec

\* One request of one day is billed at most once per concurrency slot of the
\* queue: executions can all miss the cache before the first of them stores
\* its payload, and none does afterwards.
THEOREM BilledPerSlot == Spec => []BilledAtMostOncePerSlot
<1>1. IInv /\ BInv => BilledAtMostOncePerSlot
  <2> SUFFICES ASSUME IInv, BInv, NEW h \in Hash
               PROVE  charges[h] <= Cardinality(Workers)
    BY DEF BilledAtMostOncePerSlot
  <2>1. charges[h] \in Nat /\ charges[h] + Cardinality(Owing(h)) <= Cardinality(Workers)
    BY DEF IInv, TypeOK, BInv, RoomToCharge
  <2>2. QED
    BY <2>1, Numbers
<1>2. QED
  BY <1>1, Invariance, BillingInvariance, PTL

\* The usage table never claims a call the provider did not answer: up to any day
\* there are no more entries than calls answered by then.  An entry is never of
\* an earlier day than its call, so midnight can only move it to a later one.
THEOREM LedgerCovered == Spec => []LedgerWithinCalls
<1>1. IInv /\ BInv => LedgerWithinCalls
  <2> SUFFICES ASSUME IInv, BInv, NEW d \in Days
               PROVE  ledger[d] <= calls[d]
    BY DEF LedgerWithinCalls
  <2>1. /\ ledger[d] \in Nat /\ calls[d] \in Nat
        /\ ledger[d] + Pending(d) <= calls[d]
    BY DEF IInv, TypeOK, BInv, CallsCovered
  <2>2. QED
    BY <2>1, Numbers DEF Pending
<1>2. QED
  BY <1>1, Invariance, BillingInvariance, PTL

\* The limit of what the double_charge run shows ("duplicate ticks do not
\* double-charge"): with one slot, a request is billed once a day, whatever fails
\* or is redelivered.
THEOREM OneSlotChargesOnce ==
    ASSUME Cardinality(Workers) = 1
    PROVE  Spec => []NoDoubleCharge
<1>1. BilledAtMostOncePerSlot => NoDoubleCharge
  BY DEF BilledAtMostOncePerSlot, NoDoubleCharge
<1>2. QED
  BY <1>1, BilledPerSlot, PTL
=============================================================================
