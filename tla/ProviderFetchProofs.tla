------------------------ MODULE ProviderFetchProofs ------------------------
(***************************************************************************)
(* Proofs about ProviderFetch, for every number of definitions, requests,  *)
(* slots, runs, operators, days and faults; then, what holds of a          *)
(* behaviour as long as nothing fails, the contract of the tables with it, *)
(* and that no running row is left behind.                                 *)
(***************************************************************************)
EXTENDS ProviderFetch, FiniteSetTheorems, TLAPS

\* What an execution may rely on, given the payloads P in the table, the runs B
\* that were billed and the runs G that fed the read model.  All three only
\* grow, so an execution keeps it while the others move.
Sound(s, P, B, G) ==
    /\ s \in Slot \cup {Idle}
    /\ s.pc \in {"replay", "fetch", "store", "bill", "ingest"} => s.hash \in Hash
    /\ s.pc \in {"replay", "bill", "ingest"} \/ s.run.status = "succeeded"
       => s.payload \in P /\ s.payload.hash = s.hash
    /\ s.pc \notin {"saveDef", "saveRun"} => s.run.status # "succeeded"
    /\ s.pc = "ingest" => s.id \in B
    /\ s.run.status = "succeeded" /\ ~s.run.cacheHit => s.id \in B /\ s.id \in G

SlotsSound == \A w \in Workers : Sound(slot[w], payloads, billed, ingested)

RunsSound == \A r \in RunIds : FreshSuccess(r) => r \in billed /\ r \in ingested

IInv == TypeOK /\ SlotsSound /\ RunsSound

-----------------------------------------------------------------------------
LEMMA RowTypes ==
    /\ NoRun \in RunRow
    /\ NoRun.status = "absent"
    /\ Idle.pc = "idle"
    /\ \A s \in Slot : s.pc # "idle"
BY DEF NoRun, Idle, RunRow, Slot, Statuses, PC

LEMMA IdleSound == \A P, B, G : Sound(Idle, P, B, G)
BY DEF Sound, Idle, NoRun

LEMMA BusySlot ==
    ASSUME NEW P, NEW B, NEW G, NEW s, Sound(s, P, B, G), s.pc # "idle"
    PROVE  s \in Slot
BY RowTypes DEF Sound

\* markRan and run.complete.
LEMMA CompleteType ==
    ASSUME NEW s \in Slot, NEW hit \in BOOLEAN, day \in Days
    PROVE  /\ Complete(s, hit) \in Slot
           /\ Complete(s, hit).pc = "saveDef"
           /\ Complete(s, hit).id = s.id
           /\ Complete(s, hit).hash = s.hash
           /\ Complete(s, hit).payload = s.payload
           /\ Complete(s, hit).run.cacheHit = hit
<1> DEFINE run == [s.run EXCEPT !.status = "succeeded", !.payload = s.payload,
                                !.cacheHit = hit]
           def == [s.def EXCEPT !.lastRunAt = day]
<1>1. run \in RunRow /\ run.cacheHit = hit
  BY DEF Slot, RunRow, Statuses
<1>2. def \in DefRow
  BY BoundAssumption DEF Slot, DefRow, Days
<1>3. Complete(s, hit) = [s EXCEPT !.pc = "saveDef", !.run = run, !.def = def]
  BY DEF Complete
<1> HIDE DEF run, def
<1>4. QED
  BY <1>1, <1>2, <1>3 DEF Slot, PC

\* markRan, run.fail and, for a permanent failure, disable.
LEMMA FailType ==
    ASSUME NEW s \in Slot, NEW error \in Errors, day \in Days
    PROVE  /\ Fail(s, error) \in Slot
           /\ Fail(s, error).pc = "saveDef"
           /\ Fail(s, error).hash = s.hash
           /\ Fail(s, error).run.status = "failed"
<1> DEFINE run == [s.run EXCEPT !.status = "failed", !.error = error]
           on == s.def.enabled /\ error = "transient"
           def == [s.def EXCEPT !.lastRunAt = day, !.enabled = on]
<1>1. run \in RunRow /\ run.status = "failed"
  BY DEF Slot, RunRow, Statuses
<1>2. on \in BOOLEAN
  OBVIOUS
<1>3. Fail(s, error) = [s EXCEPT !.pc = "saveDef", !.run = run, !.def = def]
  BY DEF Fail
<1> HIDE DEF run, on
<1>4. def \in DefRow
  <2>1. \A row \in DefRow, t \in 0 .. MaxDay, b \in BOOLEAN :
           [row EXCEPT !.lastRunAt = t, !.enabled = b] \in DefRow
    BY DEF DefRow
  <2>2. s.def \in DefRow /\ day \in 0 .. MaxDay
    BY BoundAssumption DEF Slot, Days
  <2>3. QED
    BY <1>2, <2>1, <2>2
<1> HIDE DEF def
<1>5. QED
  BY <1>1, <1>3, <1>4 DEF Slot, PC

LEMMA FailSound ==
    ASSUME NEW s \in Slot, NEW error \in Errors, day \in Days, NEW P, NEW B, NEW G
    PROVE  Sound(Fail(s, error), P, B, G)
BY FailType DEF Sound

LEMMA CompleteSound ==
    ASSUME NEW s \in Slot, NEW hit \in BOOLEAN, day \in Days, NEW P, NEW B, NEW G,
           s.payload \in P, s.payload.hash = s.hash,
           hit = FALSE => s.id \in B /\ s.id \in G
    PROVE  Sound(Complete(s, hit), P, B, G)
BY CompleteType DEF Sound

\* One execution moves, the others keep what they rely on.
LEMMA SlotStep ==
    ASSUME TypeOK, SlotsSound, NEW w \in Workers, NEW t,
           payloads \subseteq payloads', billed \subseteq billed',
           ingested \subseteq ingested',
           slot' = [slot EXCEPT ![w] = t],
           Sound(t, payloads', billed', ingested')
    PROVE  slot' \in [Workers -> Slot \cup {Idle}] /\ SlotsSound'
<1>1. \A v \in Workers : Sound(slot'[v], payloads', billed', ingested')
  <2> SUFFICES ASSUME NEW v \in Workers
               PROVE  Sound(slot'[v], payloads', billed', ingested')
    OBVIOUS
  <2>1. CASE v = w
    BY <2>1 DEF TypeOK
  <2>2. CASE v # w
    BY <2>2 DEF TypeOK, SlotsSound, Sound
  <2>3. QED
    BY <2>1, <2>2
<1>2. QED
  BY <1>1 DEF SlotsSound, Sound, TypeOK

-----------------------------------------------------------------------------
\* The invariant is kept by every step, one lemma per group of actions.

\* What a step of the execution in slot w must show.
LEMMA HandleStep ==
    ASSUME IInv, NEW w \in Workers, NEW t,
           slot' = [slot EXCEPT ![w] = t],
           Sound(t, payloads', billed', ingested'),
           payloads \subseteq payloads', billed \subseteq billed',
           ingested \subseteq ingested', UNCHANGED runs
    PROVE  /\ slot' \in [Workers -> Slot \cup {Idle}]
           /\ SlotsSound'
           /\ RunsSound'
<1>1. slot' \in [Workers -> Slot \cup {Idle}] /\ SlotsSound'
  BY SlotStep DEF IInv
<1>2. RunsSound'
  BY DEF IInv, RunsSound, FreshSuccess
<1>3. QED
  BY <1>1, <1>2

LEMMA InitSound == Init => IInv
<1> SUFFICES ASSUME Init PROVE IInv
  OBVIOUS
<1>1. TypeOK
  BY RowTypes, BoundAssumption DEF Init, TypeOK, DefRow, Days
<1>2. SlotsSound
  BY IdleSound DEF Init, SlotsSound
<1>3. RunsSound
  BY RowTypes DEF Init, RunsSound, FreshSuccess
<1>4. QED
  BY <1>1, <1>2, <1>3 DEF IInv

LEMMA QueueSteps ==
    ASSUME IInv, \/ NextDay
                 \/ \E d \in Defs : Trigger(d)
                 \/ \E w \in Workers : Skip(w)
    PROVE  IInv'
<1>1. UNCHANGED <<tables, slot, patch, faults, history>>
  BY DEF NextDay, Trigger, Skip
<1>2. day' \in Days
  BY BoundAssumption DEF NextDay, Trigger, Skip, IInv, TypeOK, Days
<1>3. queue' \subseteq Job
  BY DEF NextDay, Trigger, Skip, IInv, TypeOK, Job
<1>4. issued' \subseteq RunIds
  BY DEF NextDay, Trigger, Skip, IInv, TypeOK
<1>5. TypeOK'
  BY <1>1, <1>2, <1>3, <1>4 DEF IInv, TypeOK, tables, history
<1>6. SlotsSound' /\ RunsSound'
  BY <1>1 DEF IInv, SlotsSound, RunsSound, FreshSuccess, tables, history
<1>7. QED
  BY <1>5, <1>6 DEF IInv

LEMMA LoadStep ==
    ASSUME IInv, NEW w \in Workers, Load(w)
    PROVE  IInv'
<1>1. PICK j \in queue \cup Ticks, r \in RunIds :
        /\ Runnable(j.def)
        /\ issued' = issued \cup {r}
        /\ slot' = [slot EXCEPT ![w] =
              [Idle EXCEPT !.pc = "start", !.job = j, !.id = r,
                           !.def = definitions[j.def]]]
        /\ queue' = queue \ {j}
  <2>1. \A j \in queue \cup Ticks : j \in Job
    BY DEF IInv, TypeOK, Ticks, Job
  <2>2. \A j \in queue \cup Ticks :
           (IF j.run = None THEN RunIds \ issued ELSE {j.run}) \subseteq RunIds
    BY <2>1 DEF Job
  <2>3. QED
    BY <2>2 DEF Load
<1> DEFINE t == [Idle EXCEPT !.pc = "start", !.job = j, !.id = r,
                             !.def = definitions[j.def]]
<1>2. j \in Job /\ definitions[j.def] \in DefRow
  <2>1. j \in Job
    BY DEF IInv, TypeOK, Ticks, Job
  <2>2. QED
    BY <1>1, <2>1 DEF IInv, TypeOK, Runnable, Job
<1>3. Sound(t, payloads, billed, ingested)
  BY <1>2, RowTypes DEF Sound, Slot, Idle, PC
<1> HIDE DEF t
<1>4. UNCHANGED <<tables, patch, day, faults, history>>
  BY DEF Load
<1>5. slot' \in [Workers -> Slot \cup {Idle}] /\ SlotsSound' /\ RunsSound'
  BY <1>1, <1>3, <1>4, HandleStep DEF t, tables, history
<1>6. TypeOK'
  BY <1>1, <1>4, <1>5 DEF IInv, TypeOK, tables, history
<1>7. QED
  BY <1>5, <1>6 DEF IInv

LEMMA StartRunStep ==
    ASSUME IInv, NEW w \in Workers, StartRun(w)
    PROVE  IInv'
<1> DEFINE d == slot[w].job.def
           started == [NoRun EXCEPT !.status = "running", !.def = d]
           t == [slot[w] EXCEPT !.pc = "lookup", !.run = started]
<1>1. slot[w] \in Slot /\ slot[w].pc = "start"
  BY BusySlot DEF StartRun, IInv, SlotsSound
<1>2. started \in RunRow /\ started.status = "running"
  BY <1>1 DEF Slot, Job, RunRow, NoRun, Statuses
<1>3. UNCHANGED <<definitions, payloads, ledger, queue, patch, day, issued,
                  faults, history>>
  BY DEF StartRun
<1>4. CASE slot' = [slot EXCEPT ![w] = Idle] /\ UNCHANGED runs
  <2>1. slot' \in [Workers -> Slot \cup {Idle}] /\ SlotsSound' /\ RunsSound'
    BY <1>3, <1>4, IdleSound, HandleStep DEF history
  <2>2. TypeOK'
    BY <1>3, <1>4, <2>1 DEF IInv, TypeOK, history
  <2>3. QED
    BY <2>1, <2>2 DEF IInv
<1>5. CASE /\ runs' = [runs EXCEPT ![slot[w].id] = started]
           /\ slot' = [slot EXCEPT ![w] = t]
  <2> HIDE DEF started
  <2>1. Sound(t, payloads', billed', ingested')
    BY <1>1, <1>2 DEF Sound, Slot, PC
  <2> HIDE DEF t
  <2>2. slot' \in [Workers -> Slot \cup {Idle}] /\ SlotsSound'
    BY <1>3, <1>5, <2>1, SlotStep DEF IInv, history
  <2>3. runs' \in [RunIds -> RunRow]
    BY <1>1, <1>2, <1>5 DEF IInv, TypeOK
  <2>4. RunsSound'
    BY <1>1, <1>2, <1>3, <1>5 DEF IInv, TypeOK, RunsSound, FreshSuccess, history
  <2>5. TypeOK'
    BY <1>3, <2>2, <2>3 DEF IInv, TypeOK, history
  <2>6. QED
    BY <2>2, <2>4, <2>5 DEF IInv
<1>6. QED
  BY <1>4, <1>5 DEF StartRun

LEMMA LookUpStep ==
    ASSUME IInv, NEW w \in Workers, LookUp(w)
    PROVE  IInv'
<1> DEFINE h == RequestHash(slot[w])
<1>1. slot[w] \in Slot /\ slot[w].pc = "lookup" /\ slot[w].run.status # "succeeded"
  BY BusySlot DEF LookUp, IInv, SlotsSound, Sound
<1>2. h \in Hash
  BY <1>1 DEF RequestHash, Hash, Slot, DefRow, IInv, TypeOK
<1>3. UNCHANGED <<tables, queue, patch, day, issued, faults, history>>
  BY DEF LookUp
<1>4. ASSUME NEW t, slot' = [slot EXCEPT ![w] = t], Sound(t, payloads, billed, ingested)
      PROVE  IInv'
  <2>1. slot' \in [Workers -> Slot \cup {Idle}] /\ SlotsSound' /\ RunsSound'
    BY <1>3, <1>4, HandleStep DEF tables, history
  <2>2. TypeOK'
    BY <1>3, <2>1 DEF IInv, TypeOK, tables, history
  <2>3. QED
    BY <2>1, <2>2 DEF IInv
<1>5. CASE slot' = [slot EXCEPT ![w].pc = "fetch", ![w].hash = h]
  <2> DEFINE t == [slot[w] EXCEPT !.pc = "fetch", !.hash = h]
  <2> HIDE DEF h
  <2>1. Sound(t, payloads, billed, ingested)
    BY <1>1, <1>2 DEF Sound, Slot, PC
  <2>2. slot' = [slot EXCEPT ![w] = t]
    BY <1>5 DEF IInv, TypeOK
  <2>3. QED
    BY <1>4, <2>1, <2>2
<1>6. CASE \E p \in Cached(h) :
              slot' = [slot EXCEPT ![w].pc = "replay", ![w].hash = h,
                                   ![w].payload = p]
  <2>1. PICK p \in Cached(h) :
              slot' = [slot EXCEPT ![w].pc = "replay", ![w].hash = h,
                                   ![w].payload = p]
    BY <1>6
  <2> DEFINE t == [slot[w] EXCEPT !.pc = "replay", !.hash = h, !.payload = p]
  <2> HIDE DEF h
  <2>2. p \in payloads /\ p \in PayloadId /\ p.hash = h
    BY DEF Cached, IInv, TypeOK
  <2>3. Sound(t, payloads, billed, ingested)
    BY <1>1, <1>2, <2>2 DEF Sound, Slot, PC
  <2>4. slot' = [slot EXCEPT ![w] = t]
    BY <2>1 DEF IInv, TypeOK
  <2>5. QED
    BY <1>4, <2>3, <2>4
<1>7. QED
  BY <1>5, <1>6 DEF LookUp

LEMMA ReplayStep ==
    ASSUME IInv, NEW w \in Workers, Replay(w)
    PROVE  IInv'
<1> DEFINE s == slot[w]
<1>1. /\ s \in Slot /\ s.pc = "replay" /\ day \in Days
      /\ s.payload \in payloads /\ s.payload.hash = s.hash
  BY BusySlot DEF Replay, IInv, SlotsSound, Sound, TypeOK
<1>2. ingested \subseteq ingested' /\ ingested' \subseteq RunIds
  BY <1>1 DEF Replay, IInv, TypeOK, Slot
<1>3. UNCHANGED <<tables, queue, patch, day, issued, faults, calls, charges,
                  billed>>
  BY DEF Replay
<1>4. PICK t \in {Complete(s, TRUE), Fail(s, "permanent")} :
        slot' = [slot EXCEPT ![w] = t]
  BY DEF Replay
<1>5. Sound(t, payloads', billed', ingested')
  <2>1. Sound(Complete(s, TRUE), payloads', billed', ingested')
    BY <1>1, <1>3, CompleteSound DEF tables
  <2>2. Sound(Fail(s, "permanent"), payloads', billed', ingested')
    BY <1>1, FailSound DEF Errors
  <2>3. QED
    BY <2>1, <2>2
<1>6. slot' \in [Workers -> Slot \cup {Idle}] /\ SlotsSound' /\ RunsSound'
  BY <1>2, <1>3, <1>4, <1>5, HandleStep DEF tables
<1>7. TypeOK'
  BY <1>2, <1>3, <1>6 DEF IInv, TypeOK, tables
<1>8. QED
  BY <1>6, <1>7 DEF IInv

\* A table that counts by day goes on doing so.
LEMMA CountsType ==
    ASSUME NEW table \in [Days -> Nat], NEW d \in Days
    PROVE  OneMore(table, d) \in [Days -> Nat]
BY DEF OneMore, Days

LEMMA FetchStep ==
    ASSUME IInv, NEW w \in Workers, Fetch(w)
    PROVE  IInv'
<1> DEFINE s == slot[w]
<1>1. /\ s \in Slot /\ s.pc = "fetch" /\ day \in Days
      /\ s.hash \in Hash /\ s.run.status # "succeeded"
  BY BusySlot DEF Fetch, IInv, SlotsSound, Sound, TypeOK
<1>2. UNCHANGED <<tables, queue, patch, day, issued, faults, charges, billed,
                  ingested>>
  BY DEF Fetch
<1>3. calls' \in [Days -> Nat]
  BY CountsType DEF Fetch, IInv, TypeOK
<1>4. ASSUME NEW t, slot' = [slot EXCEPT ![w] = t], Sound(t, payloads, billed, ingested)
      PROVE  IInv'
  <2>1. slot' \in [Workers -> Slot \cup {Idle}] /\ SlotsSound' /\ RunsSound'
    BY <1>2, <1>4, HandleStep DEF tables
  <2>2. TypeOK'
    BY <1>2, <1>3, <2>1 DEF IInv, TypeOK, tables
  <2>3. QED
    BY <2>1, <2>2 DEF IInv
<1>5. CASE slot' = [slot EXCEPT ![w].pc = "store"]
  <2>1. Sound([s EXCEPT !.pc = "store"], payloads, billed, ingested)
    BY <1>1 DEF Sound, Slot, PC
  <2>2. QED
    BY <1>4, <1>5, <2>1
<1>6. CASE \E error \in Errors : slot' = [slot EXCEPT ![w] = Fail(s, error)]
  BY <1>1, <1>4, <1>6, FailSound
<1>7. QED
  BY <1>5, <1>6 DEF Fetch

LEMMA StoreStep ==
    ASSUME IInv, NEW w \in Workers, Store(w)
    PROVE  IInv'
<1> DEFINE s == slot[w]
           h == s.hash
           candidate == [by |-> w, hash |-> h]
           rows == IF Stored(h) THEN payloads ELSE payloads \cup {candidate}
           p == ReturnedId(candidate, rows)
           t == [s EXCEPT !.pc = "bill", !.payload = p]
<1>1. /\ s \in Slot /\ s.pc = "store" /\ h \in Hash /\ s.run.status # "succeeded"
  BY BusySlot DEF Store, IInv, SlotsSound, Sound
<1>2. payloads' = rows /\ slot' = [slot EXCEPT ![w] = t]
  BY DEF Store, IInv, TypeOK
<1>3. UNCHANGED <<definitions, runs, ledger, queue, patch, day, issued, faults,
                  history>>
  BY DEF Store
<1>4. payloads \subseteq rows /\ rows \subseteq PayloadId
  BY <1>1 DEF IInv, TypeOK, PayloadId
<1>5. p \in rows /\ p.hash = h
  <2>1. \E q \in rows : q.hash = candidate.hash
    BY DEF Stored
  <2> HIDE DEF rows
  <2>2. QED
    BY <2>1 DEF ReturnedId
<1> HIDE DEF rows, p
<1>6. Sound(t, payloads', billed', ingested')
  BY <1>1, <1>2, <1>4, <1>5 DEF Sound, Slot, PC
<1> HIDE DEF t
<1>7. slot' \in [Workers -> Slot \cup {Idle}] /\ SlotsSound' /\ RunsSound'
  BY <1>2, <1>3, <1>4, <1>6, HandleStep DEF history
<1>8. TypeOK'
  BY <1>2, <1>3, <1>4, <1>7 DEF IInv, TypeOK, history
<1>9. QED
  BY <1>7, <1>8 DEF IInv

LEMMA BillStep ==
    ASSUME IInv, NEW w \in Workers, Bill(w)
    PROVE  IInv'
<1> DEFINE s == slot[w]
           t == [s EXCEPT !.pc = "ingest"]
<1>1. /\ s \in Slot /\ s.pc = "bill" /\ s.hash \in Hash
      /\ s.run.status # "succeeded"
      /\ s.payload \in payloads /\ s.payload.hash = s.hash
  BY BusySlot DEF Bill, IInv, SlotsSound, Sound
<1>2. /\ billed' = billed \cup {s.id}
      /\ slot' = [slot EXCEPT ![w] = t]
      /\ UNCHANGED <<definitions, runs, payloads, queue, patch, day, issued,
                     faults, calls, ingested>>
  BY DEF Bill, IInv, TypeOK
<1>3. ledger' \in [Days -> Nat] /\ charges' \in [Hash -> Nat]
  BY <1>1, CountsType DEF Bill, OccurredAt, IInv, TypeOK
<1>4. Sound(t, payloads', billed', ingested')
  BY <1>1, <1>2 DEF Sound, Slot, PC
<1> HIDE DEF t
<1>5. slot' \in [Workers -> Slot \cup {Idle}] /\ SlotsSound' /\ RunsSound'
  BY <1>2, <1>4, HandleStep
<1>6. billed' \subseteq RunIds
  BY <1>1, <1>2 DEF IInv, TypeOK, Slot
<1>7. TypeOK'
  BY <1>2, <1>3, <1>5, <1>6 DEF IInv, TypeOK
<1>8. QED
  BY <1>5, <1>7 DEF IInv

LEMMA IngestStep ==
    ASSUME IInv, NEW w \in Workers, Ingest(w)
    PROVE  IInv'
<1> DEFINE s == slot[w]
<1>1. /\ s \in Slot /\ s.pc = "ingest" /\ day \in Days /\ s.id \in billed
      /\ s.payload \in payloads /\ s.payload.hash = s.hash
  BY BusySlot DEF Ingest, IInv, SlotsSound, Sound, TypeOK
<1>2. ingested \subseteq ingested' /\ ingested' \subseteq RunIds
  BY <1>1 DEF Ingest, IInv, TypeOK, Slot
<1>3. UNCHANGED <<tables, queue, patch, day, issued, faults, calls, charges,
                  billed>>
  BY DEF Ingest
<1>4. ASSUME NEW t, slot' = [slot EXCEPT ![w] = t],
             Sound(t, payloads', billed', ingested')
      PROVE  IInv'
  <2>1. slot' \in [Workers -> Slot \cup {Idle}] /\ SlotsSound' /\ RunsSound'
    BY <1>2, <1>3, <1>4, HandleStep DEF tables
  <2>2. TypeOK'
    BY <1>2, <1>3, <2>1 DEF IInv, TypeOK, tables
  <2>3. QED
    BY <2>1, <2>2 DEF IInv
<1>5. CASE /\ slot' = [slot EXCEPT ![w] = Complete(s, FALSE)]
           /\ ingested' = ingested \cup {s.id}
  BY <1>1, <1>3, <1>4, <1>5, CompleteSound DEF tables
<1>6. CASE \E error \in Errors : slot' = [slot EXCEPT ![w] = Fail(s, error)]
  BY <1>1, <1>4, <1>6, FailSound
<1>7. QED
  BY <1>5, <1>6 DEF Ingest

LEMMA SaveDefStep ==
    ASSUME IInv, NEW w \in Workers, SaveDef(w)
    PROVE  IInv'
<1> DEFINE s == slot[w]
           t == [s EXCEPT !.pc = "saveRun"]
<1>1. s \in Slot /\ s.pc = "saveDef"
  BY BusySlot DEF SaveDef, IInv, SlotsSound
<1>2. /\ slot' = [slot EXCEPT ![w] = t]
      /\ UNCHANGED <<runs, payloads, ledger, queue, patch, day, issued, faults,
                     history>>
  BY DEF SaveDef, IInv, TypeOK
<1>3. definitions' \in [Defs -> DefRow \cup {None}]
  BY <1>1 DEF SaveDef, IInv, TypeOK, Slot
<1>4. Sound(t, payloads', billed', ingested')
  BY <1>1, <1>2 DEF IInv, SlotsSound, Sound, Slot, PC, history
<1> HIDE DEF t
<1>5. slot' \in [Workers -> Slot \cup {Idle}] /\ SlotsSound' /\ RunsSound'
  BY <1>2, <1>4, HandleStep DEF history
<1>6. TypeOK'
  BY <1>2, <1>3, <1>5 DEF IInv, TypeOK, history
<1>7. QED
  BY <1>5, <1>6 DEF IInv

LEMMA SaveRunStep ==
    ASSUME IInv, NEW w \in Workers, SaveRun(w)
    PROVE  IInv'
<1> DEFINE s == slot[w]
<1>1. /\ s \in Slot /\ s.pc = "saveRun"
      /\ Sound(s, payloads, billed, ingested)
  BY BusySlot DEF SaveRun, IInv, SlotsSound
<1>2. UNCHANGED <<definitions, payloads, ledger, queue, patch, day, issued,
                  faults, history>> /\ slot' = [slot EXCEPT ![w] = Idle]
  BY DEF SaveRun
<1>3. \/ runs' = [runs EXCEPT ![s.id] = s.run]
      \/ UNCHANGED runs
  BY DEF SaveRun
<1>4. slot' \in [Workers -> Slot \cup {Idle}] /\ SlotsSound'
  BY <1>2, IdleSound, SlotStep DEF IInv, history
<1>5. runs' \in [RunIds -> RunRow]
  BY <1>1, <1>3 DEF IInv, TypeOK, Slot
<1>6. RunsSound'
  BY <1>1, <1>2, <1>3 DEF IInv, TypeOK, RunsSound, FreshSuccess, Sound, history
<1>7. TypeOK'
  BY <1>2, <1>4, <1>5 DEF IInv, TypeOK, history
<1>8. QED
  BY <1>4, <1>6, <1>7 DEF IInv

LEMMA OperatorSteps ==
    ASSUME IInv, NEW o \in Operators,
           SavePatch(o) \/ \E d \in Defs : ReadForPatch(o, d) \/ Delete(o, d)
    PROVE  IInv'
<1>1. UNCHANGED <<payloads, ledger, queue, slot, day, issued, faults, history>>
  BY DEF SavePatch, ReadForPatch, Delete, tables
<1>2. SlotsSound'
  BY <1>1 DEF IInv, SlotsSound, history
<1>3. CASE SavePatch(o)
  <2>1. /\ definitions' \in [Defs -> DefRow \cup {None}]
        /\ patch' \in [Operators -> Patch \cup {None}]
        /\ UNCHANGED runs
    BY <1>3 DEF SavePatch, IInv, TypeOK, Patch
  <2>2. QED
    BY <1>1, <1>2, <2>1 DEF IInv, TypeOK, RunsSound, FreshSuccess, history
<1>4. ASSUME NEW d \in Defs, ReadForPatch(o, d)
      PROVE  IInv'
  <2>1. PICK e \in BOOLEAN, q \in Requests :
          patch' = [patch EXCEPT ![o] =
              [def |-> d,
               row |-> [definitions[d] EXCEPT !.enabled = e, !.request = q]]]
    BY <1>4 DEF ReadForPatch
  <2>2. [definitions[d] EXCEPT !.enabled = e, !.request = q] \in DefRow
    <3>1. \A row \in DefRow, b \in BOOLEAN, x \in Requests :
             [row EXCEPT !.enabled = b, !.request = x] \in DefRow
      BY DEF DefRow
    <3>2. definitions[d] \in DefRow
      BY <1>4 DEF ReadForPatch, IInv, TypeOK
    <3>3. QED
      BY <3>1, <3>2
  <2>3. patch' \in [Operators -> Patch \cup {None}] /\ UNCHANGED tables
    <3> DEFINE row == [definitions[d] EXCEPT !.enabled = e, !.request = q]
    <3>1. [def |-> d, row |-> row] \in Patch
      BY <2>2 DEF Patch
    <3> HIDE DEF row
    <3>2. QED
      BY <1>4, <2>1, <3>1 DEF row, ReadForPatch, IInv, TypeOK
  <2>4. QED
    BY <1>1, <1>2, <2>3 DEF IInv, TypeOK, RunsSound, FreshSuccess, tables, history
<1>5. ASSUME NEW d \in Defs, Delete(o, d)
      PROVE  IInv'
  <2>1. /\ definitions' \in [Defs -> DefRow \cup {None}]
        /\ runs' = RunsWithout(d)
        /\ UNCHANGED patch
    BY <1>5 DEF Delete, IInv, TypeOK
  <2>2. runs' \in [RunIds -> RunRow]
    BY <2>1, RowTypes DEF RunsWithout, IInv, TypeOK
  <2>3. RunsSound'
    BY <1>1, <2>1, RowTypes
       DEF RunsWithout, IInv, RunsSound, FreshSuccess, history
  <2>4. QED
    BY <1>1, <1>2, <2>1, <2>2, <2>3 DEF IInv, TypeOK, history
<1>6. QED
  BY <1>3, <1>4, <1>5

LEMMA FaultSteps ==
    ASSUME IInv, NEW w \in Workers, DatabaseFails(w) \/ Crash(w) \/ LockExpires(w)
    PROVE  IInv'
<1> DEFINE s == slot[w]
<1>1. s \in Slot /\ Sound(s, payloads, billed, ingested) /\ day \in Days
  BY BusySlot DEF DatabaseFails, Crash, LockExpires, IInv, SlotsSound, TypeOK
<1>2. UNCHANGED <<tables, patch, day, issued, history>>
  BY DEF DatabaseFails, Crash, LockExpires
<1>3. faults' \in 0 .. MaxFaults
  BY BoundAssumption DEF DatabaseFails, Crash, LockExpires, IInv, TypeOK
<1>4. queue' \subseteq Job
  BY <1>1 DEF DatabaseFails, Crash, LockExpires, Redelivery, IInv, TypeOK, Slot, Job
<1>5. ASSUME NEW t, slot' = [slot EXCEPT ![w] = t],
             Sound(t, payloads', billed', ingested')
      PROVE  IInv'
  <2>1. slot' \in [Workers -> Slot \cup {Idle}] /\ SlotsSound' /\ RunsSound'
    BY <1>2, <1>5, HandleStep DEF tables, history
  <2>2. TypeOK'
    BY <1>2, <1>3, <1>4, <2>1 DEF IInv, TypeOK, tables, history
  <2>3. QED
    BY <2>1, <2>2 DEF IInv
<1>6. CASE slot' = [slot EXCEPT ![w] = Idle]
  BY <1>5, <1>6, IdleSound
<1>7. CASE slot' = [slot EXCEPT ![w] = Fail(s, "transient")]
  <2>1. Sound(Fail(s, "transient"), payloads', billed', ingested')
    BY <1>1, FailSound DEF Errors
  <2>2. QED
    BY <1>5, <1>7, <2>1
<1>8. CASE LockExpires(w)
  <2> DEFINE j == [s.job EXCEPT !.attempt = 1]
             t == [s EXCEPT !.job = j]
  <2>1. j \in Job
    BY <1>1 DEF Slot, Job
  <2>2. slot' = [slot EXCEPT ![w] = t]
    BY <1>8 DEF LockExpires, IInv, TypeOK
  <2> HIDE DEF j
  <2>3. Sound(t, payloads', billed', ingested')
    BY <1>1, <1>2, <2>1 DEF Sound, Slot, tables, history
  <2> HIDE DEF t
  <2>4. QED
    BY <1>5, <2>2, <2>3
<1>9. QED
  BY <1>6, <1>7, <1>8 DEF DatabaseFails, Crash

LEMMA Inductive == IInv /\ [Next]_vars => IInv'
<1> SUFFICES ASSUME IInv, [Next]_vars PROVE IInv'
  OBVIOUS
<1>1. CASE NextDay
  BY <1>1, QueueSteps
<1>2. ASSUME NEW d \in Defs, Trigger(d) PROVE IInv'
  BY <1>2, QueueSteps
<1>3. ASSUME NEW w \in Workers, Skip(w) \/ Load(w) \/ Handle(w) PROVE IInv'
  BY <1>3, QueueSteps, LoadStep, StartRunStep, LookUpStep, ReplayStep, FetchStep,
     StoreStep, BillStep, IngestStep, SaveDefStep, SaveRunStep DEF Handle
<1>4. ASSUME NEW w \in Workers, DatabaseFails(w) \/ Crash(w) \/ LockExpires(w)
      PROVE  IInv'
  BY <1>4, FaultSteps
<1>5. ASSUME NEW o \in Operators,
             SavePatch(o) \/ \E d \in Defs : ReadForPatch(o, d) \/ Delete(o, d)
      PROVE  IInv'
  BY <1>5, OperatorSteps
<1>6. CASE UNCHANGED vars
  BY <1>6 DEF vars, IInv, TypeOK, SlotsSound, RunsSound, FreshSuccess
<1>7. QED
  BY <1>1, <1>2, <1>3, <1>4, <1>5, <1>6 DEF Next

\* The invariant holds throughout every behaviour.
THEOREM Invariance == Spec => []IInv
BY InitSound, Inductive, PTL DEF Spec

\* Types: in particular every hash, whatever the definition and the day it
\* comes from, is one the tables can be keyed by.
THEOREM TypeCorrect == Spec => []TypeOK
<1>1. IInv => TypeOK
  BY DEF IInv
<1>2. QED
  BY <1>1, Invariance, PTL

\* An execution never works with the answer to another request or day, and
\* never with one that is not in raw_payloads: the id that
\* RawPayloadRepository.save hands back is always one to build on.
THEOREM AnswerCorrect == Spec => []AnswerMatchesRequest
<1>1. IInv => AnswerMatchesRequest
  BY DEF IInv, SlotsSound, Sound, AnswerMatchesRequest
<1>2. QED
  BY <1>1, Invariance, PTL

\* Every run the usage report counts as billed has its usage entry.
THEOREM FreshSuccessBilled == Spec => []FreshSuccessIsBilled
<1>1. IInv => FreshSuccessIsBilled
  BY DEF IInv, RunsSound, FreshSuccessIsBilled
<1>2. QED
  BY <1>1, Invariance, PTL

\* Every run that fetched and succeeded has fed its read model.
THEOREM FreshSuccessIngested == Spec => []FreshSuccessIsIngested
<1>1. IInv => FreshSuccessIsIngested
  BY DEF IInv, RunsSound, FreshSuccessIsIngested
<1>2. QED
  BY <1>1, Invariance, PTL

-----------------------------------------------------------------------------
\* Without faults.

\* The queue hands a run to one execution: nothing was done for it before.
Fresh(r) == runs[r] = NoRun /\ r \notin billed

\* What the execution s may rely on while nothing fails, given the row of its run and
\* the runs B that were billed.
FirstTry(s, row, B) ==
    /\ row.status \in {"absent", "running"} /\ row.payload = None /\ ~row.cacheHit
    /\ s.pc = "start" => row = NoRun
    /\ s.pc \in {"start", "lookup", "replay", "fetch", "store", "bill"} => s.id \notin B
    /\ s.pc \notin {"saveDef", "saveRun"} => s.run.payload = None /\ ~s.run.cacheHit
    /\ s.pc \in {"saveDef", "saveRun"}
       => \/ s.run.status = "succeeded" /\ s.run.payload = s.payload
          \/ s.run.status = "failed"
    /\ s.run.status = "failed" => s.run.payload = None
    /\ s.run.cacheHit => s.id \notin B

Busy(w) == slot[w].pc # "idle"

\* A run is not issued yet, waits in one job, is held by one execution or has ended.
OneDelivery ==
    /\ \A r \in RunIds \ issued : Fresh(r)
    /\ \A j \in queue : j.run \in issued /\ Fresh(j.run)
    /\ \A i, j \in queue : i.run = j.run => i = j
    /\ \A w \in Workers :
          Busy(w) => /\ slot[w].id \in issued
                     /\ \A j \in queue : j.run # slot[w].id
                     /\ FirstTry(slot[w], runs[slot[w].id], billed)
    /\ \A v, w \in Workers : Busy(v) /\ Busy(w) /\ slot[v].id = slot[w].id => v = w
    /\ CacheHitIsFree

LEMMA CompleteFacts ==
    ASSUME NEW s \in Slot, NEW hit \in BOOLEAN
    PROVE  /\ Complete(s, hit).pc = "saveDef" /\ Complete(s, hit).id = s.id
           /\ Complete(s, hit).run.status = "succeeded" /\ Complete(s, hit).run.cacheHit = hit
           /\ Complete(s, hit).run.payload = Complete(s, hit).payload
BY DEF Complete, Slot, RunRow

LEMMA FailFacts ==
    ASSUME NEW s \in Slot, NEW error \in Errors
    PROVE  /\ Fail(s, error).pc = "saveDef" /\ Fail(s, error).id = s.id
           /\ Fail(s, error).run.status = "failed"
           /\ Fail(s, error).run.payload = s.run.payload
           /\ Fail(s, error).run.cacheHit = s.run.cacheHit
BY DEF Fail, Slot, RunRow

\* The execution in slot w goes on or ends, and touches no run but its own.
LEMMA OwnRunStep ==
    ASSUME IInv, OneDelivery, NEW w \in Workers, Busy(w), NEW t,
           slot' = [slot EXCEPT ![w] = t], UNCHANGED <<queue, issued>>,
           \A r \in RunIds : r # slot[w].id => /\ runs'[r] = runs[r]
                                               /\ r \in billed' => r \in billed,
           t.pc # "idle" => /\ t.id = slot[w].id
                            /\ FirstTry(t, runs'[slot[w].id], billed'),
           runs'[slot[w].id].cacheHit => slot[w].id \notin billed'
    PROVE  OneDelivery'
<1> DEFINE id == slot[w].id
<1>1. slot'[w] = t /\ \A v \in Workers : v # w => slot'[v] = slot[v]
  BY DEF IInv, TypeOK
<1>2. /\ id \in issued /\ id \in RunIds
      /\ \A j \in queue : j.run # id
      /\ \A v \in Workers : Busy(v) => slot[v].id \in RunIds
      /\ \A v \in Workers : v # w /\ Busy(v) => slot[v].id # id
      /\ \A j \in queue : j.run \in RunIds
  <2>1. issued \subseteq RunIds
    BY DEF IInv, TypeOK
  <2>2. QED
    BY <2>1 DEF OneDelivery
<1>3. \A r \in RunIds : r # id /\ Fresh(r) => Fresh(r)'
  BY DEF Fresh
<1>4. /\ \A r \in RunIds \ issued' : Fresh(r)'
      /\ \A j \in queue' : j.run \in issued' /\ Fresh(j.run)'
      /\ \A i, j \in queue' : i.run = j.run => i = j
  <2>1. \A r \in RunIds \ issued' : r # id /\ Fresh(r)
    BY <1>2 DEF OneDelivery
  <2>2. \A j \in queue' : j.run \in issued /\ Fresh(j.run) /\ j.run # id /\ j.run \in RunIds
    BY <1>2 DEF OneDelivery
  <2>3. QED
    BY <1>3, <2>1, <2>2 DEF OneDelivery
<1>5. ASSUME NEW v \in Workers, Busy(v)'
      PROVE  /\ slot'[v].id \in issued'
             /\ \A j \in queue' : j.run # slot'[v].id
             /\ FirstTry(slot'[v], runs'[slot'[v].id], billed')
  <2>1. CASE v = w
    BY <1>1, <1>2, <1>5, <2>1 DEF Busy
  <2>2. CASE v # w
    <3>1. Busy(v) /\ slot'[v] = slot[v] /\ slot[v].id # id /\ slot[v].id \in RunIds
      BY <1>1, <1>2, <1>5, <2>2 DEF Busy
    <3>2. FirstTry(slot[v], runs[slot[v].id], billed)
      BY <3>1 DEF OneDelivery
    <3>3. FirstTry(slot[v], runs'[slot[v].id], billed')
      BY <3>1, <3>2 DEF FirstTry
    <3>4. QED
      BY <3>1, <3>3 DEF OneDelivery
  <2>3. QED
    BY <2>1, <2>2
<1>6. \A u, v \in Workers : Busy(u)' /\ Busy(v)' /\ slot'[u].id = slot'[v].id => u = v
  <2>1. \A v \in Workers : Busy(v)' => Busy(v) /\ slot'[v].id = slot[v].id
    BY <1>1 DEF Busy
  <2>2. QED
    BY <2>1 DEF OneDelivery
<1>7. CacheHitIsFree'
  <2>1. \A r \in RunIds : runs[r].cacheHit => r \notin billed
    BY DEF OneDelivery, CacheHitIsFree
  <2>2. QED
    BY <2>1 DEF CacheHitIsFree
<1>8. QED
  BY <1>4, <1>5, <1>6, <1>7 DEF OneDelivery

LEMMA DeliveryInit == Init => OneDelivery
<1> SUFFICES ASSUME Init PROVE OneDelivery
  OBVIOUS
<1>1. \A r \in RunIds : Fresh(r) /\ runs[r] = NoRun
  BY DEF Init, Fresh
<1>2. \A w \in Workers : ~Busy(w)
  BY RowTypes DEF Init, Busy
<1>3. CacheHitIsFree
  BY <1>1 DEF CacheHitIsFree, Fresh
<1>4. QED
  BY <1>1, <1>2, <1>3 DEF Init, OneDelivery

\* Days, jobs, patches and deletions: a deleted run is as it was before it began.
LEMMA DeliveryOutside ==
    ASSUME IInv, OneDelivery,
           \/ NextDay
           \/ \E d \in Defs : Trigger(d)
           \/ \E w \in Workers : Skip(w)
           \/ \E o \in Operators : SavePatch(o)
           \/ \E o \in Operators, d \in Defs : ReadForPatch(o, d) \/ Delete(o, d)
           \/ UNCHANGED vars
    PROVE  OneDelivery'
<1>1. /\ slot' = slot /\ billed' = billed
      /\ \A r \in RunIds : runs'[r] \in {runs[r], NoRun}
  <2>1. CASE \E o \in Operators, d \in Defs : Delete(o, d)
    BY <2>1 DEF Delete, RunsWithout, history
  <2>2. QED
    BY <2>1 DEF NextDay, Trigger, Skip, SavePatch, ReadForPatch, vars, tables, history
<1>2. /\ issued \subseteq issued' /\ issued' \subseteq RunIds
      /\ \A j \in queue' :
            j \in queue \/ (j.run \in RunIds \ issued /\ j.run \in issued')
      /\ \A i, j \in queue' : i \notin queue /\ j \notin queue => i = j
      /\ \A r \in issued' \ issued : \E j \in queue' : j.run = r
  <2>1. CASE \E d \in Defs : Trigger(d)
    <3>1. PICK d \in Defs, r \in RunIds \ issued :
              /\ issued' = issued \cup {r}
              /\ queue' = queue \cup {[def |-> d, run |-> r, attempt |-> 0]}
      BY <2>1 DEF Trigger
    <3>2. [def |-> d, run |-> r, attempt |-> 0].run = r
      OBVIOUS
    <3>3. QED
      BY <3>1, <3>2 DEF IInv, TypeOK
  <2>2. CASE ~\E d \in Defs : Trigger(d)
    <3>1. issued' = issued /\ queue' \subseteq queue
      BY <2>2 DEF NextDay, Skip, SavePatch, ReadForPatch, Delete, vars
    <3>2. QED
      BY <3>1 DEF IInv, TypeOK
  <2>3. QED
    BY <2>1, <2>2
<1>3. \A r \in RunIds : Fresh(r) => Fresh(r)'
  BY <1>1 DEF Fresh
<1>4. \A j \in queue : j.run \in issued /\ j.run \in RunIds
  BY DEF OneDelivery, IInv, TypeOK
<1>5. /\ \A r \in RunIds \ issued' : Fresh(r)'
      /\ \A j \in queue' : j.run \in issued' /\ Fresh(j.run)'
  <2>1. \A r \in RunIds \ issued : Fresh(r)'
    BY <1>3 DEF OneDelivery
  <2>2. \A j \in queue : Fresh(j.run)'
    BY <1>3, <1>4 DEF OneDelivery
  <2>3. QED
    BY <1>2, <1>4, <2>1, <2>2
<1>6. \A i, j \in queue' : i.run = j.run => i = j
  BY <1>2, <1>4 DEF OneDelivery
<1>7. ASSUME NEW w \in Workers, Busy(w)'
      PROVE  /\ slot'[w].id \in issued'
             /\ \A j \in queue' : j.run # slot'[w].id
             /\ FirstTry(slot'[w], runs'[slot'[w].id], billed')
  <2>1. Busy(w) /\ slot[w].id \in issued /\ slot[w].id \in RunIds
    BY <1>1, <1>7 DEF Busy, OneDelivery, IInv, TypeOK
  <2>2. FirstTry(slot[w], runs[slot[w].id], billed)
    BY <2>1 DEF OneDelivery
  <2>3. FirstTry(slot[w], runs'[slot[w].id], billed')
    <3>1. NoRun.status = "absent" /\ NoRun.payload = None /\ ~NoRun.cacheHit
      BY DEF NoRun
    <3>2. QED
      BY <1>1, <2>1, <2>2, <3>1 DEF FirstTry
  <2>4. \A j \in queue : j.run # slot[w].id
    BY <2>1 DEF OneDelivery
  <2>5. QED
    BY <1>1, <1>2, <2>1, <2>3, <2>4
<1>8. \A v, w \in Workers : Busy(v)' /\ Busy(w)' /\ slot'[v].id = slot'[w].id => v = w
  BY <1>1 DEF Busy, OneDelivery
<1>9. CacheHitIsFree'
  <2>1. ~NoRun.cacheHit
    BY DEF NoRun
  <2>2. QED
    BY <1>1, <2>1 DEF OneDelivery, CacheHitIsFree
<1>10. QED
  BY <1>5, <1>6, <1>7, <1>8, <1>9 DEF OneDelivery

LEMMA DeliveryLoad ==
    ASSUME IInv, OneDelivery, NEW w \in Workers, Load(w)
    PROVE  OneDelivery'
<1>0. PICK j \in queue \cup Ticks :
        /\ Runnable(j.def)
        /\ \E r \in IF j.run = None THEN RunIds \ issued ELSE {j.run} :
            /\ issued' = issued \cup {r}
            /\ slot' = [slot EXCEPT ![w] =
                  [Idle EXCEPT !.pc = "start", !.job = j, !.id = r,
                               !.def = definitions[j.def]]]
        /\ queue' = queue \ {j}
  BY DEF Load
<1>1. PICK r \in IF j.run = None THEN RunIds \ issued ELSE {j.run} :
        /\ issued' = issued \cup {r}
        /\ slot' = [slot EXCEPT ![w] =
              [Idle EXCEPT !.pc = "start", !.job = j, !.id = r,
                           !.def = definitions[j.def]]]
        /\ queue' = queue \ {j}
  BY <1>0
<1> DEFINE t == [Idle EXCEPT !.pc = "start", !.job = j, !.id = r, !.def = definitions[j.def]]
<1>2. UNCHANGED <<runs, billed>> /\ ~Busy(w)
  BY DEF Load, tables, history, Busy
<1>3. /\ \A i \in queue : i.run \in issued /\ i.run \in RunIds /\ i.run # None
      /\ \A i \in Ticks : i.run = None
  <2>1. \A i \in queue : i.run \in issued /\ i.run \in RunIds
    BY DEF OneDelivery, IInv, TypeOK
  <2>2. QED
    BY <2>1, NoneAssumption DEF Ticks
<1>4. r \in RunIds \ issued \/ (j \in queue /\ r = j.run)
  <2>1. CASE j \in queue
    BY <1>3, <2>1
  <2>2. CASE j \in Ticks
    BY <1>3, <2>2
  <2>3. QED
    BY <2>1, <2>2
<1>5. /\ r \in RunIds /\ Fresh(r)
      /\ \A i \in queue' : i.run # r
      /\ \A v \in Workers : Busy(v) => slot[v].id # r
  <2>1. CASE r \in RunIds \ issued
    BY <1>1, <1>3, <2>1 DEF OneDelivery
  <2>2. CASE j \in queue /\ r = j.run
    BY <1>1, <1>3, <2>2 DEF OneDelivery
  <2>3. QED
    BY <1>4, <2>1, <2>2
<1>6. t.pc = "start" /\ t.id = r /\ t.run = NoRun
  BY DEF Idle
<1>7. FirstTry(t, runs[r], billed)
  BY <1>5, <1>6 DEF FirstTry, Fresh, NoRun
<1>8. slot'[w] = t /\ \A v \in Workers : v # w => slot'[v] = slot[v]
  BY <1>1 DEF IInv, TypeOK
<1> HIDE DEF t
<1>9. /\ \A q \in RunIds \ issued' : Fresh(q)'
      /\ \A i \in queue' : i.run \in issued' /\ Fresh(i.run)'
      /\ \A i, k \in queue' : i.run = k.run => i = k
      /\ CacheHitIsFree'
  BY <1>1, <1>2 DEF OneDelivery, Fresh, CacheHitIsFree
<1>10. ASSUME NEW v \in Workers, Busy(v)'
       PROVE  /\ slot'[v].id \in issued'
              /\ \A i \in queue' : i.run # slot'[v].id
              /\ FirstTry(slot'[v], runs'[slot'[v].id], billed')
  <2>1. CASE v = w
    BY <1>1, <1>2, <1>5, <1>6, <1>7, <1>8, <2>1
  <2>2. CASE v # w
    BY <1>1, <1>2, <1>8, <1>10, <2>2 DEF OneDelivery, Busy
  <2>3. QED
    BY <2>1, <2>2
<1>11. \A u, v \in Workers : Busy(u)' /\ Busy(v)' /\ slot'[u].id = slot'[v].id => u = v
  BY <1>2, <1>5, <1>6, <1>8 DEF OneDelivery, Busy
<1>12. QED
  BY <1>9, <1>10, <1>11 DEF OneDelivery

\* What is known of the execution in a slot that is at work.
LEMMA TryFacts ==
    ASSUME IInv, OneDelivery, NEW w \in Workers, Busy(w)
    PROVE  /\ slot[w] \in Slot /\ slot[w].id \in RunIds
           /\ FirstTry(slot[w], runs[slot[w].id], billed)
           /\ Sound(slot[w], payloads, billed, ingested)
           /\ runs \in [RunIds -> RunRow] /\ day \in Days
<1>1. slot[w] \in Slot /\ Sound(slot[w], payloads, billed, ingested)
  BY BusySlot DEF Busy, IInv, SlotsSound
<1>2. QED
  BY <1>1 DEF OneDelivery, IInv, TypeOK, Slot

LEMMA DeliveryStartRun ==
    ASSUME IInv, OneDelivery, NEW w \in Workers, StartRun(w)
    PROVE  OneDelivery'
<1> DEFINE s == slot[w]
           started == [NoRun EXCEPT !.status = "running", !.def = s.job.def]
           t == [s EXCEPT !.pc = "lookup", !.run = started]
<1>1. /\ Busy(w) /\ s.pc = "start"
      /\ UNCHANGED <<queue, issued, billed>>
  BY RowTypes DEF StartRun, Busy, history
<1>2. /\ s \in Slot /\ s.id \in RunIds /\ FirstTry(s, runs[s.id], billed)
      /\ runs \in [RunIds -> RunRow]
  BY <1>1, TryFacts
<1>3. /\ started.status = "running" /\ started.payload = None /\ started.cacheHit = FALSE
  BY DEF NoRun
<1>4. CASE slot' = [slot EXCEPT ![w] = Idle] /\ UNCHANGED runs
  <2>1. ~runs[s.id].cacheHit
    BY <1>2 DEF FirstTry
  <2>2. QED
    BY <1>1, <1>4, <2>1, RowTypes, OwnRunStep
<1>5. CASE /\ runs' = [runs EXCEPT ![s.id] = started]
           /\ slot' = [slot EXCEPT ![w] = t]
  <2>1. /\ t.pc = "lookup" /\ t.id = s.id /\ t.run = started
        /\ runs'[s.id] = started
        /\ \A r \in RunIds : r # s.id => runs'[r] = runs[r]
    BY <1>2, <1>5 DEF Slot
  <2> HIDE DEF t, started
  <2>2. FirstTry(t, runs'[s.id], billed')
    BY <1>1, <1>2, <1>3, <2>1 DEF FirstTry
  <2>3. QED
    BY <1>1, <1>3, <1>5, <2>1, <2>2, OwnRunStep
<1>6. QED
  BY <1>4, <1>5 DEF StartRun

\* A step of the execution that leaves the tables of runs and of usage alone.
LEMMA DeliveryInMemory ==
    ASSUME IInv, OneDelivery, NEW w \in Workers,
           LookUp(w) \/ Replay(w) \/ Fetch(w) \/ Store(w) \/ Ingest(w) \/ SaveDef(w)
    PROVE  OneDelivery'
<1> DEFINE s == slot[w]
<1>1. Busy(w) /\ UNCHANGED <<queue, issued, runs, billed>>
  BY RowTypes DEF LookUp, Replay, Fetch, Store, Ingest, SaveDef, Busy, tables, history
<1>2. /\ s \in Slot /\ s.id \in RunIds /\ FirstTry(s, runs[s.id], billed)
      /\ Sound(s, payloads, billed, ingested) /\ slot \in [Workers -> Slot \cup {Idle}]
  BY <1>1, TryFacts DEF IInv, TypeOK
<1>3. PICK t : /\ slot' = [slot EXCEPT ![w] = t]
               /\ t.id = s.id /\ FirstTry(t, runs[s.id], billed)
  <2>1. ASSUME NEW error \in Errors, s.pc \in {"replay", "fetch", "ingest"}
        PROVE  Fail(s, error).id = s.id /\ FirstTry(Fail(s, error), runs[s.id], billed)
    BY <1>2, <2>1, FailFacts DEF FirstTry
  <2>2. ASSUME NEW hit \in BOOLEAN, s.pc \in {"replay", "ingest"}, hit => s.pc = "replay"
        PROVE  Complete(s, hit).id = s.id /\ FirstTry(Complete(s, hit), runs[s.id], billed)
    BY <1>2, <2>2, CompleteFacts DEF FirstTry
  <2>3. CASE LookUp(w)
    <3>1. ASSUME NEW pc \in {"fetch", "replay"}, NEW h, NEW p,
                 slot' = [slot EXCEPT ![w] = [s EXCEPT !.pc = pc, !.hash = h, !.payload = p]]
          PROVE  \E t : /\ slot' = [slot EXCEPT ![w] = t]
                        /\ t.id = s.id /\ FirstTry(t, runs[s.id], billed)
      <4> DEFINE t == [s EXCEPT !.pc = pc, !.hash = h, !.payload = p]
      <4>1. t.pc = pc /\ t.id = s.id /\ t.run = s.run /\ s.pc = "lookup"
        BY <1>2, <2>3 DEF Slot, LookUp
      <4>2. FirstTry(t, runs[s.id], billed)
        BY <1>2, <4>1 DEF FirstTry
      <4>3. slot' = [slot EXCEPT ![w] = t]
        BY <3>1
      <4> HIDE DEF t
      <4>4. QED
        BY <4>1, <4>2, <4>3
    <3>2. CASE slot' = [slot EXCEPT ![w].pc = "fetch", ![w].hash = RequestHash(s)]
      <4>1. slot' = [slot EXCEPT ![w] =
                       [s EXCEPT !.pc = "fetch", !.hash = RequestHash(s), !.payload = s.payload]]
        BY <1>2, <3>2 DEF Slot
      <4>2. QED
        BY <3>1, <4>1
    <3>3. CASE \E p \in Cached(RequestHash(s)) :
                  slot' = [slot EXCEPT ![w].pc = "replay", ![w].hash = RequestHash(s),
                                       ![w].payload = p]
      <4>1. PICK p \in Cached(RequestHash(s)) :
                  slot' = [slot EXCEPT ![w].pc = "replay", ![w].hash = RequestHash(s),
                                       ![w].payload = p]
        BY <3>3
      <4>2. slot' = [slot EXCEPT ![w] =
                       [s EXCEPT !.pc = "replay", !.hash = RequestHash(s), !.payload = p]]
        BY <1>2, <4>1
      <4>3. QED
        BY <3>1, <4>2
    <3>4. QED
      BY <2>3, <3>2, <3>3 DEF LookUp
  <2>4. CASE Replay(w)
    <3>1. PICK t \in {Complete(s, TRUE), Fail(s, "permanent")} :
             slot' = [slot EXCEPT ![w] = t]
      BY <2>4 DEF Replay
    <3>2. s.pc = "replay" /\ "permanent" \in Errors
      BY <2>4 DEF Replay, Errors
    <3>3. QED
      BY <2>1, <2>2, <3>1, <3>2
  <2>5. CASE Fetch(w)
    <3>1. CASE slot' = [slot EXCEPT ![w].pc = "store"]
      <4> DEFINE t == [s EXCEPT !.pc = "store"]
      <4>1. slot' = [slot EXCEPT ![w] = t]
        BY <1>2, <3>1
      <4>2. t.pc = "store" /\ t.id = s.id /\ t.run = s.run /\ s.pc = "fetch"
        BY <1>2, <2>5 DEF Slot, Fetch
      <4>3. FirstTry(t, runs[s.id], billed)
        BY <1>2, <4>2 DEF FirstTry
      <4>4. QED
        BY <4>1, <4>2, <4>3
    <3>2. CASE \E error \in Errors : slot' = [slot EXCEPT ![w] = Fail(s, error)]
      <4>1. s.pc = "fetch"
        BY <2>5 DEF Fetch
      <4>2. QED
        BY <2>1, <3>2, <4>1
    <3>3. QED
      BY <2>5, <3>1, <3>2 DEF Fetch
  <2>6. CASE Store(w)
    <3>1. PICK p : slot' = [slot EXCEPT ![w].pc = "bill", ![w].payload = p]
      BY <2>6 DEF Store
    <3> DEFINE t == [s EXCEPT !.pc = "bill", !.payload = p]
    <3>2. slot' = [slot EXCEPT ![w] = t]
      BY <1>2, <3>1
    <3>3. t.pc = "bill" /\ t.id = s.id /\ t.run = s.run /\ s.pc = "store"
      BY <1>2, <2>6 DEF Slot, Store
    <3>4. FirstTry(t, runs[s.id], billed)
      BY <1>2, <3>3 DEF FirstTry
    <3>5. QED
      BY <3>2, <3>3, <3>4
  <2>7. CASE Ingest(w)
    <3>1. s.pc = "ingest"
      BY <2>7 DEF Ingest
    <3>2. CASE slot' = [slot EXCEPT ![w] = Complete(s, FALSE)]
      BY <2>2, <3>1, <3>2
    <3>3. CASE \E error \in Errors : slot' = [slot EXCEPT ![w] = Fail(s, error)]
      BY <2>1, <3>1, <3>3
    <3>4. QED
      BY <2>7, <3>2, <3>3 DEF Ingest
  <2>8. CASE SaveDef(w)
    <3> DEFINE t == [s EXCEPT !.pc = "saveRun"]
    <3>1. slot' = [slot EXCEPT ![w] = t] /\ s.pc = "saveDef"
      BY <1>2, <2>8 DEF SaveDef
    <3>2. t.pc = "saveRun" /\ t.id = s.id /\ t.run = s.run /\ t.payload = s.payload
      BY <1>2 DEF Slot
    <3>3. FirstTry(t, runs[s.id], billed)
      BY <1>2, <3>1, <3>2 DEF FirstTry
    <3>4. QED
      BY <3>1, <3>2, <3>3
  <2>9. QED
    BY <2>3, <2>4, <2>5, <2>6, <2>7, <2>8
<1>4. ~runs[s.id].cacheHit
  BY <1>2 DEF FirstTry
<1>5. QED
  BY <1>1, <1>3, <1>4, OwnRunStep

LEMMA DeliveryBill ==
    ASSUME IInv, OneDelivery, NEW w \in Workers, Bill(w)
    PROVE  OneDelivery'
<1> DEFINE s == slot[w]
           t == [s EXCEPT !.pc = "ingest"]
<1>1. /\ Busy(w) /\ s.pc = "bill" /\ UNCHANGED <<queue, issued, runs>>
      /\ billed' = billed \cup {s.id}
  BY RowTypes DEF Bill, Busy
<1>2. /\ s \in Slot /\ s.id \in RunIds /\ FirstTry(s, runs[s.id], billed)
  BY <1>1, TryFacts
<1>3. slot' = [slot EXCEPT ![w] = t]
  BY DEF Bill, IInv, TypeOK
<1>4. t.pc = "ingest" /\ t.id = s.id /\ t.run = s.run
  BY <1>2 DEF Slot
<1> HIDE DEF t
<1>5. Sound(s, payloads, billed, ingested)
  BY <1>1, TryFacts
<1>6. FirstTry(t, runs'[s.id], billed') /\ ~runs'[s.id].cacheHit
  BY <1>1, <1>2, <1>4, <1>5 DEF FirstTry, Sound
<1>7. QED
  BY <1>1, <1>3, <1>4, <1>6, OwnRunStep

LEMMA DeliverySaveRun ==
    ASSUME IInv, OneDelivery, NEW w \in Workers, SaveRun(w)
    PROVE  OneDelivery'
<1> DEFINE s == slot[w]
<1>1. /\ Busy(w) /\ UNCHANGED <<queue, issued, billed>>
      /\ slot' = [slot EXCEPT ![w] = Idle]
      /\ runs' = [runs EXCEPT ![s.id] = s.run] \/ runs' = runs
  BY RowTypes DEF SaveRun, Busy, history
<1>2. /\ s.id \in RunIds /\ FirstTry(s, runs[s.id], billed)
      /\ runs \in [RunIds -> RunRow]
  BY <1>1, TryFacts
<1>3. runs'[s.id].cacheHit => s.id \notin billed'
  BY <1>1, <1>2 DEF FirstTry
<1>4. \A r \in RunIds : r # s.id => runs'[r] = runs[r]
  BY <1>1, <1>2
<1>5. QED
  BY <1>1, <1>3, <1>4, RowTypes, OwnRunStep

\* A fault ends the part of the behaviour that this is about.
LEMMA DeliveryInductive ==
    ASSUME IInv, faults = 0 => OneDelivery, [Next]_vars
    PROVE  faults' = 0 => OneDelivery'
<1>1. CASE \E w \in Workers : DatabaseFails(w) \/ Crash(w) \/ LockExpires(w)
  BY <1>1 DEF DatabaseFails, Crash, LockExpires, IInv, TypeOK
<1>2. CASE \/ NextDay
           \/ \E d \in Defs : Trigger(d)
           \/ \E w \in Workers : Skip(w)
           \/ \E o \in Operators : SavePatch(o)
           \/ \E o \in Operators, d \in Defs : ReadForPatch(o, d) \/ Delete(o, d)
           \/ UNCHANGED vars
  <2>1. faults' = faults
    BY <1>2 DEF NextDay, Trigger, Skip, SavePatch, ReadForPatch, Delete, vars
  <2>2. QED
    BY <1>2, <2>1, DeliveryOutside
<1>3. CASE \E w \in Workers : Load(w) \/ Handle(w)
  <2>1. faults' = faults
    BY <1>3 DEF Load, Handle, StartRun, LookUp, Replay, Fetch, Store, Bill, Ingest, SaveDef,
                SaveRun
  <2>2. QED
    BY <1>3, <2>1, DeliveryLoad, DeliveryStartRun, DeliveryInMemory, DeliveryBill,
       DeliverySaveRun DEF Handle
<1>4. QED
  BY <1>1, <1>2, <1>3 DEF Next

\* While nothing fails, a run is worked on once; faults are what it takes to work on one
\* twice.
THEOREM DeliveredOnce == Spec => [](faults = 0 => OneDelivery)
<1>1. Init => (faults = 0 => OneDelivery)
  BY DeliveryInit
<1>2. IInv /\ (faults = 0 => OneDelivery) /\ [Next]_vars => (faults = 0 => OneDelivery)'
  BY DeliveryInductive
<1>3. QED
  BY <1>1, <1>2, Invariance, PTL DEF Spec

\* Until something fails, a run marked as a cache hit wrote no usage entry.
THEOREM CacheHitFree == Spec => [](faults = 0 => CacheHitIsFree)
<1>1. (faults = 0 => OneDelivery) => (faults = 0 => CacheHitIsFree)
  BY DEF OneDelivery
<1>2. QED
  BY <1>1, DeliveredOnce, PTL

-----------------------------------------------------------------------------
\* The contract of the runs and payloads tables, step by step.

LEMMA ContractInit == Init => Contract!Init
BY DEF Init, Contract!Init, NoRun

LEMMA TablesStay ==
    ASSUME UNCHANGED <<payloads, runs>>
    PROVE  UNCHANGED Contract!vars
BY DEF Contract!vars

\* Which steps leave the two tables alone.
LEMMA QuietTables ==
    ASSUME \/ NextDay
           \/ \E d \in Defs : Trigger(d)
           \/ \E w \in Workers :
                 \/ Skip(w) \/ Load(w) \/ LookUp(w) \/ Replay(w) \/ Fetch(w)
                 \/ Bill(w) \/ Ingest(w) \/ SaveDef(w)
           \/ \E o \in Operators : SavePatch(o)
           \/ \E o \in Operators, d \in Defs : ReadForPatch(o, d)
           \/ UNCHANGED vars
    PROVE  UNCHANGED <<payloads, runs>>
BY DEF NextDay, Trigger, Skip, Load, LookUp, Replay, Fetch, Bill, Ingest, SaveDef, SavePatch,
       ReadForPatch, tables, vars

\* A function that differs from another in one place at most.
LEMMA UpdatedFunction ==
    ASSUME NEW S, NEW f, NEW g, NEW r \in S, NEW x,
           f = [q \in S |-> f[q]], g = [q \in S |-> g[q]],
           \A q \in S : g[q] = IF q = r THEN x ELSE f[q]
    PROVE  g = [f EXCEPT ![r] = x]
OBVIOUS

\* The row of one run changes: what the contract sees of it.
LEMMA RowStep ==
    ASSUME IInv, NEW r \in RunIds, NEW row, runs' = [runs EXCEPT ![r] = row]
    PROVE  /\ [q \in RunIds |-> runs'[q].status]
              = [[q \in RunIds |-> runs[q].status] EXCEPT ![r] = row.status]
           /\ [q \in RunIds |-> runs'[q].payload]
              = [[q \in RunIds |-> runs[q].payload] EXCEPT ![r] = row.payload]
<1>1. \A q \in RunIds : runs'[q] = IF q = r THEN row ELSE runs[q]
  BY DEF IInv, TypeOK
<1> DEFINE status == [q \in RunIds |-> runs[q].status]
           status1 == [q \in RunIds |-> runs'[q].status]
           payload == [q \in RunIds |-> runs[q].payload]
           payload1 == [q \in RunIds |-> runs'[q].payload]
<1>2. /\ status = [q \in RunIds |-> status[q]] /\ status1 = [q \in RunIds |-> status1[q]]
      /\ payload = [q \in RunIds |-> payload[q]] /\ payload1 = [q \in RunIds |-> payload1[q]]
  OBVIOUS
<1>3. /\ \A q \in RunIds : status1[q] = IF q = r THEN row.status ELSE status[q]
      /\ \A q \in RunIds : payload1[q] = IF q = r THEN row.payload ELSE payload[q]
  BY <1>1
<1> HIDE DEF status, status1, payload, payload1
<1>4. status1 = [status EXCEPT ![r] = row.status]
  BY <1>2, <1>3, UpdatedFunction
<1>5. payload1 = [payload EXCEPT ![r] = row.payload]
  BY <1>2, <1>3, UpdatedFunction
<1>6. QED
  BY <1>4, <1>5 DEF status, status1, payload, payload1

\* A payload is stored under a hash that had none.
LEMMA ContractAnswers ==
    ASSUME IInv, NEW w \in Workers, Store(w)
    PROVE  [Contract!Next]_(Contract!vars)
<1> DEFINE candidate == [by |-> w, hash |-> slot[w].hash]
<1>1. /\ UNCHANGED runs
      /\ payloads' = IF Stored(slot[w].hash) THEN payloads ELSE payloads \cup {candidate}
  BY DEF Store
<1>2. CASE Stored(slot[w].hash)
  BY <1>1, <1>2, TablesStay
<1>3. CASE ~Stored(slot[w].hash)
  <2>1. slot[w].hash \in Hash
    <3>1. Sound(slot[w], payloads, billed, ingested)
      BY DEF IInv, SlotsSound
    <3>2. QED
      BY <3>1 DEF Sound, Store
  <2>2. candidate \in PayloadId /\ candidate.hash = slot[w].hash
    BY <2>1 DEF PayloadId
  <2>3. Contract!Answer(candidate)
    BY <1>1, <1>3, <2>2 DEF Contract!Answer, Stored
  <2>4. QED
    BY <2>2, <2>3 DEF Contract!Next
<1>4. QED
  BY <1>2, <1>3

\* A run begins, or the execution is over before its row is there.
LEMMA ContractBegins ==
    ASSUME IInv, OneDelivery, NEW w \in Workers, StartRun(w)
    PROVE  [Contract!Next]_(Contract!vars)
<1>0. PICK r \in RunIds : r = slot[w].id
  BY TryFacts DEF StartRun, Busy
<1> DEFINE started == [NoRun EXCEPT !.status = "running", !.def = slot[w].job.def]
<1>1. UNCHANGED payloads /\ (UNCHANGED runs \/ runs' = [runs EXCEPT ![r] = started])
  BY <1>0 DEF StartRun
<1>2. CASE UNCHANGED runs
  BY <1>1, <1>2, TablesStay
<1>3. CASE runs' = [runs EXCEPT ![r] = started]
  <2>1. Busy(w) /\ slot[w].pc = "start"
    BY DEF StartRun, Busy
  <2>2. r \in RunIds /\ runs[r] = NoRun
    BY <1>0, <2>1, TryFacts DEF FirstTry
  <2>3. /\ NoRun.status = "absent" /\ NoRun.payload = None
        /\ started.status = "running" /\ started.payload = None
    BY DEF NoRun
  <2> HIDE DEF started
  <2>4. /\ [q \in RunIds |-> runs'[q].status]
           = [[q \in RunIds |-> runs[q].status] EXCEPT ![r] = "running"]
        /\ [q \in RunIds |-> runs'[q].payload]
           = [[q \in RunIds |-> runs[q].payload] EXCEPT ![r] = None]
    <3>1. PICK row : row = started
      OBVIOUS
    <3>2. runs' = [runs EXCEPT ![r] = row] /\ row.status = "running" /\ row.payload = None
      BY <1>3, <2>3, <3>1
    <3>3. /\ [q \in RunIds |-> runs'[q].status]
             = [[q \in RunIds |-> runs[q].status] EXCEPT ![r] = row.status]
          /\ [q \in RunIds |-> runs'[q].payload]
             = [[q \in RunIds |-> runs[q].payload] EXCEPT ![r] = row.payload]
      BY <3>2, RowStep
    <3>4. QED
      BY <3>2, <3>3
  <2>5. [q \in RunIds |-> runs'[q].payload] = [q \in RunIds |-> runs[q].payload]
    BY <2>2, <2>3, <2>4
  <2>6. Contract!Begin(r)
    BY <1>1, <2>2, <2>3, <2>4, <2>5 DEF Contract!Begin
  <2>7. QED
    BY <2>2, <2>6 DEF Contract!Next
<1>4. QED
  BY <1>1, <1>2, <1>3

\* A run ends, with an answer that is in the table if it succeeded, and had not
\* ended before.
LEMMA ContractEnds ==
    ASSUME IInv, OneDelivery, NEW w \in Workers, SaveRun(w)
    PROVE  [Contract!Next]_(Contract!vars)
<1> DEFINE s == slot[w]
<1>0. PICK r \in RunIds : r = s.id
  BY TryFacts DEF SaveRun, Busy
<1>1. UNCHANGED payloads /\ (UNCHANGED runs \/ runs' = [runs EXCEPT ![r] = s.run])
  BY <1>0 DEF SaveRun
<1>2. CASE UNCHANGED runs
  BY <1>1, <1>2, TablesStay
<1>3. CASE runs' = [runs EXCEPT ![r] = s.run]
  <2>1. Busy(w) /\ s.pc = "saveRun"
    BY DEF SaveRun, Busy
  <2>2. /\ s \in Slot /\ FirstTry(s, runs[r], billed)
        /\ Sound(s, payloads, billed, ingested)
    BY <1>0, <2>1, TryFacts
  <2>3. /\ runs[r].status \in {"absent", "running"} /\ runs[r].payload = None
        /\ s.run.status \in {"succeeded", "failed"}
        /\ s.run.status = "failed" => s.run.payload = None
    BY <2>1, <2>2 DEF FirstTry
  <2>4. /\ [q \in RunIds |-> runs'[q].status]
           = [[q \in RunIds |-> runs[q].status] EXCEPT ![r] = s.run.status]
        /\ [q \in RunIds |-> runs'[q].payload]
           = [[q \in RunIds |-> runs[q].payload] EXCEPT ![r] = s.run.payload]
    BY <1>3, <2>2, RowStep
  <2>5. Contract!Unfinished(r)
    BY <2>2, <2>3 DEF Contract!Unfinished
  <2>6. CASE s.run.status = "failed"
    <3>1. [q \in RunIds |-> runs'[q].payload] = [q \in RunIds |-> runs[q].payload]
      BY <2>2, <2>3, <2>4, <2>6
    <3>2. Contract!Fail(r)
      BY <1>1, <2>4, <2>5, <2>6, <3>1 DEF Contract!Fail
    <3>3. QED
      BY <2>2, <3>2 DEF Contract!Next
  <2>7. CASE s.run.status = "succeeded"
    <3>1. PICK p \in PayloadId : p = s.run.payload /\ p \in payloads
      <4>1. s.run.payload = s.payload /\ s.payload \in payloads
        BY <2>1, <2>2, <2>7 DEF FirstTry, Sound
      <4>2. payloads \subseteq PayloadId
        BY DEF IInv, TypeOK
      <4>3. QED
        BY <4>1, <4>2
    <3>2. Contract!Succeed(r, p)
      BY <1>1, <2>4, <2>5, <2>7, <3>1 DEF Contract!Succeed
    <3>3. QED
      BY <2>2, <3>1, <3>2 DEF Contract!Next
  <2>8. QED
    BY <2>3, <2>6, <2>7
<1>4. QED
  BY <1>1, <1>2, <1>3

\* A deletion takes the runs of the definition along.
LEMMA ContractForgets ==
    ASSUME IInv, NEW o \in Operators, NEW d \in Defs, Delete(o, d)
    PROVE  [Contract!Next]_(Contract!vars)
<1>0. PICK R \in SUBSET RunIds : R = {r \in RunIds : runs[r].def = d}
  OBVIOUS
<1>1. UNCHANGED payloads /\ runs' = RunsWithout(d)
  BY DEF Delete, history
<1>2. \A r \in RunIds : runs'[r] = IF r \in R THEN NoRun ELSE runs[r]
  BY <1>0, <1>1 DEF RunsWithout
<1>3. NoRun.status = "absent" /\ NoRun.payload = None
  BY DEF NoRun
<1>4. \A r \in RunIds :
         /\ runs'[r].status = IF r \in R THEN "absent" ELSE [q \in RunIds |-> runs[q].status][r]
         /\ runs'[r].payload = IF r \in R THEN None ELSE [q \in RunIds |-> runs[q].payload][r]
  BY <1>2, <1>3
<1>5. Contract!Forget(R)
  BY <1>1, <1>4 DEF Contract!Forget
<1>6. QED
  BY <1>5 DEF Contract!Next

LEMMA ContractStep ==
    ASSUME IInv, faults = 0 => OneDelivery, faults = 0, faults' = 0, [Next]_vars
    PROVE  [Contract!Next]_(Contract!vars)
<1>1. CASE \E w \in Workers : DatabaseFails(w) \/ Crash(w) \/ LockExpires(w)
  BY <1>1 DEF DatabaseFails, Crash, LockExpires
<1>2. CASE \/ NextDay
           \/ \E d \in Defs : Trigger(d)
           \/ \E w \in Workers :
                 \/ Skip(w) \/ Load(w) \/ LookUp(w) \/ Replay(w) \/ Fetch(w)
                 \/ Bill(w) \/ Ingest(w) \/ SaveDef(w)
           \/ \E o \in Operators : SavePatch(o)
           \/ \E o \in Operators, d \in Defs : ReadForPatch(o, d)
           \/ UNCHANGED vars
  BY <1>2, QuietTables, TablesStay
<1>3. CASE \E w \in Workers : StartRun(w) \/ Store(w) \/ SaveRun(w)
  BY <1>3, ContractBegins, ContractAnswers, ContractEnds
<1>4. CASE \E o \in Operators, d \in Defs : Delete(o, d)
  BY <1>4, ContractForgets
<1>5. QED
  BY <1>1, <1>2, <1>3, <1>4 DEF Next, Handle

\* A behaviour without faults keeps the contract of the two tables: a hash is
\* answered once and for good, a run ends once, and a success has its answer.
THEOREM ContractKept == Spec /\ [](faults = 0) => ContractSpec
<1>1. IInv /\ (faults = 0 => OneDelivery) /\ faults = 0 /\ (faults = 0)' /\ [Next]_vars
      => [Contract!Next]_(Contract!vars)
  BY ContractStep
<1>2. QED
  BY <1>1, ContractInit, Invariance, DeliveredOnce, PTL DEF Spec, ContractSpec, Contract!Spec

-----------------------------------------------------------------------------
\* The part of RunsFinish that needs no fairness: without faults a running row
\* is never left behind, and an execution has ever fewer steps to go.

\* Past StartRun: the execution's run row was inserted.
AtWork(w) == slot[w].pc \notin {"idle", "start"}

\* A run that is running is held by an execution that has yet to end it.
RunningIsHeld ==
    \A r \in RunIds :
        runs[r].status = "running" => \E w \in Workers : AtWork(w) /\ slot[w].id = r

\* What that rests on: a row has its definition, an execution works for the
\* definition its run names, and so the last save of the run is not refused.
RowsHaveDefinition ==
    \A r \in RunIds : runs[r].status # "absent" =>
        runs[r].def \in Defs /\ definitions[runs[r].def] # None
RunNamesJob == \A w \in Workers : AtWork(w) => slot[w].run.def = slot[w].job.def
HeldByJob ==
    \A r \in RunIds : runs[r].status = "running" =>
        \E w \in Workers : /\ AtWork(w) /\ slot[w].id = r
                           /\ slot[w].job.def = runs[r].def
Held == RowsHaveDefinition /\ RunNamesJob /\ HeldByJob

LEMMA HeldInit == Init => Held
<1> SUFFICES ASSUME Init PROVE Held
  OBVIOUS
<1>1. \A r \in RunIds : runs[r].status = "absent"
  BY RowTypes DEF Init
<1>2. \A w \in Workers : ~AtWork(w)
  BY RowTypes DEF Init, AtWork
<1>3. QED
  BY <1>1, <1>2 DEF Held, RowsHaveDefinition, RunNamesJob, HeldByJob

\* Days, jobs, patches and deletions, which take the runs of a definition along.
LEMMA HeldOutside ==
    ASSUME IInv, Held,
           \/ NextDay
           \/ \E d \in Defs : Trigger(d)
           \/ \E w \in Workers : Skip(w)
           \/ \E o \in Operators : SavePatch(o)
           \/ \E o \in Operators, d \in Defs : ReadForPatch(o, d) \/ Delete(o, d)
           \/ UNCHANGED vars
    PROVE  Held'
<1>1. slot' = slot
  BY DEF NextDay, Trigger, Skip, SavePatch, ReadForPatch, Delete, vars, tables, history
<1>2. CASE \E o \in Operators, d \in Defs : Delete(o, d)
  <2>1. PICK d \in Defs : /\ definitions' = [definitions EXCEPT ![d] = None]
                          /\ runs' = RunsWithout(d)
    BY <1>2 DEF Delete
  <2>2. \A r \in RunIds : /\ runs[r].def = d => runs'[r].status = "absent"
                          /\ runs[r].def # d => runs'[r] = runs[r]
    BY <2>1, RowTypes DEF RunsWithout
  <2>3. \A e \in Defs : e # d => definitions'[e] = definitions[e]
    BY <2>1 DEF IInv, TypeOK
  <2>4. RowsHaveDefinition'
    BY <2>2, <2>3 DEF Held, RowsHaveDefinition
  <2>5. RunNamesJob' /\ HeldByJob'
    BY <1>1, <2>2 DEF Held, RunNamesJob, HeldByJob, AtWork
  <2>6. QED
    BY <2>4, <2>5 DEF Held
<1>3. CASE ~\E o \in Operators, d \in Defs : Delete(o, d)
  <2>1. runs' = runs /\ \A d \in Defs : definitions[d] # None => definitions'[d] # None
    <3>1. CASE \E o \in Operators : SavePatch(o)
      <4>1. PICK o \in Operators : patch[o] # None /\ SavePatch(o)
        BY <3>1 DEF SavePatch
      <4>2. patch[o].row # None
        BY <4>1, NoneAssumption DEF IInv, TypeOK, Patch
      <4>3. QED
        BY <4>1, <4>2 DEF SavePatch, IInv, TypeOK
    <3>2. CASE ~\E o \in Operators : SavePatch(o)
      BY <1>3, <3>2 DEF NextDay, Trigger, Skip, ReadForPatch, vars, tables
    <3>3. QED
      BY <3>1, <3>2
  <2>2. QED
    BY <1>1, <2>1 DEF Held, RowsHaveDefinition, RunNamesJob, HeldByJob, AtWork
<1>4. QED
  BY <1>2, <1>3

\* An execution begins: its slot held nothing.
LEMMA HeldLoad ==
    ASSUME IInv, Held, NEW w \in Workers, Load(w)
    PROVE  Held'
<1>1. UNCHANGED <<definitions, runs>> /\ ~AtWork(w)
  BY DEF Load, tables, AtWork
<1>2. PICK t : t.pc = "start" /\ slot' = [slot EXCEPT ![w] = t]
  <2>1. PICK j \in queue \cup Ticks : \E r \in IF j.run = None THEN RunIds \ issued ELSE {j.run} :
           slot' = [slot EXCEPT ![w] = [Idle EXCEPT !.pc = "start", !.job = j, !.id = r,
                                                    !.def = definitions[j.def]]]
    BY DEF Load
  <2>2. PICK r :
           slot' = [slot EXCEPT ![w] = [Idle EXCEPT !.pc = "start", !.job = j, !.id = r,
                                                    !.def = definitions[j.def]]]
    BY <2>1
  <2> DEFINE t == [Idle EXCEPT !.pc = "start", !.job = j, !.id = r, !.def = definitions[j.def]]
  <2>3. t.pc = "start"
    BY DEF Idle
  <2> HIDE DEF t
  <2>4. QED
    BY <2>2, <2>3 DEF t
<1>3. slot'[w] = t /\ \A v \in Workers : v # w => slot'[v] = slot[v]
  BY <1>2 DEF IInv, TypeOK
<1>4. QED
  BY <1>1, <1>2, <1>3 DEF Held, RowsHaveDefinition, RunNamesJob, HeldByJob, AtWork

\* The run row is inserted, for a definition that is there; or the execution is over.
LEMMA HeldStartRun ==
    ASSUME IInv, OneDelivery, Held, NEW w \in Workers, StartRun(w)
    PROVE  Held'
<1> DEFINE s == slot[w]
           started == [NoRun EXCEPT !.status = "running", !.def = s.job.def]
<1>1. /\ Busy(w) /\ ~AtWork(w) /\ UNCHANGED definitions
      /\ \A v \in Workers : v # w => slot'[v] = slot[v]
  BY DEF StartRun, Busy, AtWork, IInv, TypeOK
<1>2. s \in Slot /\ s.id \in RunIds /\ runs \in [RunIds -> RunRow]
  BY <1>1, TryFacts DEF StartRun, IInv, TypeOK
<1>3. CASE slot' = [slot EXCEPT ![w] = Idle] /\ UNCHANGED runs
  <2>1. slot'[w] = Idle
    BY <1>3 DEF IInv, TypeOK
  <2>2. QED
    BY <1>1, <1>3, <2>1, RowTypes
       DEF Held, RowsHaveDefinition, RunNamesJob, HeldByJob, AtWork
<1>4. CASE /\ definitions[s.job.def] # None
           /\ runs' = [runs EXCEPT ![s.id] = started]
           /\ slot' = [slot EXCEPT ![w].pc = "lookup", ![w].run = started]
  <2>1. started.status = "running" /\ started.def = s.job.def /\ s.job.def \in Defs
    BY <1>2 DEF NoRun, Slot, Job
  <2>2. /\ slot'[w].pc = "lookup" /\ slot'[w].id = s.id /\ slot'[w].job = s.job
        /\ slot'[w].run = started
    BY <1>2, <1>4 DEF IInv, TypeOK, Slot
  <2> HIDE DEF started
  <2>3. runs'[s.id] = started /\ \A r \in RunIds : r # s.id => runs'[r] = runs[r]
    BY <1>2, <1>4
  <2>4. RowsHaveDefinition' /\ RunNamesJob'
    <3>1. ASSUME NEW r \in RunIds, runs'[r].status # "absent"
          PROVE  runs'[r].def \in Defs /\ definitions'[runs'[r].def] # None
      <4>1. CASE r = s.id
        BY <1>1, <1>4, <2>1, <2>3, <4>1
      <4>2. CASE r # s.id
        BY <1>1, <2>3, <3>1, <4>2 DEF Held, RowsHaveDefinition
      <4>3. QED
        BY <4>1, <4>2
    <3>2. ASSUME NEW v \in Workers, AtWork(v)' PROVE slot'[v].run.def = slot'[v].job.def
      <4>1. CASE v = w
        BY <2>1, <2>2, <4>1
      <4>2. CASE v # w
        BY <1>1, <3>2, <4>2 DEF Held, RunNamesJob, AtWork
      <4>3. QED
        BY <4>1, <4>2
    <3>3. QED
      BY <3>1, <3>2 DEF RowsHaveDefinition, RunNamesJob
  <2>5. ASSUME NEW r \in RunIds, runs'[r].status = "running"
        PROVE  \E v \in Workers : /\ AtWork(v)' /\ slot'[v].id = r
                                  /\ slot'[v].job.def = runs'[r].def
    <3>1. CASE r = s.id
      BY <2>1, <2>2, <2>3, <3>1 DEF AtWork
    <3>2. CASE r # s.id
      BY <1>1, <2>3, <2>5, <3>2 DEF Held, HeldByJob, AtWork
    <3>3. QED
      BY <3>1, <3>2
  <2>6. QED
    BY <2>4, <2>5 DEF Held, HeldByJob
<1>5. QED
  BY <1>3, <1>4 DEF StartRun

\* The steps in between keep run and job.
LEMMA HeldBetween ==
    ASSUME IInv, OneDelivery, Held, NEW w \in Workers,
           \/ LookUp(w) \/ Replay(w) \/ Fetch(w) \/ Store(w) \/ Bill(w)
           \/ Ingest(w) \/ SaveDef(w)
    PROVE  Held'
<1> DEFINE s == slot[w]
<1>1. /\ Busy(w) /\ AtWork(w) /\ UNCHANGED runs
      /\ \A v \in Workers : v # w => slot'[v] = slot[v]
  BY DEF LookUp, Replay, Fetch, Store, Bill, Ingest, SaveDef, Busy, AtWork, tables, IInv, TypeOK
<1>2. s \in Slot /\ slot \in [Workers -> Slot \cup {Idle}]
  BY <1>1, TryFacts DEF IInv, TypeOK
<1>3. /\ \A hit \in BOOLEAN : /\ Complete(s, hit).pc = "saveDef" /\ Complete(s, hit).id = s.id
                              /\ Complete(s, hit).job = s.job
                              /\ Complete(s, hit).run.def = s.run.def
      /\ \A error \in Errors : /\ Fail(s, error).pc = "saveDef" /\ Fail(s, error).id = s.id
                               /\ Fail(s, error).job = s.job
                               /\ Fail(s, error).run.def = s.run.def
  BY <1>2 DEF Complete, Fail, Slot, RunRow
<1>4. /\ slot'[w].pc \notin {"idle", "start"} /\ slot'[w].id = s.id
      /\ slot'[w].job = s.job /\ slot'[w].run.def = s.run.def
  <2>1. CASE LookUp(w)
    BY <1>2, <2>1 DEF LookUp, Slot
  <2>2. CASE Replay(w)
    BY <1>2, <1>3, <2>2 DEF Replay, Errors
  <2>3. CASE Fetch(w)
    BY <1>2, <1>3, <2>3 DEF Fetch, Slot
  <2>4. CASE Store(w) \/ Bill(w) \/ SaveDef(w)
    BY <1>2, <2>4 DEF Store, Bill, SaveDef, Slot
  <2>5. CASE Ingest(w)
    BY <1>2, <1>3, <2>5 DEF Ingest
  <2>6. QED
    BY <2>1, <2>2, <2>3, <2>4, <2>5
<1>5. \A d \in Defs : definitions[d] # None => definitions'[d] # None
  <2>1. CASE SaveDef(w)
    BY <1>2, <2>1, NoneAssumption DEF SaveDef, Slot, IInv, TypeOK
  <2>2. CASE ~SaveDef(w)
    BY <2>2 DEF LookUp, Replay, Fetch, Store, Bill, Ingest, tables
  <2>3. QED
    BY <2>1, <2>2
<1>6. \A v \in Workers : /\ AtWork(v)' <=> AtWork(v)
                         /\ slot'[v].id = slot[v].id /\ slot'[v].job = slot[v].job
                         /\ slot'[v].run.def = slot[v].run.def
  BY <1>1, <1>4 DEF AtWork
<1>7. QED
  BY <1>1, <1>5, <1>6 DEF Held, RowsHaveDefinition, RunNamesJob, HeldByJob

\* The last save is only refused when the run was deleted meanwhile.
LEMMA HeldSaveRun ==
    ASSUME IInv, OneDelivery, Held, NEW w \in Workers, SaveRun(w)
    PROVE  Held'
<1> DEFINE s == slot[w]
<1>1. /\ Busy(w) /\ AtWork(w) /\ s.pc = "saveRun" /\ UNCHANGED definitions
      /\ slot'[w] = Idle /\ \A v \in Workers : v # w => slot'[v] = slot[v]
  BY DEF SaveRun, Busy, AtWork, IInv, TypeOK
<1>2. /\ s \in Slot /\ s.id \in RunIds /\ FirstTry(s, runs[s.id], billed)
      /\ Sound(s, payloads, billed, ingested) /\ runs \in [RunIds -> RunRow]
  BY <1>1, TryFacts
<1>3. /\ s.run.status \in {"succeeded", "failed"} /\ s.run.def = s.job.def
      /\ s.run.payload \in payloads \cup {None} /\ s.job.def \in Defs
  BY <1>1, <1>2 DEF FirstTry, Sound, Held, RunNamesJob, Slot, Job
<1>4. \A r \in RunIds : r # s.id => runs'[r] = runs[r]
  BY <1>2 DEF SaveRun
<1>5. ~AtWork(w)' /\ \A v \in Workers : v # w => (AtWork(v)' <=> AtWork(v))
  BY <1>1, RowTypes DEF AtWork
<1>6. runs'[s.id].status # "running"
  <2>1. CASE ForeignKeysHold(s)
    BY <1>2, <1>3, <2>1 DEF SaveRun
  <2>2. CASE ~ForeignKeysHold(s)
    <3>1. definitions[s.job.def] = None /\ runs' = runs
      BY <1>3, <2>2 DEF SaveRun, ForeignKeysHold
    <3>2. ASSUME runs[s.id].status = "running" PROVE FALSE
      <4>1. PICK v \in Workers : AtWork(v) /\ slot[v].id = s.id /\ slot[v].job.def = runs[s.id].def
        BY <1>2, <3>2 DEF Held, HeldByJob
      <4>2. v = w
        BY <1>1, <4>1 DEF OneDelivery, Busy, AtWork
      <4>3. QED
        BY <1>2, <3>1, <3>2, <4>1, <4>2 DEF Held, RowsHaveDefinition
    <3>3. QED
      BY <3>1, <3>2
  <2>3. QED
    BY <2>1, <2>2
<1>7. RowsHaveDefinition'
  <2>1. CASE ForeignKeysHold(s)
    BY <1>1, <1>2, <1>3, <1>4, <2>1
       DEF SaveRun, ForeignKeysHold, Held, RowsHaveDefinition
  <2>2. CASE ~ForeignKeysHold(s)
    BY <1>1, <2>2 DEF SaveRun, Held, RowsHaveDefinition
  <2>3. QED
    BY <2>1, <2>2
<1>8. RunNamesJob'
  BY <1>1, <1>5 DEF Held, RunNamesJob
<1>9. HeldByJob'
  <2>1. \A r \in RunIds : runs'[r].status = "running" => r # s.id /\ runs'[r] = runs[r]
    BY <1>4, <1>6
  <2>2. QED
    BY <1>1, <1>5, <2>1 DEF Held, HeldByJob
<1>10. QED
  BY <1>7, <1>8, <1>9 DEF Held

LEMMA HeldInductive ==
    ASSUME IInv, faults = 0 => OneDelivery, faults = 0 => Held, [Next]_vars
    PROVE  faults' = 0 => Held'
<1>1. CASE \E w \in Workers : DatabaseFails(w) \/ Crash(w) \/ LockExpires(w)
  BY <1>1 DEF DatabaseFails, Crash, LockExpires, IInv, TypeOK
<1>2. CASE \/ NextDay
           \/ \E d \in Defs : Trigger(d)
           \/ \E w \in Workers : Skip(w)
           \/ \E o \in Operators : SavePatch(o)
           \/ \E o \in Operators, d \in Defs : ReadForPatch(o, d) \/ Delete(o, d)
           \/ UNCHANGED vars
  <2>1. faults' = faults
    BY <1>2 DEF NextDay, Trigger, Skip, SavePatch, ReadForPatch, Delete, vars
  <2>2. QED
    BY <1>2, <2>1, HeldOutside
<1>3. CASE \E w \in Workers : Load(w) \/ Handle(w)
  <2>1. faults' = faults
    BY <1>3 DEF Load, Handle, StartRun, LookUp, Replay, Fetch, Store, Bill, Ingest, SaveDef,
                SaveRun
  <2>2. QED
    BY <1>3, <2>1, HeldLoad, HeldStartRun, HeldBetween, HeldSaveRun DEF Handle
<1>4. QED
  BY <1>1, <1>2, <1>3 DEF Next

\* Until something fails, no running row is left behind, whatever is deleted, patched or
\* triggered meanwhile: the row ends with the execution that holds it, or was deleted.
THEOREM RunsHeld == Spec => [](faults = 0 => RunningIsHeld)
<1>1. Init => (faults = 0 => Held)
  BY HeldInit
<1>2. IInv /\ (faults = 0 => OneDelivery) /\ (faults = 0 => Held) /\ [Next]_vars
      => (faults = 0 => Held)'
  BY HeldInductive
<1>3. (faults = 0 => Held) => (faults = 0 => RunningIsHeld)
  BY DEF Held, HeldByJob, RunningIsHeld
<1>4. QED
  BY <1>1, <1>2, <1>3, Invariance, DeliveredOnce, PTL DEF Spec

\* The most steps an execution has to go.
StepsLeft(pc) ==
    CASE pc = "start" -> 8
      [] pc = "lookup" -> 7
      [] pc = "fetch" -> 6
      [] pc = "store" -> 5
      [] pc = "bill" -> 4
      [] pc \in {"replay", "ingest"} -> 3
      [] pc = "saveDef" -> 2
      [] pc = "saveRun" -> 1
      [] OTHER -> 0

\* No execution ever goes back: whatever step is taken, by it or by others, it
\* stays where it is or has fewer steps left.
ExecutionsShorten ==
    [][\A w \in Workers : Busy(w) =>
          \/ slot'[w].pc = slot[w].pc
          \/ StepsLeft(slot'[w].pc) < StepsLeft(slot[w].pc)]_vars

LEMMA Shortens ==
    ASSUME IInv, [Next]_vars, NEW w \in Workers, Busy(w)
    PROVE  \/ slot'[w].pc = slot[w].pc
           \/ StepsLeft(slot'[w].pc) < StepsLeft(slot[w].pc)
<1>1. slot \in [Workers -> Slot \cup {Idle}] /\ slot[w] \in Slot /\ Idle.pc = "idle"
  BY BusySlot, RowTypes DEF IInv, TypeOK, SlotsSound, Busy
<1>2. /\ \A hit \in BOOLEAN : Complete(slot[w], hit).pc = "saveDef"
      /\ \A error \in Errors : Fail(slot[w], error).pc = "saveDef"
  BY <1>1, CompleteFacts, FailFacts
<1>3. CASE UNCHANGED slot
  BY <1>3
<1>4. ASSUME NEW v \in Workers, v # w,
             Load(v) \/ Handle(v) \/ DatabaseFails(v) \/ Crash(v) \/ LockExpires(v)
      PROVE  slot'[w] = slot[w]
  BY <1>1, <1>4 DEF Load, Handle, DatabaseFails, Crash, LockExpires, StartRun, LookUp, Replay,
                    Fetch, Store, Bill, Ingest, SaveDef, SaveRun
<1>5. CASE Load(w)
  BY <1>5 DEF Load, Busy
<1>6. CASE StartRun(w)
  BY <1>1, <1>6 DEF StartRun, Slot, StepsLeft
<1>7. CASE LookUp(w)
  BY <1>1, <1>7 DEF LookUp, Slot, StepsLeft
<1>8. CASE Replay(w) \/ Ingest(w)
  <2>1. slot[w].pc \in {"replay", "ingest"} /\ slot'[w].pc = "saveDef"
    BY <1>1, <1>2, <1>8 DEF Replay, Ingest, Errors
  <2>2. QED
    BY <2>1 DEF StepsLeft
<1>9. CASE Fetch(w)
  BY <1>1, <1>2, <1>9 DEF Fetch, Slot, StepsLeft
<1>10. CASE Store(w) \/ Bill(w)
  BY <1>1, <1>10 DEF Store, Bill, Slot, StepsLeft
<1>11. CASE SaveDef(w) \/ SaveRun(w)
  BY <1>1, <1>11 DEF SaveDef, SaveRun, Slot, StepsLeft
<1>12. CASE DatabaseFails(w) \/ Crash(w)
  BY <1>1, <1>2, <1>12 DEF DatabaseFails, Crash, Errors, Busy, Slot, PC, StepsLeft
<1>13. CASE LockExpires(w)
  BY <1>1, <1>13 DEF LockExpires, Slot
<1>14. CASE \/ NextDay
            \/ \E d \in Defs : Trigger(d)
            \/ \E v \in Workers : Skip(v)
            \/ \E o \in Operators : SavePatch(o)
            \/ \E o \in Operators, d \in Defs : ReadForPatch(o, d) \/ Delete(o, d)
            \/ UNCHANGED vars
  BY <1>14 DEF NextDay, Trigger, Skip, SavePatch, ReadForPatch, Delete, vars
<1>15. QED
  BY <1>4, <1>5, <1>6, <1>7, <1>8, <1>9, <1>10, <1>11, <1>12, <1>13, <1>14 DEF Next, Handle

\* With RunsHeld, what RunsFinish leaves to fairness is that the execution goes on: it
\* cannot be sent back, and nine steps are the most it takes.
THEOREM ExecutionsEnd == Spec => ExecutionsShorten
<1>1. IInv /\ [Next]_vars =>
      [\A w \in Workers : Busy(w) =>
          \/ slot'[w].pc = slot[w].pc
          \/ StepsLeft(slot'[w].pc) < StepsLeft(slot[w].pc)]_vars
  BY Shortens
<1>2. QED
  BY <1>1, Invariance, PTL DEF Spec, ExecutionsShorten
=============================================================================
