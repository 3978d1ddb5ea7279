---------------------------- MODULE IngestProofs ----------------------------
(***************************************************************************)
(* Proofs about Pipeline and its LocationStore, for any sets of driver ids *)
(* and tenants, any TTL and any number of pings, ticks, faults and late    *)
(* pipelines; then about Ingest, which extends it, for any number of       *)
(* clients, any MaxConnections and any history of signals, timeouts and    *)
(* faults.                                                                 *)
(***************************************************************************)
EXTENDS Ingest, FiniteSetTheorems, TLAPS

-----------------------------------------------------------------------------
(* The pipeline: its inductive invariant *)

\* A position that is somewhere on its way to the store was reported by a ping,
\* and the last ping of its driver is no older.
Reported(l) == pinged[l.id] # None /\ l.at <= pinged[l.id]

AllReported(locs) == \A l \in locs : Reported(l)

\* Nobody was heard of in the future.
PingedBefore == \A d \in Ids : pinged[d] # None => pinged[d] <= now

\* Every copy of a position: the window, a flush, a write under way, one that
\* outlived its caller.
OnTheWay ==
  /\ AllReported(buffer) /\ AllReported(batch) /\ AllReported(job)
  /\ \A p \in late : AllReported(p.locs)

\* What the store says of a driver was reported.
StoredReported ==
  \A d \in Ids : seen[d] # None => pinged[d] # None /\ seen[d] <= pinged[d]

BufferFinite == IsFiniteSet(buffer)

PInv ==
  /\ PipelineTypeOK
  /\ BufferFinite
  /\ PingedBefore
  /\ OnTheWay
  /\ StoredReported

-----------------------------------------------------------------------------
(* Redis commands *)

\* A write of reported positions stamps drivers with times that were reported.
LEMMA StampedReported ==
  ASSUME PInv, NEW locs \in SUBSET Location, AllReported(locs)
  PROVE  /\ Stamped(locs) \in [Ids -> 0..MaxTime \cup {None}]
         /\ \A d \in Ids : Stamped(locs)[d] # None =>
              pinged[d] # None /\ Stamped(locs)[d] <= pinged[d]
<1>1. SUFFICES ASSUME NEW d \in Ids
               PROVE  /\ Stamped(locs)[d] \in 0..MaxTime \cup {None}
                      /\ Stamped(locs)[d] # None =>
                           pinged[d] # None /\ Stamped(locs)[d] <= pinged[d]
  BY DEF Stamped
<1>2. CASE \E l \in locs : l.id = d
  <2> DEFINE m == CHOOSE l \in locs : l.id = d
  <2>1. m \in locs /\ m.id = d
    BY <1>2
  <2>2. Stamped(locs)[d] = m.at
    BY <1>2 DEF Stamped
  <2> QED
    BY <2>1, <2>2 DEF AllReported, Reported, Location
<1>3. CASE ~ \E l \in locs : l.id = d
  BY <1>3 DEF Stamped, PInv, PipelineTypeOK, StoreTypeOK, StoredReported
<1> QED
  BY <1>2, <1>3

\* GEOADD keeps the type of the positions.
LEMMA PlacedType ==
  ASSUME PInv, NEW locs \in SUBSET Location
  PROVE  Placed(locs) \in [Ids -> Location \cup {None}]
<1>1. SUFFICES ASSUME NEW d \in Ids
               PROVE  Placed(locs)[d] \in Location \cup {None}
  BY DEF Placed
<1>2. CASE \E l \in locs : l.id = d
  <2>1. (CHOOSE l \in locs : l.id = d) \in locs
    BY <1>2
  <2> QED
    BY <1>2, <2>1 DEF Placed
<1>3. CASE ~ \E l \in locs : l.id = d
  BY <1>3 DEF Placed, PInv, PipelineTypeOK, StoreTypeOK
<1> QED
  BY <1>2, <1>3
-----------------------------------------------------------------------------
(* The actions *)

\* What a step must show when no driver pings and time stands still.
LEMMA QuietInv ==
  ASSUME PInv, UNCHANGED <<now, pinged, pings>>,
         PipelineTypeOK', BufferFinite',
         AllReported(buffer'), AllReported(batch'), AllReported(job'),
         \A p \in late' : AllReported(p.locs),
         \A d \in Ids : seen'[d] # None => pinged[d] # None /\ seen'[d] <= pinged[d]
  PROVE  PInv'
BY DEF PInv, PingedBefore, OnTheWay, StoredReported, AllReported, Reported

\* A set takes one element more when there is room, or when it loses one.
LEMMA RoomForOne ==
  ASSUME NEW S, IsFiniteSet(S), NEW O \in SUBSET S, NEW x, NEW n \in Nat,
         Cardinality(S) <= n, O # {} \/ Cardinality(S) < n
  PROVE  /\ IsFiniteSet((S \ O) \cup {x})
         /\ Cardinality((S \ O) \cup {x}) <= n
<1> DEFINE K == S \ O
<1>1. K \in SUBSET S /\ (O # {} => K # S)
  OBVIOUS
<1> HIDE DEF K
<1>2. IsFiniteSet(K) /\ Cardinality(S) \in Nat /\ Cardinality(K) \in Nat
  BY <1>1, FS_Subset, FS_CardinalityType
<1>3. Cardinality(K) <= Cardinality(S) /\ (Cardinality(S) = Cardinality(K) => S = K)
  BY <1>1, FS_Subset
<1>4. Cardinality(K) < n
  BY <1>1, <1>2, <1>3
<1>5. /\ IsFiniteSet(K \cup {x})
      /\ Cardinality(K \cup {x}) = IF x \in K THEN Cardinality(K) ELSE Cardinality(K) + 1
  BY <1>2, FS_AddElement
<1>6. Cardinality(K \cup {x}) <= n
  BY <1>2, <1>4, <1>5
<1> QED
  BY <1>5, <1>6 DEF K

\* Accept and the rest of Ping.
LEMMA PingInv ==
  ASSUME PInv, NEW t \in Tenants, Ping(t)
  PROVE  PInv'
<1> PICK d \in Ids, polar \in BOOLEAN :
      /\ Accept([tenant |-> t, id |-> d, at |-> now, polar |-> polar])
      /\ pinged' = [pinged EXCEPT ![d] = now]
  BY DEF Ping
<1> DEFINE l == [tenant |-> t, id |-> d, at |-> now, polar |-> polar]
           older == {m \in buffer : SameDriver(l, m)}
<1>1. l \in Location
  BY DEF PInv, PipelineTypeOK, StoreTypeOK, Location
<1>2. buffer' = IF older = {} /\ Cardinality(buffer) >= MaxBufferedDrivers
                THEN buffer ELSE (buffer \ older) \cup {l}
  BY DEF Accept
<1>3. IsFiniteSet(buffer) /\ Cardinality(buffer) <= MaxBufferedDrivers
  BY DEF PInv, PipelineTypeOK, BufferFinite
<1>4. /\ IsFiniteSet(buffer')
      /\ Cardinality(buffer') <= MaxBufferedDrivers
      /\ buffer' \subseteq buffer \cup {l}
  <2>1. CASE older = {} /\ Cardinality(buffer) >= MaxBufferedDrivers
    BY <1>2, <1>3, <2>1
  <2>2. CASE older # {} \/ Cardinality(buffer) < MaxBufferedDrivers
    <3>1. buffer' = (buffer \ older) \cup {l}
      BY <1>2, <1>3, <2>2, FS_CardinalityType, PipelineAssumption
    <3>2. older \subseteq buffer
      OBVIOUS
    <3> HIDE DEF l, older
    <3>3. /\ IsFiniteSet((buffer \ older) \cup {l})
          /\ Cardinality((buffer \ older) \cup {l}) <= MaxBufferedDrivers
      BY <1>3, <2>2, <3>2, RoomForOne, PipelineAssumption
    <3> QED
      BY <3>1, <3>3
  <2> QED
    BY <1>3, <2>1, <2>2, FS_CardinalityType, PipelineAssumption
<1>5. PipelineTypeOK'
  <2>1. StoreTypeOK'
    BY DEF Ping, PInv, PipelineTypeOK, StoreTypeOK, storeVars
  <2>2. buffer' \subseteq Location
    BY <1>1, <1>4 DEF PInv, PipelineTypeOK
  <2>3. pinged' \in [Ids -> 0..MaxTime \cup {None}] /\ pings' \in 0..MaxPings
    BY PipelineAssumption DEF Ping, PInv, PipelineTypeOK, StoreTypeOK
  <2>4. UNCHANGED <<batch, pipe, cancelled>>
    BY DEF Ping
  <2> QED
    BY <1>4, <2>1, <2>2, <2>3, <2>4 DEF PInv, PipelineTypeOK
<1>6. \A m \in Location : Reported(m) => Reported(m)'
  BY StoreAssumption
  DEF Reported, PInv, PipelineTypeOK, StoreTypeOK, PingedBefore, Location
<1>7. now' = now /\ Reported(l)'
  BY StoreAssumption DEF Ping, storeVars, Reported, PInv, PipelineTypeOK, StoreTypeOK
<1>8. OnTheWay'
  BY <1>4, <1>6, <1>7
  DEF Ping, PInv, PipelineTypeOK, StoreTypeOK, OnTheWay, AllReported, storeVars
<1>9. StoredReported' /\ PingedBefore'
  BY StoreAssumption
  DEF Ping, PInv, PipelineTypeOK, StoreTypeOK, StoredReported, PingedBefore, storeVars
<1> QED
  BY <1>4, <1>5, <1>8, <1>9 DEF PInv, BufferFinite

\* A flush takes the window over, or what is left of its work is dropped.
LEMMA StartFlushInv ==
  ASSUME PInv, NEW as \in {"flush", "last"}, NEW after \in {"wait", "done"},
         StartFlush(as, after)
  PROVE  PInv'
<1>1. /\ batch' = buffer /\ buffer' = {}
      /\ pipe' \in {"wait", "flush", "last", "done"}
      /\ UNCHANGED <<storeVars, cancelled, history>>
  BY DEF StartFlush
<1>2. IsFiniteSet({}) /\ Cardinality({}) = 0
  BY FS_EmptySet
<1>3. PipelineTypeOK'
  <2>1. StoreTypeOK'
    BY <1>1 DEF PInv, PipelineTypeOK, StoreTypeOK, storeVars
  <2> QED
    BY <1>1, <1>2, <2>1, PipelineAssumption DEF PInv, PipelineTypeOK, history
<1> QED
  BY <1>1, <1>2, <1>3, QuietInv
  DEF PInv, BufferFinite, OnTheWay, AllReported, StoredReported, storeVars, history

\* A flush that turns to its next tenant keeps the invariant.
LEMMA WriteTenantInv ==
  ASSUME PInv, NEW t \in Tenants, WriteTenant(t)
  PROVE  PInv'
<1> DEFINE locs == {l \in batch : l.tenant = t}
<1>1. /\ job' \in {locs, job} /\ stage' \in {"geo", stage}
      /\ batch' = batch \ locs
      /\ UNCHANGED <<now, geo, seen, late, reap, doomed, faults>>
      /\ UNCHANGED <<buffer, pipe, cancelled, pinged, pings>>
  BY DEF WriteTenant, UpsertMany, history
<1>2. job' \subseteq batch \cup job /\ batch' \subseteq batch
  BY <1>1
<1> HIDE DEF locs
<1>3. PipelineTypeOK'
  <2>1. StoreTypeOK'
    BY <1>1, <1>2 DEF PInv, PipelineTypeOK, StoreTypeOK
  <2> QED
    BY <1>1, <1>2, <2>1 DEF PInv, PipelineTypeOK
<1> QED
  BY <1>1, <1>2, <1>3, QuietInv
  DEF PInv, BufferFinite, OnTheWay, AllReported, StoredReported

\* The steps that move neither a position nor the clock.
LEMMA IdleInv ==
  ASSUME PInv, EndFlush \/ Signal
  PROVE  PInv'
<1>1. /\ UNCHANGED <<storeVars, buffer, batch, history>>
      /\ pipe' \in {pipe, "wait", "done"} /\ cancelled' \in BOOLEAN
  BY DEF EndFlush, Signal, pipeVars, PInv, PipelineTypeOK
<1>2. PipelineTypeOK'
  <2>1. StoreTypeOK'
    BY <1>1 DEF PInv, PipelineTypeOK, StoreTypeOK, storeVars
  <2> QED
    BY <1>1, <2>1 DEF PInv, PipelineTypeOK, history
<1> QED
  BY <1>1, <1>2, QuietInv
  DEF PInv, BufferFinite, OnTheWay, AllReported, StoredReported, storeVars, history

\* What a step of the store must show when the pipeline stands by.
LEMMA StoreStepInv ==
  ASSUME PInv, Alone, now' = now, StoreTypeOK', AllReported(job'),
         \A p \in late' : AllReported(p.locs),
         \A d \in Ids : seen'[d] # None => pinged[d] # None /\ seen'[d] <= pinged[d]
  PROVE  PInv'
<1>1. UNCHANGED <<buffer, batch, pipe, cancelled, pinged, pings>>
  BY DEF Alone, pipeVars, history
<1>2. PipelineTypeOK'
  BY <1>1 DEF PInv, PipelineTypeOK
<1> QED
  BY <1>1, <1>2, QuietInv DEF PInv, BufferFinite, OnTheWay, AllReported

\* The commands of UpsertMany's pipeline, and how it can go wrong.
LEMMA WriteStepInv ==
  ASSUME PInv, WriteStep
  PROVE  PInv'
<1>1. /\ StoreTypeOK /\ AllReported(job) /\ (\A p \in late : AllReported(p.locs))
      /\ \A d \in Ids : seen[d] # None => pinged[d] # None /\ seen[d] <= pinged[d]
  BY DEF PInv, PipelineTypeOK, OnTheWay, StoredReported
<1>2. /\ Placed(job) \in [Ids -> Location \cup {None}]
      /\ Stamped(job) \in [Ids -> 0..MaxTime \cup {None}]
      /\ \A d \in Ids : Stamped(job)[d] # None =>
           pinged[d] # None /\ Stamped(job)[d] <= pinged[d]
  <2>1. job \in SUBSET Location
    BY <1>1 DEF StoreTypeOK
  <2> QED
    BY <1>1, <2>1, PlacedType, StampedReported
<1>3. AllReported({})
  BY DEF AllReported
<1>4. /\ now' = now /\ UNCHANGED <<reap, doomed>> /\ Alone
      /\ stage' \in {"idle", "geo", "seen"}
      /\ job' \in {{}, job}
      /\ geo' \in {geo, Placed(job)} /\ seen' \in {seen, Stamped(job)}
      /\ faults' \in 0..MaxFaults
      /\ late' \in {late, late \cup {[locs |-> job, next |-> stage]}}
      /\ late' # late => stage \in {"geo", "seen"}
  BY <1>1, StoreAssumption
  DEF WriteStep, WriteGeo, WriteSeen, WriteCancelled, WriteFails, WriteReplyLost,
      RetryOrNot, Fault, StoreTypeOK
<1>5. StoreTypeOK'
  <2>1. late' \subseteq [locs : SUBSET Location, next : {"geo", "seen"}]
    BY <1>1, <1>4 DEF StoreTypeOK
  <2>2. geo' \in [Ids -> Location \cup {None}] /\ seen' \in [Ids -> 0..MaxTime \cup {None}]
    BY <1>1, <1>2, <1>4 DEF StoreTypeOK
  <2> QED
    BY <1>1, <1>4, <2>1, <2>2 DEF StoreTypeOK
<1>6. AllReported(job') /\ \A p \in late' : AllReported(p.locs)
  BY <1>1, <1>3, <1>4
<1>7. \A d \in Ids : seen'[d] # None => pinged[d] # None /\ seen'[d] <= pinged[d]
  BY <1>1, <1>2, <1>4
<1> QED
  BY <1>4, <1>5, <1>6, <1>7, StoreStepInv

\* A write that was given up and runs late keeps the invariant.
LEMMA LateStepInv ==
  ASSUME PInv, LateStep
  PROVE  PInv'
<1> PICK p \in late : LateWrite(p)
  BY DEF LateStep
<1>1. /\ StoreTypeOK /\ AllReported(job) /\ (\A q \in late : AllReported(q.locs))
      /\ \A d \in Ids : seen[d] # None => pinged[d] # None /\ seen[d] <= pinged[d]
  BY DEF PInv, PipelineTypeOK, OnTheWay, StoredReported
<1>2. p \in [locs : SUBSET Location, next : {"geo", "seen"}]
  BY <1>1 DEF StoreTypeOK
<1>3. /\ Placed(p.locs) \in [Ids -> Location \cup {None}]
      /\ Stamped(p.locs) \in [Ids -> 0..MaxTime \cup {None}]
      /\ \A d \in Ids : Stamped(p.locs)[d] # None =>
           pinged[d] # None /\ Stamped(p.locs)[d] <= pinged[d]
  <2>1. p.locs \in SUBSET Location /\ AllReported(p.locs)
    BY <1>1, <1>2
  <2> QED
    BY <2>1, PlacedType, StampedReported
<1> DEFINE q == [p EXCEPT !.next = "seen"]
<1>4. q \in [locs : SUBSET Location, next : {"geo", "seen"}] /\ q.locs = p.locs
  BY <1>2
<1> HIDE DEF q
<1>5. /\ UNCHANGED <<now, job, stage, reap, doomed, faults>> /\ Alone
      /\ geo' \in {geo, Placed(p.locs)} /\ seen' \in {seen, Stamped(p.locs)}
      /\ late' \subseteq late \cup {q}
  BY DEF LateStep, LateWrite, q
<1>6. StoreTypeOK'
  BY <1>1, <1>3, <1>4, <1>5 DEF StoreTypeOK
<1>7. AllReported(job') /\ \A r \in late' : AllReported(r.locs)
  BY <1>1, <1>4, <1>5
<1>8. \A d \in Ids : seen'[d] # None => pinged[d] # None /\ seen'[d] <= pinged[d]
  BY <1>1, <1>3, <1>5
<1> QED
  BY <1>5, <1>6, <1>7, <1>8, StoreStepInv

\* The reaper only deletes.
LEMMA ReapStepInv ==
  ASSUME PInv, ReapStep
  PROVE  PInv'
<1> DEFINE unseen == [d \in Ids |-> IF d \in doomed THEN None ELSE seen[d]]
           ungeo  == [d \in Ids |-> IF d \in doomed THEN None ELSE geo[d]]
<1>1. /\ StoreTypeOK /\ AllReported(job) /\ (\A p \in late : AllReported(p.locs))
      /\ \A d \in Ids : seen[d] # None => pinged[d] # None /\ seen[d] <= pinged[d]
  BY DEF PInv, PipelineTypeOK, OnTheWay, StoredReported
<1>2. /\ ungeo \in [Ids -> Location \cup {None}]
      /\ unseen \in [Ids -> 0..MaxTime \cup {None}]
      /\ \A d \in Ids : unseen[d] # None => pinged[d] # None /\ unseen[d] <= pinged[d]
  BY <1>1 DEF StoreTypeOK
<1>3. /\ UNCHANGED <<now, job, stage, late>> /\ Alone
      /\ reap' \in {"wait", "geo", "seen", "done"}
      /\ doomed' \in {{}, doomed, Stale}
      /\ geo' \in {geo, ungeo} /\ seen' \in {seen, unseen}
      /\ faults' \in 0..MaxFaults
  BY <1>1, StoreAssumption
  DEF ReapStep, Scan, ReapGeo, ReapSeen, ReapFails, ReaperStops, Fault, StoreTypeOK
<1> HIDE DEF unseen, ungeo
<1>4. Stale \subseteq Ids
  BY DEF Stale
<1>5. StoreTypeOK'
  BY <1>1, <1>2, <1>3, <1>4 DEF StoreTypeOK
<1>6. \A d \in Ids : seen'[d] # None => pinged[d] # None /\ seen'[d] <= pinged[d]
  BY <1>1, <1>2, <1>3
<1> QED
  BY <1>1, <1>3, <1>5, <1>6, StoreStepInv

\* The passing of time keeps the invariant.
LEMMA TickStepInv ==
  ASSUME PInv, TickStep
  PROVE  PInv'
<1>1. /\ UNCHANGED <<geo, seen, job, stage, late, reap, doomed, faults>>
      /\ UNCHANGED <<buffer, batch, pipe, cancelled, pinged, pings>>
      /\ now < MaxTime /\ now' = now + 1
  BY DEF TickStep, Tick, Alone, pipeVars, history
<1>2. PipelineTypeOK'
  <2>1. StoreTypeOK'
    BY <1>1, StoreAssumption DEF PInv, PipelineTypeOK, StoreTypeOK
  <2> QED
    BY <1>1, <2>1 DEF PInv, PipelineTypeOK
<1>3. PingedBefore'
  BY <1>1, StoreAssumption DEF PInv, PipelineTypeOK, StoreTypeOK, PingedBefore
<1>4. BufferFinite' /\ OnTheWay' /\ StoredReported'
  BY <1>1 DEF PInv, BufferFinite, OnTheWay, AllReported, Reported, StoredReported
<1> QED
  BY <1>2, <1>3, <1>4 DEF PInv

-----------------------------------------------------------------------------
(* Theorems *)

\* The invariant holds at first.
LEMMA PipelineInitInv == PipelineInit => PInv
<1> SUFFICES ASSUME PipelineInit PROVE PInv
  OBVIOUS
<1>1. IsFiniteSet({}) /\ Cardinality({}) = 0
  BY FS_EmptySet
<1>2. PipelineTypeOK
  <2>1. StoreTypeOK
    BY StoreAssumption DEF PipelineInit, StoreInit, StoreTypeOK
  <2>2. buffer \subseteq Location /\ batch \subseteq Location
    BY DEF PipelineInit
  <2>3. Cardinality(buffer) <= MaxBufferedDrivers
    BY <1>1, PipelineAssumption DEF PipelineInit
  <2>4. pinged \in [Ids -> 0..MaxTime \cup {None}] /\ pings \in 0..MaxPings
    BY PipelineAssumption DEF PipelineInit
  <2> QED
    BY <2>1, <2>2, <2>3, <2>4 DEF PipelineInit, PipelineTypeOK
<1> QED
  BY <1>1, <1>2
  DEF PipelineInit, StoreInit, PInv, BufferFinite, PingedBefore, OnTheWay,
      AllReported, StoredReported

\* The steps the pipeline and the store take without a ping, in this
\* specification and in ingestd's.
LEMMA BackgroundInv ==
  ASSUME PInv, FlushStep \/ ReapStep \/ LateStep \/ TickStep \/ Signal
  PROVE  PInv'
<1>1. CASE TickFlush
  BY <1>1, StartFlushInv DEF TickFlush
<1>2. CASE FinalFlush
  BY <1>2, StartFlushInv DEF FinalFlush
<1>3. CASE EndFlush \/ Signal
  BY <1>3, IdleInv
<1>4. CASE \E t \in Tenants : WriteTenant(t)
  BY <1>4, WriteTenantInv
<1>5. CASE WriteStep
  BY <1>5, WriteStepInv
<1>6. CASE ReapStep \/ LateStep \/ TickStep
  BY <1>6, ReapStepInv, LateStepInv, TickStepInv
<1> QED
  BY <1>1, <1>2, <1>3, <1>4, <1>5, <1>6 DEF FlushStep

\* A step that leaves the pipeline alone keeps its invariant.
LEMMA PipelineStutterInv ==
  ASSUME PInv, UNCHANGED pipelineVars
  PROVE  PInv'
<1>1. /\ UNCHANGED <<now, geo, seen, job, stage, late, reap, doomed, faults>>
      /\ UNCHANGED <<buffer, batch, pipe, cancelled, pinged, pings>>
  BY DEF pipelineVars, storeVars, pipeVars, history
<1>2. PipelineTypeOK'
  BY <1>1 DEF PInv, PipelineTypeOK, StoreTypeOK
<1> QED
  BY <1>1, <1>2, QuietInv DEF PInv, BufferFinite, OnTheWay, AllReported, StoredReported

\* The invariant holds always.
LEMMA PipelineInvariant == PipelineSpec => []PInv
<1>1. PInv /\ [PipelineNext]_pipelineVars => PInv'
  <2> SUFFICES ASSUME PInv, [PipelineNext]_pipelineVars PROVE PInv'
    OBVIOUS
  <2>1. CASE \E t \in Tenants : Ping(t)
    BY <2>1, PingInv
  <2>2. CASE FlushStep \/ ReapStep \/ LateStep \/ TickStep \/ Signal
    BY <2>2, BackgroundInv
  <2>3. CASE UNCHANGED pipelineVars
    BY <2>3, PipelineStutterInv
  <2> QED
    BY <2>1, <2>2, <2>3 DEF PipelineNext
<1> QED
  BY PipelineInitInv, <1>1, PTL DEF PipelineSpec

\* The type invariant, with the bound of the window: Accept never lets the
\* buffer grow past MaxBufferedDrivers.
THEOREM PipelineTypeCorrect == PipelineSpec => []PipelineTypeOK
BY PipelineInvariant, PTL DEF PInv

\* Whatever is buffered, retried, given up and written late, dropped or reaped
\* in between: a driver that nearby searches return pinged within the TTL.
THEOREM PipelineFresh == PipelineSpec => []FreshMeansPinged
<1>1. PInv => FreshMeansPinged
  BY StoreAssumption
  DEF PInv, PipelineTypeOK, StoreTypeOK, StoredReported, FreshMeansPinged, Matchable
<1> QED
  BY <1>1, PipelineInvariant, PTL

\* The reaper's cutoff and the readers' meet without overlap: no sweep starts
\* on a driver that reads still return.
THEOREM PipelineSweep == PipelineSpec => SweepSparesFresh
<1>1. PInv /\ [PipelineNext]_pipelineVars =>
        [reap = "wait" /\ reap' = "geo" => \A d \in doomed' : ~Matchable(d)]_pipelineVars
  <2> SUFFICES ASSUME PInv, PipelineNext, reap = "wait", reap' = "geo"
               PROVE  \A d \in doomed' : ~Matchable(d)
    OBVIOUS
  <2>1. reap' # reap
    OBVIOUS
  <2>2. ReapStep
    BY <2>1
    DEF PipelineNext, Ping, FlushStep, TickFlush, FinalFlush, StartFlush, EndFlush,
        WriteTenant, WriteStep, WriteGeo, WriteSeen, WriteCancelled, WriteFails,
        WriteReplyLost, LateStep, LateWrite, TickStep, Tick, Signal, pipelineVars, storeVars
  <2>3. doomed' = Stale
    BY <2>2 DEF ReapStep, Scan, ReapGeo, ReapSeen, ReapFails, ReaperStops
  <2> QED
    BY <2>3, StoreAssumption
    DEF Stale, Matchable, PInv, PipelineTypeOK, StoreTypeOK
<1> QED
  BY <1>1, PipelineInvariant, PTL DEF PipelineSpec, SweepSparesFresh

-----------------------------------------------------------------------------
(* The server: its inductive invariant *)

SlotAt  == {"over", "reserved", "serving"}
KeptAt  == {"reserved", "serving"}
TokenAt == {"admitted", "over", "reserved", "serving"}

\* Who has a slot, and who may keep it.
Slots == {c \in Clients : At(c) \in SlotAt}
Kept  == {c \in Clients : At(c) \in KeptAt}

\* A stream is served for the tenant of its key.
ServedTenant == \A c \in Clients : At(c) = "serving" => conn[c].tenant \in Tenants

\* One slot too many may be taken for a moment, never kept.
RoomKept == active = Cardinality(Slots) /\ Cardinality(Kept) <= MaxConnections

\* After a clean drain main goes on, and admit stays shut.
DrainedShut ==
  drained => main \in {"flush", "exit"} /\ \A c \in Clients : At(c) \notin TokenAt

ServerTypeOK ==
  /\ conn \in [Clients -> Connection]
  /\ main \in {"run", "http", "drain", "flush", "exit"}
  /\ expired \in BOOLEAN /\ drained \in BOOLEAN

SInv == ServerTypeOK /\ ServedTenant /\ RoomKept /\ DrainedShut

-----------------------------------------------------------------------------
(* Slots *)

\* Adding a new element to a finite set adds one to its size.
LEMMA SetIn ==
  ASSUME NEW S, IsFiniteSet(S), NEW x, x \notin S
  PROVE  IsFiniteSet(S \cup {x}) /\ Cardinality(S \cup {x}) = Cardinality(S) + 1
BY FS_AddElement

\* Removing an element of a finite set takes one off its size.
LEMMA SetOut ==
  ASSUME NEW S, IsFiniteSet(S), NEW x \in S
  PROVE  IsFiniteSet(S \ {x}) /\ Cardinality(S \ {x}) = Cardinality(S) - 1
BY FS_RemoveElement

\* The slots in use can be counted, and there are no more than clients.
LEMMA SlotsFinite ==
  /\ IsFiniteSet(Slots) /\ Cardinality(Slots) \in 0..Cardinality(Clients)
  /\ IsFiniteSet(Kept) /\ Cardinality(Kept) \in 0..Cardinality(Slots)
<1>1. Slots \subseteq Clients /\ Kept \subseteq Slots
  BY DEF Slots, Kept, SlotAt, KeptAt
<1> HIDE DEF Slots, Kept
<1>2. IsFiniteSet(Slots) /\ Cardinality(Slots) <= Cardinality(Clients)
  BY <1>1, FS_Subset, IngestAssumption
<1>3. IsFiniteSet(Kept) /\ Cardinality(Kept) <= Cardinality(Slots)
  BY <1>1, <1>2, FS_Subset
<1> QED
  BY <1>2, <1>3, FS_CardinalityType, IngestAssumption

\* What a step of one client's request must show: active follows the slot, a
\* kept slot is within the limit, and no token is handed out once Closed.
LEMMA ConnStepInv ==
  ASSUME SInv, NEW c \in Clients, NEW r \in Connection,
         conn' = [conn EXCEPT ![c] = r], UNCHANGED mainVars,
         r.at = "serving" => r.tenant \in Tenants,
         active' = (active - (IF At(c) \in SlotAt THEN 1 ELSE 0))
                   + (IF r.at \in SlotAt THEN 1 ELSE 0),
         r.at \in KeptAt => At(c) \in KeptAt \/ active' <= MaxConnections,
         r.at \in TokenAt => At(c) \in TokenAt \/ ~Closed
  PROVE  SInv'
<1>1. /\ conn \in [Clients -> Connection] /\ conn' \in [Clients -> Connection]
      /\ At(c)' = r.at /\ \A d \in Clients \ {c} : conn'[d] = conn[d]
  BY DEF SInv, ServerTypeOK, At
<1>2. ServerTypeOK' /\ ServedTenant'
  BY <1>1 DEF SInv, ServerTypeOK, ServedTenant, mainVars, At
<1>3. DrainedShut'
  <2> SUFFICES ASSUME drained, NEW d \in Clients
               PROVE  main \in {"flush", "exit"} /\ At(d)' \notin TokenAt
    BY DEF DrainedShut, mainVars
  <2> QED
    BY <1>1 DEF SInv, DrainedShut, Closed, At
<1>4. Slots' = (Slots \ {c}) \cup (IF r.at \in SlotAt THEN {c} ELSE {})
  BY <1>1 DEF Slots, At
<1>5. Kept' = (Kept \ {c}) \cup (IF r.at \in KeptAt THEN {c} ELSE {})
  BY <1>1 DEF Kept, At
<1>6. (c \in Slots <=> At(c) \in SlotAt) /\ (c \in Kept <=> At(c) \in KeptAt)
  BY DEF Slots, Kept
<1>7. /\ active = Cardinality(Slots) /\ Cardinality(Kept) <= MaxConnections
      /\ IsFiniteSet(Slots) /\ IsFiniteSet(Kept)
      /\ Cardinality(Slots) \in Nat /\ Cardinality(Kept) \in Nat
  BY SlotsFinite, FS_CardinalityType DEF SInv, RoomKept
<1> HIDE DEF Slots, Kept
<1>8. active' = Cardinality(Slots')
  <2>1. CASE At(c) \in SlotAt /\ r.at \in SlotAt
    <3>1. Slots' = Slots
      BY <1>4, <1>6, <2>1
    <3> QED
      BY <1>7, <2>1, <3>1
  <2>2. CASE At(c) \in SlotAt /\ r.at \notin SlotAt
    <3>1. Slots' = Slots \ {c} /\ c \in Slots
      BY <1>4, <1>6, <2>2
    <3> QED
      BY <1>7, <2>2, <3>1, SetOut
  <2>3. CASE At(c) \notin SlotAt /\ r.at \in SlotAt
    <3>1. Slots' = Slots \cup {c} /\ c \notin Slots
      BY <1>4, <1>6, <2>3
    <3> QED
      BY <1>7, <2>3, <3>1, SetIn
  <2>4. CASE At(c) \notin SlotAt /\ r.at \notin SlotAt
    <3>1. Slots' = Slots
      BY <1>4, <1>6, <2>4
    <3> QED
      BY <1>7, <2>4, <3>1
  <2> QED
    BY <2>1, <2>2, <2>3, <2>4
<1>9. Cardinality(Kept') <= MaxConnections
  <2>1. CASE r.at \in KeptAt /\ At(c) \notin KeptAt
    <3>1. active' <= MaxConnections
      BY <2>1
    <3>2. Cardinality(Kept)' <= Cardinality(Slots)' /\ Cardinality(Kept)' \in Nat
          /\ Cardinality(Slots)' \in Nat
      <4>1. Kept' \subseteq Slots' /\ IsFiniteSet(Slots')
        <5>1. IsFiniteSet((Slots \ {c}) \cup {c}) /\ IsFiniteSet(Slots \ {c})
          BY <1>7, FS_AddElement, FS_RemoveElement
        <5>2. IsFiniteSet(Slots')
          BY <1>4, <5>1
        <5>3. Kept' \subseteq Slots'
          BY DEF Kept, Slots, KeptAt, SlotAt
        <5> QED
          BY <5>2, <5>3
      <4> QED
        BY <4>1, FS_Subset, FS_CardinalityType
    <3> QED
      BY <1>8, <3>1, <3>2, IngestAssumption
  <2>2. CASE At(c) \in KeptAt
    <3>1. Kept' = Kept \/ (Kept' = Kept \ {c} /\ c \in Kept)
      BY <1>5, <1>6, <2>2
    <3>2. CASE Kept' = Kept
      BY <1>7, <3>2
    <3>3. CASE Kept' = Kept \ {c} /\ c \in Kept
      <4>1. Cardinality(Kept \ {c}) = Cardinality(Kept) - 1
        BY <1>7, <3>3, SetOut
      <4> QED
        BY <1>7, <3>3, <4>1, IngestAssumption
    <3> QED
      BY <3>1, <3>2, <3>3
  <2>3. CASE r.at \notin KeptAt /\ At(c) \notin KeptAt
    <3>1. Kept' = Kept
      BY <1>5, <1>6, <2>3
    <3> QED
      BY <1>7, <3>1
  <2> QED
    BY <2>1, <2>2, <2>3
<1> QED
  BY <1>2, <1>3, <1>8, <1>9 DEF SInv, RoomKept

-----------------------------------------------------------------------------
(* The actions *)

\* The handler and the pumps of one connection.
LEMMA ClientStepInv ==
  ASSUME SInv, NEW c \in Clients,
         Arrive(c) \/ HandlerStep(c) \/ ServeStep(c) \/ Read(c) \/ Hangup(c) \/ Silence(c)
  PROVE  SInv'
<1>1. /\ conn \in [Clients -> Connection] /\ conn[c] \in Connection /\ Gone \in Connection
      /\ At(c) = "serving" => conn[c].tenant \in Tenants
      /\ active \in Nat
  BY SlotsFinite, FS_CardinalityType
  DEF SInv, ServerTypeOK, Connection, Gone, ServedTenant, RoomKept
<1>2. CASE Arrive(c)
  <2> DEFINE r == [conn[c] EXCEPT !.at = "arrived"]
  <2>1. r \in Connection /\ r.at = "arrived"
    BY <1>1 DEF Connection
  <2>2. conn' = [conn EXCEPT ![c] = r] /\ UNCHANGED <<active, mainVars>> /\ At(c) = "gone"
    BY <1>1, <1>2 DEF Arrive, Move
  <2> HIDE DEF r
  <2>3. /\ r.at = "serving" => r.tenant \in Tenants
        /\ active' = (active - (IF At(c) \in SlotAt THEN 1 ELSE 0))
                     + (IF r.at \in SlotAt THEN 1 ELSE 0)
        /\ r.at \in KeptAt => At(c) \in KeptAt \/ active' <= MaxConnections
        /\ r.at \in TokenAt => At(c) \in TokenAt \/ ~Closed
    BY <1>1, <2>1, <2>2 DEF SlotAt, KeptAt, TokenAt
  <2> QED
    BY <1>1, <2>1, <2>2, <2>3, ConnStepInv
<1>3. CASE Admit(c)
  <2> DEFINE r == IF Closed THEN Gone ELSE [conn[c] EXCEPT !.at = "admitted"]
  <2>1. r \in Connection /\ r.at = IF Closed THEN "gone" ELSE "admitted"
    BY <1>1 DEF Connection, Gone
  <2>2. conn' = [conn EXCEPT ![c] = r] /\ UNCHANGED <<active, mainVars>> /\ At(c) = "arrived"
    BY <1>1, <1>3 DEF Admit, Move, Leave
  <2> HIDE DEF r
  <2>3. /\ r.at = "serving" => r.tenant \in Tenants
        /\ active' = (active - (IF At(c) \in SlotAt THEN 1 ELSE 0))
                     + (IF r.at \in SlotAt THEN 1 ELSE 0)
        /\ r.at \in KeptAt => At(c) \in KeptAt \/ active' <= MaxConnections
        /\ r.at \in TokenAt => At(c) \in TokenAt \/ ~Closed
    BY <1>1, <2>1, <2>2 DEF SlotAt, KeptAt, TokenAt
  <2> QED
    BY <1>1, <2>1, <2>2, <2>3, ConnStepInv
<1>4. CASE Reserve(c)
  <2> DEFINE to == IF OverLimit(active + 1) THEN "over" ELSE "reserved"
             r  == [conn[c] EXCEPT !.at = to]
  <2>1. r \in Connection /\ r.at = to /\ to \in {"over", "reserved"}
        /\ (to = "reserved" => active + 1 <= MaxConnections)
    BY <1>1, IngestAssumption DEF Connection, OverLimit
  <2>2. /\ conn' = [conn EXCEPT ![c] = r] /\ UNCHANGED mainVars
        /\ At(c) = "admitted" /\ active' = active + 1
    BY <1>1, <1>4 DEF Reserve, Move
  <2> HIDE DEF r, to
  <2>3. /\ r.at = "serving" => r.tenant \in Tenants
        /\ active' = (active - (IF At(c) \in SlotAt THEN 1 ELSE 0))
                     + (IF r.at \in SlotAt THEN 1 ELSE 0)
        /\ r.at \in KeptAt => At(c) \in KeptAt \/ active' <= MaxConnections
        /\ r.at \in TokenAt => At(c) \in TokenAt \/ ~Closed
    BY <1>1, <2>1, <2>2 DEF SlotAt, KeptAt, TokenAt
  <2> QED
    BY <1>1, <2>1, <2>2, <2>3, ConnStepInv
<1>5. CASE TurnAway(c) \/ Refuse(c) \/ ServeEnds(c)
  <2>1. /\ conn' = [conn EXCEPT ![c] = Gone] /\ UNCHANGED mainVars
        /\ At(c) \in SlotAt /\ active' = active - 1 /\ Gone.at = "gone"
    BY <1>5 DEF TurnAway, Refuse, ServeEnds, Leave, Gone, SlotAt
  <2>3. /\ Gone.at = "serving" => Gone.tenant \in Tenants
        /\ active' = (active - (IF At(c) \in SlotAt THEN 1 ELSE 0))
                     + (IF Gone.at \in SlotAt THEN 1 ELSE 0)
        /\ Gone.at \in KeptAt => At(c) \in KeptAt \/ active' <= MaxConnections
        /\ Gone.at \in TokenAt => At(c) \in TokenAt \/ ~Closed
    BY <1>1, <2>1 DEF SlotAt, KeptAt, TokenAt
  <2> QED
    BY <1>1, <2>1, <2>3, ConnStepInv
<1>6. CASE Upgrade(c)
  <2> PICK t \in Tenants :
        conn' = [conn EXCEPT ![c] = [at |-> "serving", tenant |-> t, read |-> TRUE,
                                     write |-> TRUE, sock |-> TRUE]]
    BY <1>6 DEF Upgrade
  <2> DEFINE r == [at |-> "serving", tenant |-> t, read |-> TRUE, write |-> TRUE, sock |-> TRUE]
  <2>1. r \in Connection /\ r.at = "serving" /\ r.tenant \in Tenants
    BY DEF Connection
  <2>2. UNCHANGED <<active, mainVars>> /\ At(c) = "reserved" /\ conn' = [conn EXCEPT ![c] = r]
    BY <1>6 DEF Upgrade
  <2> HIDE DEF r
  <2>3. /\ r.at = "serving" => r.tenant \in Tenants
        /\ active' = (active - (IF At(c) \in SlotAt THEN 1 ELSE 0))
                     + (IF r.at \in SlotAt THEN 1 ELSE 0)
        /\ r.at \in KeptAt => At(c) \in KeptAt \/ active' <= MaxConnections
        /\ r.at \in TokenAt => At(c) \in TokenAt \/ ~Closed
    BY <1>1, <2>1, <2>2 DEF SlotAt, KeptAt, TokenAt
  <2> QED
    BY <1>1, <2>1, <2>2, <2>3, ConnStepInv
<1>7. CASE Read(c) \/ Hangup(c) \/ Silence(c) \/ ReadError(c) \/ WriteStops(c) \/ Close(c)
  <2>1. /\ At(c) = "serving" /\ UNCHANGED <<active, mainVars>>
        /\ \E b \in BOOLEAN : \/ conn' = [conn EXCEPT ![c].read = b]
                              \/ conn' = [conn EXCEPT ![c].write = b]
                              \/ conn' = [conn EXCEPT ![c].sock = b]
    BY <1>7 DEF Read, Hangup, Silence, ReadError, WriteStops, Close, Ending
  <2>2. PICK r \in Connection :
          conn' = [conn EXCEPT ![c] = r] /\ r.at = "serving" /\ r.tenant = conn[c].tenant
    <3> PICK b \in BOOLEAN : \/ conn' = [conn EXCEPT ![c].read = b]
                             \/ conn' = [conn EXCEPT ![c].write = b]
                             \/ conn' = [conn EXCEPT ![c].sock = b]
      BY <2>1
    <3> DEFINE r1 == [conn[c] EXCEPT !.read = b]
               r2 == [conn[c] EXCEPT !.write = b]
               r3 == [conn[c] EXCEPT !.sock = b]
    <3>1. /\ \A r \in {r1, r2, r3} :
               r \in Connection /\ r.at = "serving" /\ r.tenant = conn[c].tenant
      BY <1>1, <2>1 DEF Connection, At
    <3>2. \E r \in {r1, r2, r3} : conn' = [conn EXCEPT ![c] = r]
      OBVIOUS
    <3> QED
      BY <3>1, <3>2
  <2>3. /\ r.at = "serving" => r.tenant \in Tenants
        /\ active' = (active - (IF At(c) \in SlotAt THEN 1 ELSE 0))
                     + (IF r.at \in SlotAt THEN 1 ELSE 0)
        /\ r.at \in KeptAt => At(c) \in KeptAt \/ active' <= MaxConnections
        /\ r.at \in TokenAt => At(c) \in TokenAt \/ ~Closed
    BY <1>1, <2>1, <2>2 DEF SlotAt, KeptAt, TokenAt
  <2> QED
    BY <1>1, <2>1, <2>2, <2>3, ConnStepInv
<1> QED
  BY <1>2, <1>3, <1>4, <1>5, <1>6, <1>7 DEF HandlerStep, ServeStep

\* Every step of main, and the timeout of its shutdown, keep the invariant.
LEMMA MainStepInv ==
  ASSUME SInv, MainStep \/ Expire
  PROVE  SInv'
<1>1. UNCHANGED <<conn, active>>
  BY DEF MainStep, StopListening, CloseStreams, Drain, Exit, Expire, serverVars
<1>2. Slots' = Slots /\ Kept' = Kept
  BY <1>1 DEF Slots, Kept, At
<1>3. ServerTypeOK'
  BY <1>1 DEF MainStep, StopListening, CloseStreams, Drain, Exit, Expire, SInv, ServerTypeOK
<1>4. DrainedShut'
  <2>1. CASE Drain /\ \A c \in Clients : ~Token(c)
    <3>1. \A c \in Clients : At(c) \notin TokenAt
      BY <2>1 DEF Token, SInv, ServerTypeOK, Connection, TokenAt, At
    <3> QED
      BY <1>1, <2>1, <3>1 DEF Drain, DrainedShut, At
  <2>2. CASE ~(Drain /\ \A c \in Clients : ~Token(c))
    <3>1. drained' = drained /\ main' \in {main, "http", "drain", "flush", "exit"}
          /\ (main \in {"flush", "exit"} => main' \in {"flush", "exit"})
      BY <2>2 DEF MainStep, StopListening, CloseStreams, Drain, Exit, Expire
    <3> QED
      BY <1>1, <3>1 DEF SInv, DrainedShut, At
  <2> QED
    BY <2>1, <2>2
<1> QED
  BY <1>1, <1>2, <1>3, <1>4 DEF SInv, ServedTenant, RoomKept, At

\* The steps of the pipeline and the store keep it.
LEMMA AsideInv ==
  ASSUME SInv, Aside
  PROVE  SInv'
<1>1. UNCHANGED <<conn, active, main, expired, drained>>
  BY DEF Aside, serverVars, mainVars
<1>2. Slots' = Slots /\ Kept' = Kept
  BY <1>1 DEF Slots, Kept, At
<1> QED
  BY <1>1, <1>2 DEF SInv, ServerTypeOK, ServedTenant, RoomKept, DrainedShut, At

\* Every step keeps the invariants of the pipeline and of the server.
LEMMA IngestStepInv ==
  ASSUME PInv, SInv, [Next]_vars
  PROVE  PInv' /\ SInv'
<1>1. CASE \E c \in Clients : Read(c)
  <2> PICK c \in Clients : Read(c)
    BY <1>1
  <2>1. conn[c].tenant \in Tenants /\ Ping(conn[c].tenant)
    BY DEF SInv, ServedTenant, Read
  <2> QED
    BY <2>1, PingInv, ClientStepInv
<1>2. CASE \E c \in Clients : \/ Arrive(c) \/ HandlerStep(c) \/ ServeStep(c)
                              \/ Hangup(c) \/ Silence(c)
  <2> PICK c \in Clients : \/ Arrive(c) \/ HandlerStep(c) \/ ServeStep(c)
                           \/ Hangup(c) \/ Silence(c)
    BY <1>2
  <2>1. UNCHANGED pipelineVars
    BY DEF Arrive, HandlerStep, Admit, Reserve, TurnAway, Refuse, Upgrade, ServeStep,
           ReadError, WriteStops, Close, ServeEnds, Hangup, Silence
  <2> QED
    BY <2>1, PipelineStutterInv, ClientStepInv
<1>3. CASE (FlushStep \/ ReapStep \/ LateStep \/ TickStep \/ Signal) /\ Aside
  BY <1>3, BackgroundInv, AsideInv
<1>4. CASE MainStep \/ Expire
  <2>1. UNCHANGED pipelineVars
    BY <1>4 DEF MainStep, StopListening, CloseStreams, Drain, Exit, Expire
  <2> QED
    BY <1>4, <2>1, PipelineStutterInv, MainStepInv
<1>5. CASE UNCHANGED vars
  <2>1. UNCHANGED pipelineVars /\ Aside
    BY <1>5 DEF vars, Aside
  <2> QED
    BY <2>1, PipelineStutterInv, AsideInv
<1> QED
  BY <1>1, <1>2, <1>3, <1>4, <1>5 DEF Next

-----------------------------------------------------------------------------
(* Theorems *)

\* Both invariants hold always.
LEMMA IngestInvariant == Spec => [](PInv /\ SInv)
<1>1. Init => PInv /\ SInv
  <2> SUFFICES ASSUME Init PROVE PInv /\ SInv
    OBVIOUS
  <2>1. PInv
    BY PipelineInitInv DEF Init
  <2>2. conn \in [Clients -> Connection] /\ \A c \in Clients : At(c) = "gone"
    BY DEF Init, Connection, Gone, At
  <2>3. Slots = {} /\ Kept = {}
    BY <2>2 DEF Slots, Kept, SlotAt, KeptAt
  <2>4. Cardinality({}) = 0
    BY FS_EmptySet
  <2>5. RoomKept
    BY <2>3, <2>4, IngestAssumption DEF RoomKept, Init
  <2> QED
    BY <2>1, <2>2, <2>5 DEF Init, SInv, ServerTypeOK, ServedTenant, DrainedShut, TokenAt
<1>2. (PInv /\ SInv) /\ [Next]_vars => (PInv /\ SInv)'
  BY IngestStepInv
<1> QED
  BY <1>1, <1>2, PTL DEF Spec

\* Every variable of ingestd keeps its type, whatever clients, signals and
\* timeouts do: activeConns is never negative and never more than the requests.
THEOREM IngestTypeCorrect == Spec => []TypeOK
<1>1. PInv /\ SInv => TypeOK
  BY SlotsFinite DEF PInv, SInv, ServerTypeOK, RoomKept, TypeOK
<1> QED
  BY <1>1, IngestInvariant, PTL

\* activeConns counts the requests that hold a slot, on every way out of the
\* handler and of serve, and at most MaxConnections streams are served.
THEOREM IngestSlots == Spec => []SlotsCounted
<1>1. SInv => SlotsCounted
  <2> SUFFICES ASSUME SInv PROVE SlotsCounted
    OBVIOUS
  <2> DEFINE serving == {c \in Clients : At(c) = "serving"}
  <2>1. serving \subseteq Kept
    BY DEF Kept, KeptAt
  <2> HIDE DEF serving
  <2>2. Cardinality(serving) <= Cardinality(Kept) /\ Cardinality(serving) \in Nat
    BY <2>1, SlotsFinite, FS_Subset, FS_CardinalityType
  <2>3. Cardinality(serving) <= MaxConnections
    BY <2>2, SlotsFinite, FS_CardinalityType, IngestAssumption DEF SInv, RoomKept
  <2> QED
    BY <2>3 DEF SInv, RoomKept, SlotsCounted, Slots, SlotAt, serving
<1> QED
  BY <1>1, IngestInvariant, PTL

\* Once Server.Shutdown has returned without an error, no slot is taken and no
\* handler or stream holds a token, for as long as the process lives.
THEOREM IngestCleanShutdown == Spec => []CleanShutdown
<1>1. SInv => CleanShutdown
  <2> SUFFICES ASSUME SInv, drained
               PROVE  active = 0 /\ \A c \in Clients : ~Token(c)
    BY DEF CleanShutdown
  <2>1. \A c \in Clients : At(c) \in {"gone", "arrived"}
    BY DEF SInv, DrainedShut, ServerTypeOK, Connection, TokenAt, At
  <2>2. Slots = {}
    BY <2>1 DEF Slots, SlotAt
  <2>3. active = 0
    BY <2>2, FS_EmptySet DEF SInv, RoomKept
  <2> QED
    BY <2>1, <2>3 DEF Token
<1> QED
  BY <1>1, IngestInvariant, PTL

\* The freshness promise also holds when pings come from streams that connect,
\* hang up and are shut down.
THEOREM IngestFresh == Spec => []FreshMeansPinged
<1>1. PInv => FreshMeansPinged
  BY StoreAssumption
  DEF PInv, PipelineTypeOK, StoreTypeOK, StoredReported, FreshMeansPinged, Matchable
<1> QED
  BY <1>1, IngestInvariant, PTL
=============================================================================
