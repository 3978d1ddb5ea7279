------------------------------ MODULE Pipeline ------------------------------
(***************************************************************************)
(* GPS pings on their way into the location store:                         *)
(* internal/pipeline/pipeline.go over LocationStore.                       *)
(*                                                                         *)
(* Connections call Accept, which keeps the newest ping of every driver;   *)
(* Run takes the window out and writes it tenant by tenant, into the one   *)
(* store ingestd gives it.  The reaper runs beside it.                     *)
(***************************************************************************)
EXTENDS LocationStore

CONSTANTS
  MaxBufferedDrivers,   \* Config.MaxBufferedDrivers
  MaxPings              \* bound of the model: pings

ASSUME PipelineAssumption ==
  /\ MaxBufferedDrivers \in Nat \ {0}
  /\ MaxPings \in Nat

VARIABLES
  buffer,      \* the pipeline's window
  batch,       \* what a flush has still to write
  pipe,        \* Run: waiting, in a flush, in the last flush, done
  cancelled,   \* the root context is cancelled
  pinged,      \* history: when a driver was last heard of
  pings        \* pings so far

pipeVars == <<buffer, batch, pipe>>
history  == <<pinged, pings>>
pipelineVars == <<storeVars, pipeVars, cancelled, history>>

PipelineTypeOK ==
  /\ StoreTypeOK
  /\ buffer \subseteq Location /\ Cardinality(buffer) <= MaxBufferedDrivers
  /\ batch \subseteq Location
  /\ pipe \in {"wait", "flush", "last", "done"}
  /\ cancelled \in BOOLEAN
  /\ pinged \in [Ids -> 0..MaxTime \cup {None}]
  /\ pings \in 0..MaxPings

PipelineInit ==
  /\ StoreInit
  /\ buffer = {} /\ batch = {} /\ pipe = "wait"
  /\ cancelled = FALSE
  /\ pinged = [d \in Ids |-> None] /\ pings = 0

-----------------------------------------------------------------------------
SameDriver(l, m) == l.tenant = m.tenant /\ l.id = m.id

\* Accept: the newest ping of a driver; a driver too many is shed.
Accept(l) ==
  LET older == {m \in buffer : SameDriver(l, m)} IN
  buffer' = IF older = {} /\ Cardinality(buffer) >= MaxBufferedDrivers
            THEN buffer ELSE (buffer \ older) \cup {l}

\* A ping arrives, stamped with the server's clock.
Ping(t) ==
  /\ pings < MaxPings /\ pings' = pings + 1
  /\ \E d \in Ids, polar \in BOOLEAN :
       /\ Accept([tenant |-> t, id |-> d, at |-> now, polar |-> polar])
       /\ pinged' = [pinged EXCEPT ![d] = now]
  /\ UNCHANGED <<storeVars, batch, pipe, cancelled>>

-----------------------------------------------------------------------------
(* Run *)

\* The ticker's flush lives with the root context, the last one has its own.
FlushCtx == pipe = "last" \/ ~cancelled

\* flush takes the buffer; an empty one is no work.
StartFlush(as, after) ==
  /\ pipe = "wait"
  /\ batch' = buffer /\ buffer' = {}
  /\ pipe' = IF buffer = {} THEN after ELSE as
  /\ UNCHANGED <<storeVars, cancelled, history>>

\* A tick.  With nothing buffered it changes nothing.
TickFlush == buffer # {} /\ StartFlush("flush", "wait")

\* Run ends only with something to flush.
FinalFlushOfData == cancelled /\ buffer # {} /\ StartFlush("last", "done")

\* The root context is done.  select takes either case when both are ready.
FinalFlush == cancelled /\ StartFlush("last", "done")

\* UpsertMany for one tenant; the loop goes on when it fails.
WriteTenant(t) ==
  LET locs == {l \in batch : l.tenant = t} IN
  /\ pipe \in {"flush", "last"} /\ stage = "idle" /\ locs # {}
  /\ UpsertMany(locs, FlushCtx)
  /\ batch' = batch \ locs
  /\ UNCHANGED <<now, geo, seen, late, reap, doomed, faults>>
  /\ UNCHANGED <<buffer, pipe, cancelled, history>>

\* The window is written or dropped.
EndFlush ==
  /\ pipe \in {"flush", "last"} /\ stage = "idle" /\ batch = {}
  /\ pipe' = IF pipe = "last" THEN "done" ELSE "wait"
  /\ UNCHANGED <<storeVars, buffer, batch, cancelled, history>>

\* SIGTERM, or the listener fails: the root context is cancelled.
Signal ==
  /\ ~cancelled /\ cancelled' = TRUE
  /\ UNCHANGED <<storeVars, pipeVars, history>>

-----------------------------------------------------------------------------
Alone == UNCHANGED <<pipeVars, cancelled, history>>

WriteStep ==
  /\ \/ WriteGeo \/ WriteSeen \/ WriteCancelled(FlushCtx)
     \/ WriteFails \/ WriteReplyLost
  /\ Alone

ReapStep ==
  /\ \/ Scan(~cancelled) \/ ReapGeo \/ ReapSeen \/ ReapFails
     \/ ReaperStops(~cancelled)
  /\ Alone

FlushStep ==
  \/ TickFlush \/ FinalFlush \/ EndFlush
  \/ \E t \in Tenants : WriteTenant(t)
  \/ WriteStep

LateStep == (\E p \in late : LateWrite(p)) /\ Alone

TickStep == Tick /\ Alone

PipelineNext ==
  \/ \E t \in Tenants : Ping(t)
  \/ FlushStep \/ ReapStep \/ LateStep \/ TickStep
  \/ Signal
  \/ pipe = "done" /\ reap = "done" /\ UNCHANGED pipelineVars

PipelineSpec == PipelineInit /\ [][PipelineNext]_pipelineVars

\* Run and the reaper go on.
PipelineFairSpec ==
  PipelineSpec /\ WF_pipelineVars(FlushStep) /\ WF_pipelineVars(ReapStep)

-----------------------------------------------------------------------------
(* Properties *)

\* A driver that reads consider fresh was heard of within the TTL, however long
\* its ping was buffered, retried, late, or raced by the reaper.
FreshMeansPinged ==
  \A d \in Ids : Matchable(d) => pinged[d] # None /\ pinged[d] >= now - TTL

\* Reads and the reaper agree where freshness ends: a sweep never starts to
\* delete a driver that reads still return.
SweepSparesFresh ==
  [][reap = "wait" /\ reap' = "geo" => \A d \in doomed' : ~Matchable(d)]_pipelineVars

\* The timestamp of a driver that stopped pinging does not stay for ever: the
\* reaper deletes it, through failures and late writes, while it runs.
StaleReaped ==
  \A d \in Ids : d \in Stale ~> d \notin Stale \/ cancelled

\* After a signal the pipeline and the reaper both end.
RunReturns == cancelled ~> pipe = "done" /\ reap = "done"
=============================================================================
