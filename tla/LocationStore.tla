---------------------------- MODULE LocationStore ----------------------------
(***************************************************************************)
(* Live driver locations in Redis: internal/locations/redis.go.            *)
(*                                                                         *)
(* Two sorted sets, one with positions and one with the time of each       *)
(* driver's last ping.  UpsertMany writes both, and Reap deletes from      *)
(* both, in a pipeline of two commands between which other clients'        *)
(* commands may run.  A pipeline that fails is retried or given up; when   *)
(* it timed out it may still run, late.                                    *)
(***************************************************************************)
EXTENDS Integers, FiniteSets

CONSTANTS
  Ids,         \* driver ids, as the store knows them
  Tenants,     \* tenants of the API keys
  TTL,         \* Options.TTL: how long a driver stays matchable
  None,        \* no such member
  MaxTime,     \* bound of the model: the last tick of the clock
  MaxFaults,   \* bound of the model: failing calls
  MaxLate      \* bound of the model: pipelines that outlive their caller

\* NewRedis refuses a TTL that is not positive.
ASSUME StoreAssumption ==
  /\ TTL \in Nat \ {0}
  /\ MaxTime \in Nat /\ MaxFaults \in Nat /\ MaxLate \in Nat
  /\ None \notin Nat

VARIABLES
  now,      \* the clock
  geo,      \* drivers:geo, the position of a driver
  seen,     \* drivers:seen, the time of its last ping
  job,      \* what UpsertMany is writing
  stage,    \* the next command of its pipeline
  late,     \* pipelines still travelling whose caller has given up
  reap,     \* the reaper: waiting, its next command, or done
  doomed,   \* the drivers it is deleting
  faults    \* failed calls

storeVars == <<now, geo, seen, job, stage, late, reap, doomed, faults>>

\* A DriverLocation.  The position is the one reported at that time; polar says
\* that its latitude is valid for a ping and out of range for GEOADD.
Location == [tenant : Tenants, id : Ids, at : 0..MaxTime, polar : BOOLEAN]

StoreTypeOK ==
  /\ now \in 0..MaxTime
  /\ geo \in [Ids -> Location \cup {None}]
  /\ seen \in [Ids -> 0..MaxTime \cup {None}]
  /\ job \subseteq Location
  /\ stage \in {"idle", "geo", "seen"}
  /\ late \subseteq [locs : SUBSET Location, next : {"geo", "seen"}]
  /\ reap \in {"wait", "geo", "seen", "done"}
  /\ doomed \subseteq Ids
  /\ faults \in 0..MaxFaults

StoreInit ==
  /\ now = 0
  /\ geo = [d \in Ids |-> None]
  /\ seen = [d \in Ids |-> None]
  /\ job = {} /\ stage = "idle" /\ late = {}
  /\ reap = "wait" /\ doomed = {}
  /\ faults = 0

-----------------------------------------------------------------------------
(* Redis commands *)

\* GEOADD
Placed(locs) ==
  [d \in Ids |-> IF \E l \in locs : l.id = d
                 THEN CHOOSE l \in locs : l.id = d ELSE geo[d]]

\* Every position is as old as its flush.
StampedNow(locs) ==
  [d \in Ids |-> IF \E l \in locs : l.id = d THEN now ELSE seen[d]]

\* ZADD with the LastSeen of every location.
Stamped(locs) ==
  [d \in Ids |-> IF \E l \in locs : l.id = d
                 THEN (CHOOSE l \in locs : l.id = d).at ELSE seen[d]]

\* Reads fail closed: a driver without a timestamp is stale.
Matchable(d) == geo[d] # None /\ seen[d] # None /\ seen[d] >= now - TTL

\* ZRANGE BYSCORE with an inclusive bound.
StaleInclusive == {d \in Ids : seen[d] # None /\ seen[d] <= now - TTL}

\* ZRANGE BYSCORE -inf (cutoff: at the cutoff a driver is still fresh.
Stale == {d \in Ids : seen[d] # None /\ seen[d] < now - TTL}

-----------------------------------------------------------------------------
(* UpsertMany, one tenant's batch at a time; ctx says whether its context is *)
(* still alive                                                              *)

\* One location out of range refuses the batch.
UpsertMany(locs, ctx) ==
  IF ctx /\ \A l \in locs : ~l.polar
  THEN job' = locs /\ stage' = "geo"
  ELSE UNCHANGED <<job, stage>>

WriteGeo ==
  /\ stage = "geo"
  /\ geo' = Placed(job)
  /\ stage' = "seen"
  /\ UNCHANGED <<now, seen, job, late, reap, doomed, faults>>

WriteSeen ==
  /\ stage = "seen"
  /\ seen' = Stamped(job)
  /\ stage' = "idle" /\ job' = {}
  /\ UNCHANGED <<now, geo, late, reap, doomed, faults>>

Fault == faults < MaxFaults /\ faults' = faults + 1

\* withRetry after an attempt that failed: once more, or no more.
RetryOrNot ==
  \/ stage' = "geo" /\ UNCHANGED job
  \/ stage' = "idle" /\ job' = {}

\* The connection breaks before the next command has run: the rest of the
\* pipeline is lost, or still on its way.
WriteFails ==
  /\ stage # "idle" /\ Fault
  /\ RetryOrNot
  /\ \/ UNCHANGED late
     \/ /\ Cardinality(late) < MaxLate
        /\ late' = late \cup {[locs |-> job, next |-> stage]}
  /\ UNCHANGED <<now, geo, seen, reap, doomed>>

\* The reply is lost after both commands have run.
WriteReplyLost ==
  /\ stage = "seen" /\ Fault
  /\ seen' = Stamped(job)
  /\ RetryOrNot
  /\ UNCHANGED <<now, geo, late, reap, doomed>>

\* The context is cancelled before the pipeline, or its retry, is sent: once
\* sent, go-redis waits for the reply.
WriteCancelled(ctx) ==
  /\ stage = "geo" /\ ~ctx
  /\ stage' = "idle" /\ job' = {}
  /\ UNCHANGED <<now, geo, seen, late, reap, doomed, faults>>

\* A pipeline whose caller has given up runs after all.
LateWrite(p) ==
  /\ p \in late
  /\ \/ /\ p.next = "geo" /\ geo' = Placed(p.locs)
        /\ late' = (late \ {p}) \cup {[p EXCEPT !.next = "seen"]}
        /\ UNCHANGED seen
     \/ /\ p.next = "seen" /\ seen' = Stamped(p.locs)
        /\ late' = late \ {p}
        /\ UNCHANGED geo
  /\ UNCHANGED <<now, job, stage, reap, doomed, faults>>

-----------------------------------------------------------------------------
(* Reap; ctx as above *)

Scan(ctx) ==
  /\ reap = "wait" /\ ctx /\ Stale # {}
  /\ doomed' = Stale /\ reap' = "geo"
  /\ UNCHANGED <<now, geo, seen, job, stage, late, faults>>

ReapGeo ==
  /\ reap = "geo"
  /\ geo' = [d \in Ids |-> IF d \in doomed THEN None ELSE geo[d]]
  /\ reap' = "seen"
  /\ UNCHANGED <<now, seen, job, stage, late, doomed, faults>>

\* Only the positions are deleted.
ReapGeoOnly ==
  /\ reap = "seen"
  /\ reap' = "wait" /\ doomed' = {}
  /\ UNCHANGED <<now, geo, seen, job, stage, late, faults>>

ReapSeen ==
  /\ reap = "seen"
  /\ seen' = [d \in Ids |-> IF d \in doomed THEN None ELSE seen[d]]
  /\ reap' = "wait" /\ doomed' = {}
  /\ UNCHANGED <<now, geo, job, stage, late, faults>>

\* An attempt fails, with or without effect; it is repeated or given up.
ReapFails ==
  /\ reap \in {"geo", "seen"} /\ Fault
  /\ \/ UNCHANGED seen
     \/ reap = "seen" /\ seen' = [d \in Ids |-> IF d \in doomed THEN None ELSE seen[d]]
  /\ \/ reap' = "geo" /\ UNCHANGED doomed
     \/ reap' = "wait" /\ doomed' = {}
  /\ UNCHANGED <<now, geo, job, stage, late>>

\* The reaper stops between two sweeps, or before it has sent its deletions.
ReaperStops(ctx) ==
  /\ reap \in {"wait", "geo"} /\ ~ctx
  /\ reap' = "done" /\ doomed' = {}
  /\ UNCHANGED <<now, geo, seen, job, stage, late, faults>>

-----------------------------------------------------------------------------
Tick ==
  /\ now < MaxTime /\ now' = now + 1
  /\ UNCHANGED <<geo, seen, job, stage, late, reap, doomed, faults>>
=============================================================================
