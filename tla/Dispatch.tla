------------------------------ MODULE Dispatch ------------------------------
(***************************************************************************)
(* Ride requests from the HTTP handler to a settled outcome: the API       *)
(* server publishes them to the queue, batchers consume, look drivers up,  *)
(* call the matching engine and settle every message.                      *)
(*                                                                         *)
(* A batcher is one process with two goroutines that both call             *)
(* processBatch: the run loop and the reclaimer.  Every call to Redis and  *)
(* to the engine is one step, so goroutines and processes interleave       *)
(* between calls.  A call may fail without effect, or take effect and      *)
(* lose its reply; a process may crash, or be told to stop (SIGTERM        *)
(* cancels the root context), between any two steps.                       *)
(***************************************************************************)
EXTENDS RequestQueue

CONSTANTS
  Drivers,            \* drivers the location store may return
  Batchers,           \* batcherd processes
  MaxBatchSize,       \* batcher.Config.MaxBatchSize
  MaxMatchAttempts,   \* batcher.Config.MaxMatchAttempts
  MaxFaults,          \* bound: failing calls (Redis, engine)
  MaxStops,           \* bound: crashes and shutdowns
  Timely,             \* TRUE: no goroutine holds a message for ReclaimMinIdle
  PermanentErrors     \* TRUE: the engine may refuse a well-formed batch

\* applyDefaults leaves both limits positive.
ASSUME DispatchAssumption ==
  /\ MaxBatchSize \in Nat \ {0}
  /\ MaxMatchAttempts \in Nat \ {0}
  /\ MaxFaults \in Nat
  /\ MaxStops \in Nat
  /\ Timely \in BOOLEAN
  /\ PermanentErrors \in BOOLEAN

VARIABLES
  client,   \* what the API has answered for each RequestID
  pc,       \* the step each goroutine is at
  batch,    \* the messages it holds
  todo,     \* those the loop it is in has still to settle
  won,      \* ackIDs: matched messages to ack at the end of the batch
  seen,     \* the reclaimer's XPENDING reply
  ctx,      \* the root context of each process
  booked,   \* drivers the engine has assigned to each request
  faults,   \* faults left
  stops     \* crashes and shutdowns left

workerVars == <<pc, batch, todo, won, seen, ctx>>
vars == <<queueVars, client, workerVars, booked, faults, stops>>

Roles   == {"run", "reclaim"}
Workers == Batchers \X Roles

Steps == {"collect", "tick", "claim", "poison", "lookup", "solve",
          "reject", "settle", "unpend", "stopped"}

\* A context is "draining" once the run loop has started its last batch, which
\* it solves under a context of its own.
Contexts == {"live", "cancelled", "draining"}

NoCounts == [i \in Ids |-> 0]

TypeOK ==
  /\ QueueTypeOK
  /\ client \in [Requests -> {"new", "refused", "accepted"}]
  /\ pc \in [Workers -> Steps]
  /\ batch \in [Workers -> SUBSET Ids]
  /\ todo \in [Workers -> SUBSET Ids]
  /\ won \in [Workers -> SUBSET Ids]
  /\ seen \in [Workers -> [Ids -> Nat]]
  /\ ctx \in [Batchers -> Contexts]
  /\ booked \in [Requests -> SUBSET Drivers]
  /\ faults \in 0..MaxFaults
  /\ stops \in 0..MaxStops

\* Where a goroutine starts: Run's loop collects, the reclaimer awaits its
\* ticker.
Start(role) == IF role = "run" THEN "collect" ELSE "tick"

Init ==
  /\ QueueInit
  /\ client = [r \in Requests |-> "new"]
  /\ pc = [w \in Workers |-> Start(w[2])]
  /\ batch = [w \in Workers |-> {}]
  /\ todo = [w \in Workers |-> {}]
  /\ won = [w \in Workers |-> {}]
  /\ seen = [w \in Workers |-> NoCounts]
  /\ ctx = [b \in Batchers |-> "live"]
  /\ booked = [r \in Requests |-> {}]
  /\ faults = MaxFaults
  /\ stops = MaxStops

-----------------------------------------------------------------------------
(* Outcomes of a call *)

\* The context goroutine w passes to its calls is not cancelled.
Live(w) == \/ ctx[w[1]] = "live"
           \/ w[2] = "run" /\ ctx[w[1]] = "draining"

SpendFault == faults > 0 /\ faults' = faults - 1

\* The call takes effect and returns no error.
Succeeds(w) == Live(w) /\ UNCHANGED faults

\* The call takes effect but its reply is lost: the caller sees an error.
ReplyLost(w) == Live(w) /\ SpendFault

\* The call fails without effect, as every call under a cancelled context.
Fails(w) == IF Live(w) THEN SpendFault ELSE UNCHANGED faults

-----------------------------------------------------------------------------
(* The API: handleCreateRideRequest *)

\* A client posts a ride request; after a 503 it may post it again with the
\* same X-Request-ID, which the server uses as the RequestID.  A publish error
\* answers 503 whether or not the entry reached the stream.
Post(r) ==
  /\ client[r] # "accepted"
  /\ \/ /\ XAdd(r, 0)
        /\ client' = [client EXCEPT ![r] = "accepted"]
        /\ UNCHANGED faults
     \/ /\ XAdd(r, 0)
        /\ client' = [client EXCEPT ![r] = "refused"]
        /\ SpendFault
     \/ /\ client' = [client EXCEPT ![r] = "refused"]
        /\ SpendFault
        /\ UNCHANGED queueVars
  /\ UNCHANGED <<workerVars, booked, stops>>

-----------------------------------------------------------------------------
(* Moving a goroutine *)

\* processBatch returns.  What is still pending is left for a reclaimer.
Return(w) ==
  /\ pc' = [pc EXCEPT ![w] =
              IF w[2] = "run" /\ ctx[w[1]] = "draining" THEN "stopped"
              ELSE Start(w[2])]
  /\ batch' = [batch EXCEPT ![w] = {}]
  /\ todo' = [todo EXCEPT ![w] = {}]
  /\ won' = [won EXCEPT ![w] = {}]
  /\ seen' = [seen EXCEPT ![w] = NoCounts]
  /\ UNCHANGED ctx

GoTo(w, step) ==
  /\ pc' = [pc EXCEPT ![w] = step]
  /\ UNCHANGED <<batch, todo, won, seen, ctx>>

\* The loop over messages leaves entry i behind.
NextMessage(w, step, i) ==
  /\ pc' = [pc EXCEPT ![w] = step]
  /\ todo' = [todo EXCEPT ![w] = @ \ {i}]
  /\ UNCHANGED <<batch, won, seen, ctx>>

-----------------------------------------------------------------------------
(* The run loop *)

\* Consume: read what is new, at most the room left in the batch.  A full
\* batch is flushed at once.  When the reply is lost the entries are pending
\* and this process does not know it.
Consume(w) ==
  /\ w[2] = "run" /\ pc[w] = "collect"
  /\ \E P \in (SUBSET Undelivered) \ {{}} :
       /\ FirstN(P, Undelivered, MaxBatchSize - Cardinality(batch[w]))
       /\ XReadGroup(P)
       /\ \/ /\ Succeeds(w)
             /\ batch' = [batch EXCEPT ![w] = @ \cup P]
             /\ pc' = [pc EXCEPT ![w] =
                         IF Cardinality(batch[w] \cup P) >= MaxBatchSize
                         THEN "lookup" ELSE "collect"]
             /\ UNCHANGED <<todo, won, seen, ctx>>
          \/ ReplyLost(w) /\ UNCHANGED workerVars
  /\ UNCHANGED <<client, booked, stops>>

\* The window's timer fires.  Go's select picks any ready case, so it may also
\* be taken once the context is cancelled.
Flush(w) ==
  /\ w[2] = "run" /\ pc[w] = "collect" /\ batch[w] # {}
  /\ GoTo(w, "lookup")
  /\ UNCHANGED <<queueVars, client, booked, faults, stops>>

\* Run sees ctx.Done: a partial batch is processed under a fresh context, and
\* Run returns.
Drain(w) ==
  /\ w[2] = "run" /\ pc[w] = "collect" /\ ctx[w[1]] = "cancelled"
  /\ IF batch[w] = {}
     THEN GoTo(w, "stopped")
     ELSE /\ pc' = [pc EXCEPT ![w] = "lookup"]
          /\ ctx' = [ctx EXCEPT ![w[1]] = "draining"]
          /\ UNCHANGED <<batch, todo, won, seen>>
  /\ UNCHANGED <<queueVars, client, booked, faults, stops>>

-----------------------------------------------------------------------------
(* The reclaimer: Reclaim, then processBatch *)

\* Nobody calls Reclaim on a schedule.
ReclaimerNotStarted(w) == w \notin Workers /\ UNCHANGED vars

\* The ticker fires; XPENDING lists the first idle entries and their counts.
ListPending(w) ==
  /\ w[2] = "reclaim" /\ pc[w] = "tick" /\ Live(w)
  /\ \E P \in (SUBSET idle) \ {{}} :
       /\ FirstN(P, idle, MaxBatchSize)
       /\ seen' = [seen EXCEPT ![w] = XPending(P)]
  /\ pc' = [pc EXCEPT ![w] = "claim"]
  /\ UNCHANGED <<queueVars, client, batch, todo, won, ctx, booked, faults, stops>>

Listed(w) == {i \in Ids : seen[w][i] > 0}

\* Comparing the count from before this claim.
OverLimitOffByOne(w, S) == {i \in S : seen[w][i] > MaxDeliveries}

\* Entries past their delivery limit.  The count is XPENDING's plus one: it is
\* stale when another reclaimer claimed the entry in between.
OverLimit(w, S) == {i \in S : seen[w][i] + 1 > MaxDeliveries}

\* XCLAIM.  Entries over the limit are set apart for the dead-letter stream;
\* the rest is the batch.
Claim(w) ==
  /\ pc[w] = "claim"
  /\ LET got == {i \in XClaimed(Listed(w)) : i >= first} IN
     \/ /\ XClaim(Listed(w))
        /\ Succeeds(w)
        /\ IF got = {}
           THEN Return(w)
           ELSE /\ batch' = [batch EXCEPT ![w] = got \ OverLimit(w, got)]
                /\ todo' = [todo EXCEPT ![w] = OverLimit(w, got)]
                /\ pc' = [pc EXCEPT ![w] = "poison"]
                /\ seen' = [seen EXCEPT ![w] = NoCounts]
                /\ UNCHANGED <<won, ctx>>
     \/ XClaim(Listed(w)) /\ ReplyLost(w) /\ Return(w)
     \/ Fails(w) /\ Return(w) /\ UNCHANGED queueVars
  /\ UNCHANGED <<client, booked, stops>>

\* Reclaim dead-letters the entries over the limit.  An error makes Reclaim
\* return early, and the reclaimer drops the whole claim.
Poison(w) ==
  /\ pc[w] = "poison"
  /\ \E i \in todo[w] :
       /\ IsFirst(i, todo[w])
       /\ \/ /\ DeadLetter(i, "poison", TRUE)
             /\ Succeeds(w)
             /\ NextMessage(w, "poison", i)
          \/ /\ \E whole \in BOOLEAN : DeadLetter(i, "poison", whole)
             /\ ReplyLost(w)
             /\ Return(w)
          \/ Fails(w) /\ Return(w) /\ UNCHANGED queueVars
  /\ UNCHANGED <<client, booked, stops>>

\* Reclaim returns its messages to the reclaimer.
Reclaimed(w) ==
  /\ pc[w] = "poison" /\ todo[w] = {}
  /\ IF batch[w] = {} THEN Return(w) ELSE GoTo(w, "lookup")
  /\ UNCHANGED <<queueVars, client, booked, faults, stops>>

\* A reclaimer that stops only once nothing is pending.
StopReclaimerWhenDrained(w) ==
  /\ w[2] = "reclaim" /\ pc[w] = "tick" /\ ctx[w[1]] # "live" /\ pel = {}
  /\ GoTo(w, "stopped")
  /\ UNCHANGED <<queueVars, client, booked, faults, stops>>

\* The reclaimer sees ctx.Done.
StopReclaimer(w) ==
  /\ w[2] = "reclaim" /\ pc[w] = "tick" /\ ctx[w[1]] # "live"
  /\ GoTo(w, "stopped")
  /\ UNCHANGED <<queueVars, client, booked, faults, stops>>

-----------------------------------------------------------------------------
(* processBatch *)

\* NearbyMany fails: the batch is left pending.
LookupFails(w) ==
  /\ pc[w] = "lookup"
  /\ Fails(w)
  /\ Return(w)
  /\ UNCHANGED <<queueVars, client, booked, stops>>

\* No driver near any rider of the batch: it is left pending.
NoDrivers(w) ==
  /\ pc[w] = "lookup"
  /\ Succeeds(w)
  /\ Return(w)
  /\ UNCHANGED <<queueVars, client, booked, stops>>

DriversFound(w) ==
  /\ pc[w] = "lookup"
  /\ Drivers # {}
  /\ Succeeds(w)
  /\ GoTo(w, "solve")
  /\ UNCHANGED <<queueVars, client, booked, stops>>

RequestsOf(S) == {log[i].req : i \in S}

\* Two messages of the batch carry the same RequestID, which is the rider id
\* the engine sees: validate() answers INVALID_ARGUMENT.
DuplicateRider(S) == \E i, j \in S : i # j /\ log[i].req = log[j].req

\* A retryable engine error: the batch is left pending.
SolveRetryable(w) ==
  /\ pc[w] = "solve"
  /\ ReplyLost(w)
  /\ Return(w)
  /\ UNCHANGED <<queueVars, client, booked, stops>>

\* A non-retryable error: a refused batch, or a call cancelled by the caller's
\* context.  Every message of the batch is to be dead-lettered.
SolvePermanent(w) ==
  /\ pc[w] = "solve"
  /\ Live(w) => DuplicateRider(batch[w]) \/ PermanentErrors
  /\ pc' = [pc EXCEPT ![w] = "reject"]
  /\ todo' = [todo EXCEPT ![w] = batch[w]]
  /\ UNCHANGED <<queueVars, client, batch, won, seen, ctx, booked, faults, stops>>

\* The engine's answer: no driver twice, any rider may be left out (a driver
\* may be unreachable from it, or out of its shortlist).
Matchings(R) ==
  UNION {{m \in [S -> Drivers] : \A q, r \in S : m[q] = m[r] => q = r} :
            S \in SUBSET R}

\* The solver answers; unmatched messages are settled one by one first.
SolveOk(w) ==
  /\ pc[w] = "solve"
  /\ Succeeds(w)
  /\ ~DuplicateRider(batch[w])
  /\ \E m \in Matchings(RequestsOf(batch[w])) :
       /\ booked' = [r \in Requests |->
                       IF r \in DOMAIN m THEN booked[r] \cup {m[r]} ELSE booked[r]]
       /\ LET mine == {i \in batch[w] : log[i].req \in DOMAIN m} IN
          /\ won' = [won EXCEPT ![w] = mine]
          /\ todo' = [todo EXCEPT ![w] = batch[w] \ mine]
  /\ pc' = [pc EXCEPT ![w] = "settle"]
  /\ UNCHANGED <<queueVars, client, batch, seen, ctx, stops>>

\* DeadLetter from a loop that goes on whatever the outcome.
SetAside(w, i, reason) ==
  \/ DeadLetter(i, reason, TRUE) /\ Succeeds(w)
  \/ (\E whole \in BOOLEAN : DeadLetter(i, reason, whole)) /\ ReplyLost(w)
  \/ Fails(w) /\ UNCHANGED queueVars

\* The dead-letter loop of a refused batch.
Reject(w) ==
  /\ pc[w] = "reject"
  /\ \E i \in todo[w] :
       /\ IsFirst(i, todo[w])
       /\ SetAside(w, i, "rejected")
       /\ IF todo[w] = {i} THEN Return(w) ELSE NextMessage(w, "reject", i)
  /\ UNCHANGED <<client, booked, stops>>

\* An off-by-one in the limit: the last attempt is never made.
LastAttemptEarly(i) == log[i].attempts + 2 >= MaxMatchAttempts

\* An off-by-one in the other direction: one attempt too many.
LastAttemptLate(i) == log[i].attempts >= MaxMatchAttempts

\* The attempt that just failed was the last one the rider gets.
LastAttempt(i) == log[i].attempts + 1 >= MaxMatchAttempts

\* An unmatched rider out of attempts.
Exhaust(w) ==
  /\ pc[w] = "settle"
  /\ \E i \in todo[w] :
       /\ IsFirst(i, todo[w])
       /\ LastAttempt(i)
       /\ SetAside(w, i, "exhausted")
       /\ NextMessage(w, "settle", i)
  /\ UNCHANGED <<client, booked, stops>>

\* Republish in the wrong order: the original is acked before its successor
\* is published.
RepublishAckFirst(w) ==
  /\ pc[w] = "settle"
  /\ \E i \in todo[w] :
       /\ IsFirst(i, todo[w])
       /\ ~LastAttempt(i)
       /\ XAck({i})
       /\ Succeeds(w)
       /\ GoTo(w, "unpend")
  /\ UNCHANGED <<client, booked, stops>>

\* Republish without its ack.
RepublishNoAck(w) ==
  /\ pc[w] = "settle"
  /\ \E i \in todo[w] :
       /\ IsFirst(i, todo[w])
       /\ ~LastAttempt(i)
       /\ XAdd(log[i].req, log[i].attempts + 1)
       /\ Succeeds(w)
       /\ NextMessage(w, "settle", i)
  /\ UNCHANGED <<client, booked, stops>>

\* Republish, first half: publish the request again with one more attempt.
\* Whatever error the caller sees, the original stays pending.
Republish(w) ==
  /\ pc[w] = "settle"
  /\ \E i \in todo[w] :
       /\ IsFirst(i, todo[w])
       /\ ~LastAttempt(i)
       /\ \/ /\ XAdd(log[i].req, log[i].attempts + 1)
             /\ Succeeds(w)
             /\ GoTo(w, "unpend")
          \/ /\ XAdd(log[i].req, log[i].attempts + 1)
             /\ ReplyLost(w)
             /\ NextMessage(w, "settle", i)
          \/ Fails(w) /\ NextMessage(w, "settle", i) /\ UNCHANGED queueVars
  /\ UNCHANGED <<client, booked, stops>>

\* Republish, second half: ack the original.
RepublishAck(w) ==
  /\ pc[w] = "unpend"
  /\ \E i \in todo[w] :
       /\ IsFirst(i, todo[w])
       /\ \/ XAck({i}) /\ (Succeeds(w) \/ ReplyLost(w))
          \/ Fails(w) /\ UNCHANGED queueVars
       /\ NextMessage(w, "settle", i)
  /\ UNCHANGED <<client, booked, stops>>

\* Acking the whole batch at the end, unmatched messages included.
AckAll(w) ==
  /\ pc[w] = "settle" /\ todo[w] = {}
  /\ XAck(batch[w])
  /\ Succeeds(w)
  /\ Return(w)
  /\ UNCHANGED <<client, booked, stops>>

\* Returning without acking the matched messages.
AckNothing(w) ==
  /\ pc[w] = "settle" /\ todo[w] = {}
  /\ Return(w)
  /\ UNCHANGED <<queueVars, client, booked, faults, stops>>

\* After the loop, the matched messages are acked in one XACK.
AckMatched(w) ==
  /\ pc[w] = "settle" /\ todo[w] = {}
  /\ \/ won[w] = {} /\ UNCHANGED <<queueVars, faults>>
     \/ won[w] # {} /\ XAck(won[w]) /\ (Succeeds(w) \/ ReplyLost(w))
     \/ won[w] # {} /\ Fails(w) /\ UNCHANGED queueVars
  /\ Return(w)
  /\ UNCHANGED <<client, booked, stops>>

-----------------------------------------------------------------------------
(* Processes and time *)

\* A fresh process takes the place of b: both goroutines at their start.
Fresh(b) ==
  /\ pc' = [w \in Workers |-> IF w[1] = b THEN Start(w[2]) ELSE pc[w]]
  /\ batch' = [w \in Workers |-> IF w[1] = b THEN {} ELSE batch[w]]
  /\ todo' = [w \in Workers |-> IF w[1] = b THEN {} ELSE todo[w]]
  /\ won' = [w \in Workers |-> IF w[1] = b THEN {} ELSE won[w]]
  /\ seen' = [w \in Workers |-> IF w[1] = b THEN NoCounts ELSE seen[w]]
  /\ ctx' = [ctx EXCEPT ![b] = "live"]
  /\ UNCHANGED <<queueVars, client, booked, faults>>

SpendStop == stops > 0 /\ stops' = stops - 1

\* A process dies, or its shutdown times out, and is replaced.
Crash(b) == SpendStop /\ Fresh(b)

\* SIGTERM cancels the root context.
Shutdown(b) ==
  /\ ctx[b] = "live"
  /\ SpendStop
  /\ ctx' = [ctx EXCEPT ![b] = "cancelled"]
  /\ UNCHANGED <<queueVars, client, pc, batch, todo, won, seen, booked, faults>>

\* Run has returned: the orchestrator starts the next process.
Restart(b) ==
  /\ \A role \in Roles : pc[<<b, role>>] = "stopped"
  /\ Fresh(b)
  /\ UNCHANGED stops

Holds(w) == batch[w] \cup todo[w]

\* Time passes for a pending entry.  Timely: a goroutine that holds a message
\* settles it within ReclaimMinIdle (60 s against a 3 s window).
Age(i) ==
  /\ Timely => \A w \in Workers : i \notin Holds(w)
  /\ BecomeIdle(i)
  /\ UNCHANGED <<client, workerVars, booked, faults, stops>>

-----------------------------------------------------------------------------
ProcessBatch(w) ==
  \/ LookupFails(w) \/ NoDrivers(w) \/ DriversFound(w)
  \/ SolveRetryable(w) \/ SolvePermanent(w) \/ SolveOk(w)
  \/ Reject(w) \/ Exhaust(w) \/ Republish(w) \/ RepublishAck(w) \/ AckMatched(w)

WorkerStep(w) ==
  \/ Consume(w) \/ Flush(w) \/ Drain(w)
  \/ ListPending(w) \/ Claim(w) \/ Poison(w) \/ Reclaimed(w) \/ StopReclaimer(w)
  \/ ProcessBatch(w)

Next ==
  \/ \E r \in Requests : Post(r)
  \/ \E w \in Workers : WorkerStep(w)
  \/ \E b \in Batchers : Crash(b) \/ Shutdown(b) \/ Restart(b)
  \/ \E i \in Ids : Age(i)

Spec == Init /\ [][Next]_vars

\* Goroutines keep running and time passes; no one has to post, and faults,
\* crashes and shutdowns never have to happen.
Fairness ==
  /\ \A w \in Workers : WF_vars(WorkerStep(w))
  /\ \A b \in Batchers : WF_vars(Restart(b))
  /\ \A i \in Ids : WF_vars(Age(i))

FairSpec == Spec /\ Fairness

-----------------------------------------------------------------------------
(* Properties *)

Matched(r) == booked[r] # {}
Settled(r) == Matched(r) \/ DeadLettered(r)

\* A request the API answered 202 is never lost: at every moment it waits in
\* the stream, is pending, has been matched, or is in the dead-letter stream.
NoAcceptedRequestLost ==
  \A r \in Requests : client[r] = "accepted" => Queued(r) \/ Settled(r)

\* An entry is acked only when its request was matched, was dead-lettered, or
\* lives on in a later entry (Republish publishes before it acks).
AckedMeansSettled ==
  \A i \in 1..last : i \notin pel => Settled(log[i].req) \/ Superseded(i)

\* MatchAttempts is earned: an entry says "a attempts" only if an earlier
\* entry of the request, already handed out, said a - 1; and nobody is
\* republished beyond MaxMatchAttempts.
AttemptsEarned ==
  \A i \in 1..Len(log) :
    /\ log[i].attempts < MaxMatchAttempts
    /\ log[i].attempts > 0 =>
         \E j \in 1..(i - 1) : /\ log[j].req = log[i].req
                               /\ log[j].attempts + 1 = log[i].attempts
                               /\ j <= last

\* "No driver found" is told only to a rider who had all the attempts: one
\* delivered entry for each of 0 .. MaxMatchAttempts - 1.
ExhaustedHadAllAttempts ==
  \A d \in dead : d.reason = "exhausted" =>
    \A a \in 0..(MaxMatchAttempts - 1) :
      \E j \in 1..last : log[j].req = d.req /\ log[j].attempts = a

\* While messages are settled in time, no message is in the hands of two
\* goroutines, of one batcher or of two: the reclaimers' XPENDING / XCLAIM race
\* is decided by XCLAIM.
ExclusiveProcessing ==
  \A v, w \in Workers : v # w => Holds(v) \cap Holds(w) = {}

\* No batch sent to the engine names a rider twice.
NoDuplicateInBatch ==
  \A w \in Workers : pc[w] = "solve" => ~DuplicateRider(batch[w])

\* A message past its delivery limit is not processed again.
PoisonNotProcessed ==
  \A w \in Workers : pc[w] \in {"lookup", "solve"} =>
    \A i \in batch[w] : i \in pel => count[i] <= MaxDeliveries

\* Once acked, an entry never becomes pending again: a claim that raced with
\* the ack does not resurrect it.
AckIsFinal == [][\A i \in 1..last : i \notin pel => i \notin pel']_vars

\* Every accepted request is settled in the end.
AcceptedEventuallySettled ==
  \A r \in Requests : client[r] = "accepted" ~> Settled(r)

\* A batcher told to stop stops: its context is cancelled only until Run has
\* returned and the next process has started.
ShutdownCompletes ==
  \A b \in Batchers : ctx[b] # "live" ~> ctx[b] = "live"

-----------------------------------------------------------------------------
(* Claims of the repository's comments and documents that do not hold *)

\* Poison is an infrastructure verdict: without a failed call, a crash or a
\* shutdown no rider is dead-lettered as poison (queue.go, MatchAttempts).
PoisonMeansInfrastructureFault ==
  (\E d \in dead : d.reason = "poison") => faults < MaxFaults \/ stops < MaxStops

\* Two batches being settled at the same time never give one driver to two
\* riders (locks/lease.go).
NoDriverInTwoBatches ==
  \A v, w \in Workers : v # w =>
    \A i \in won[v], j \in won[w] :
      log[i].req # log[j].req => booked[log[i].req] \cap booked[log[j].req] = {}

-----------------------------------------------------------------------------
(* The promise this keeps: RideService *)

Promised == {r \in Requests : client[r] = "accepted"}
Waiting  == {r \in Requests : Queued(r)}
Served   == {r \in Requests : Matched(r)}
Buried   == {r \in Requests : DeadLettered(r)}

AtLeastOnce ==
  INSTANCE RideService WITH
    ExactlyOnce <- FALSE, promised <- Promised, open <- Waiting,
    matched <- Served, dead <- Buried

Once ==
  INSTANCE RideService WITH
    ExactlyOnce <- TRUE, promised <- Promised, open <- Waiting,
    matched <- Served, dead <- Buried

\* Under faults, crashes and delays of any kind, the stream, the goroutines
\* and their calls implement the at-least-once service.
ImplementsAtLeastOnce == AtLeastOnce!Spec

\* Without faults and stops, and while messages are settled in time, every
\* request is matched or dead-lettered exactly once.
ImplementsExactlyOnce == Once!Spec
=============================================================================
