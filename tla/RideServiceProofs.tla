-------------------------- MODULE RideServiceProofs --------------------------
(***************************************************************************)
(* Dispatch implements RideService: the stream, the goroutines and their   *)
(* calls keep the promise of the queue's contract, at least once under any *)
(* fault, exactly once without.  Both while MAXLEN trims nothing.          *)
(***************************************************************************)
EXTENDS DispatchProofs

-----------------------------------------------------------------------------
(* At least once: what each command of the queue does to the four sets *)

serviceVars == <<Promised, Waiting, Served, Buried>>

\* A step of the abstract service, or none.
Serves == AtLeastOnce!Next \/ UNCHANGED serviceVars

\* The invariant of DispatchProofs contains the one of ProcessingProofs.
LEMMA BaseHolds ==
  ASSUME IInv
  PROVE  BInv
BY DEF IInv, QueueInv, WorkerInv, ClientInv, BInv

\* Every request that was ever published waits or is settled.
NoEntryLost == \A i \in 1..Len(log) : Queued(log[i].req) \/ Settled(log[i].req)

\* It follows from the invariant.
LEMMA EntriesKept == IInv => NoEntryLost
BY WaitsOrSettled DEF NoEntryLost

\* The request of an entry that is in the stream.
LEMMA EntryRequest ==
  ASSUME IInv, NEW i \in 1..last
  PROVE  i \in 1..Len(log) /\ log[i].req \in Requests
<1>1. i \in 1..Len(log)
  BY DEF IInv, QueueInv, QueueTypeOK
<1> QED
  BY <1>1, EntryTypes DEF IInv, QueueInv

\* The requests that wait depend on the log and on what is delivered and
\* pending.
LEMMA WaitingSame ==
  ASSUME UNCHANGED <<log, first, last, pel>>
  PROVE  Waiting' = Waiting
BY DEF Waiting, Queued

\* Nobody is matched, dead-lettered or promised anything.
LEMMA OutcomesSame ==
  ASSUME UNCHANGED <<client, booked, dead>>
  PROVE  UNCHANGED <<Promised, Served, Buried>>
BY DEF Promised, Served, Matched, Buried, DeadLettered

\* XADD: the request waits.
LEMMA WaitingAdds ==
  ASSUME IInv, IInv', NEW r \in Requests, NEW a \in Nat, XAdd(r, a)
  PROVE  Waiting' = Waiting \cup {r}
<1>1. /\ Len(log) \in Nat /\ last \in Nat /\ last <= Len(log)
      /\ Len(log') = Len(log) + 1
      /\ \A i \in 1..Len(log) : log'[i] = log[i]
      /\ log'[Len(log) + 1].req = r
      /\ last' = last /\ pel' = pel
      /\ first = 1 /\ first' = 1
  BY DEF XAdd, IInv, QueueInv, QueueTypeOK, Untrimmed
<1>2. ASSUME NEW q \in Requests, Queued(q) PROVE Queued(q)'
  <2>1. PICK i \in 1..Len(log) : log[i].req = q /\ i >= first /\ (i > last \/ i \in pel)
    BY <1>2 DEF Queued
  <2>2. i \in 1..Len(log') /\ log'[i] = log[i]
    BY <1>1
  <2> QED
    BY <1>1, <2>1, <2>2 DEF Queued
<1>3. Queued(r)'
  <2>1. Len(log) + 1 \in 1..Len(log') /\ Len(log) + 1 >= first' /\ Len(log) + 1 > last'
    BY <1>1
  <2> QED
    BY <1>1, <2>1 DEF Queued
<1>4. ASSUME NEW q \in Requests, q # r, Queued(q)' PROVE Queued(q)
  <2>1. PICK i \in 1..Len(log') : log'[i].req = q /\ (i > last \/ i \in pel)
    BY <1>1, <1>4 DEF Queued
  <2>2. i \in 1..Len(log)
    BY <1>1, <1>4, <2>1
  <2> QED
    BY <1>1, <2>1, <2>2 DEF Queued
<1> QED
  BY <1>2, <1>3, <1>4 DEF Waiting

\* XREADGROUP: an entry that was not delivered is pending now.
LEMMA WaitingReads ==
  ASSUME IInv, Reads
  PROVE  Waiting' = Waiting
<1>1. PICK w \in Workers, P \in SUBSET Undelivered :
        /\ FirstN(P, Undelivered, MaxBatchSize - Cardinality(batch[w]))
        /\ XReadGroup(P)
  BY DEF Reads
<1>2. PICK m \in P : (\A i \in P : i <= m) /\ last' = m
  BY <1>1 DEF XReadGroup
<1>3. /\ last \in Nat /\ Len(log) \in Nat /\ last <= Len(log)
      /\ first = 1 /\ first' = first /\ log' = log /\ pel' = pel \cup P
  BY <1>1 DEF XReadGroup, IInv, QueueInv, QueueTypeOK, Untrimmed
<1>4. m \in 1..Len(log) /\ m > last
  BY DEF Undelivered
<1>5. ASSUME NEW i \in 1..Len(log)
      PROVE  (i > last \/ i \in pel) <=> (i > m \/ i \in pel \cup P)
  <2>1. CASE i > last /\ i <= m
    <3>1. i \in Undelivered
      BY <1>3, <2>1 DEF Undelivered
    <3>2. i \in P
      <4>1. i \notin P => m < i
        BY <1>1, <3>1 DEF FirstN
      <4> QED
        BY <1>4, <2>1, <4>1
    <3> QED
      BY <2>1, <3>2
  <2>2. CASE i > m
    BY <1>3, <1>4, <2>2
  <2>3. CASE i <= last
    <3>1. i \notin P
      BY <1>3, <2>3 DEF Undelivered
    <3> QED
      BY <1>3, <1>4, <2>3, <3>1
  <2> QED
    BY <1>3, <1>4, <2>1, <2>2, <2>3
<1> QED
  BY <1>2, <1>3, <1>5 DEF Waiting, Queued

\* Taking entries off the pending list: nobody starts to wait.
LEMMA WaitingShrinks ==
  ASSUME pel' \subseteq pel, UNCHANGED <<log, first, last>>
  PROVE  Waiting' \subseteq Waiting
BY DEF Waiting, Queued

\* XACK: who no longer waits is settled.
LEMMA AcksServe ==
  ASSUME IInv, NoEntryLost', Acks, UNCHANGED <<client, booked>>
  PROVE  Serves
<1>1. pel' \subseteq pel /\ UNCHANGED <<log, first, last, dead>>
  BY DEF Acks, XAck
<1>2. Waiting' \subseteq Waiting
  BY <1>1, WaitingShrinks
<1>3. UNCHANGED <<Promised, Served, Buried>>
  BY <1>1, OutcomesSame
<1> DEFINE S == Waiting \ Waiting'
<1>4. CASE S = {}
  BY <1>2, <1>3, <1>4 DEF Serves, serviceVars
<1>5. CASE S # {}
  <2>1. S \subseteq Served \cup Buried
    <3> SUFFICES ASSUME NEW r \in S PROVE r \in Served \cup Buried
      OBVIOUS
    <3>0. r \in Waiting /\ r \notin Waiting'
      OBVIOUS
    <3>1. r \in Requests /\ Queued(r) /\ ~Queued(r)'
      BY <3>0 DEF Waiting, Queued
    <3>2. PICK i \in 1..Len(log) : log[i].req = r
      BY <3>1 DEF Queued
    <3>3. i \in 1..Len(log') /\ log'[i].req = r
      BY <1>1, <3>2
    <3>4. Settled(r)'
      BY <3>1, <3>3 DEF NoEntryLost
    <3>5. Settled(r)
      BY <1>1, <3>4 DEF Settled, Matched, DeadLettered
    <3> QED
      BY <3>1, <3>5 DEF Settled, Served, Buried
  <2>2. S \in SUBSET Requests /\ S \subseteq Waiting /\ Waiting' = Waiting \ S
    BY <1>2 DEF Waiting
  <2> HIDE DEF S
  <2>3. AtLeastOnce!Close(S)
    BY <1>3, <1>5, <2>1, <2>2 DEF AtLeastOnce!Close
  <2> QED
    BY <2>2, <2>3 DEF Serves, AtLeastOnce!Next
<1> QED
  BY <1>4, <1>5

\* The dead-letter pipeline, whole or half.
LEMMA BuriesServe ==
  ASSUME IInv, Buries, UNCHANGED <<client, booked>>
  PROVE  Serves
<1>1. PICK i \in 1..last, reason \in Reasons, whole \in BOOLEAN :
        DeadLetter(i, reason, whole)
  BY DEF Buries
<1> DEFINE r == log[i].req
<1>2. i \in 1..Len(log) /\ r \in Requests
  BY EntryRequest
<1>3. /\ dead' = dead \cup {Corpse(i, reason)}
      /\ pel' = pel \/ pel' = pel \ {i}
      /\ UNCHANGED <<log, first, last>>
  BY <1>1 DEF DeadLetter
<1>4. Corpse(i, reason).req = r
  BY DEF Corpse
<1>5. Buried' = Buried \cup {r}
  BY <1>2, <1>3, <1>4 DEF Buried, DeadLettered
<1>6. UNCHANGED <<Promised, Served>>
  BY DEF Promised, Served, Matched
<1>7. Waiting' \in {Waiting, Waiting \ {r}}
  <2>1. Waiting' \subseteq Waiting
    BY <1>3, WaitingShrinks
  <2>2. ASSUME NEW q \in Requests, q # r, Queued(q) PROVE Queued(q)'
    <3>1. PICK k \in 1..Len(log) : log[k].req = q /\ k >= first /\ (k > last \/ k \in pel)
      BY <2>2 DEF Queued
    <3>2. k # i
      BY <2>2, <3>1
    <3> QED
      BY <1>3, <3>1, <3>2 DEF Queued
  <2>3. Waiting \ {r} \subseteq Waiting'
    BY <2>2 DEF Waiting
  <2> QED
    BY <2>1, <2>3
<1>8. r \in Waiting \cup Served \cup Buried
  BY <1>2, WaitsOrSettled DEF Settled, Waiting, Served, Buried
<1> HIDE DEF r
<1>9. AtLeastOnce!SetAside(r)
  BY <1>5, <1>6, <1>7, <1>8 DEF AtLeastOnce!SetAside, AtLeastOnce!Known
<1> QED
  BY <1>2, <1>9 DEF Serves, AtLeastOnce!Next, r

\* Steps that answer no client, book nothing and publish nothing.
LEMMA KindsServe ==
  ASSUME IInv, NoEntryLost', StepKind, ~Adds, UNCHANGED <<client, booked>>
  PROVE  Serves
<1>1. CASE UNCHANGED <<log, first, last, pel, dead>>
  BY <1>1, WaitingSame, OutcomesSame DEF Serves, serviceVars
<1>2. CASE Reads
  <2>1. dead' = dead
    BY <1>2 DEF Reads, XReadGroup
  <2> QED
    BY <1>2, <2>1, WaitingReads, OutcomesSame DEF Serves, serviceVars
<1>3. CASE Claims
  <2>1. PICK w \in Workers : XClaim(Listed(w))
    BY <1>3 DEF Claims
  <2>2. \A i \in Ids : ~(i < first)
    BY DEF IInv, QueueInv, Untrimmed, Ids
  <2>3. {i \in XClaimed(Listed(w)) : i < first} = {}
    BY <2>2 DEF XClaimed, Listed
  <2>4. pel' = pel
    BY <2>1, <2>3 DEF XClaim, XClaimed
  <2> QED
    BY <1>1, <2>1, <2>4 DEF XClaim
<1>4. CASE Lists \/ Ages \/ Rests
  BY <1>1, <1>4 DEF Lists, Ages, BecomeIdle, Rests, queueVars
<1> QED
  BY <1>2, <1>3, <1>4, AcksServe, BuriesServe DEF StepKind, Kinds

-----------------------------------------------------------------------------
(* At least once: the actions *)

\* A post, told or not.
LEMMA PostServes ==
  ASSUME IInv, IInv', NEW r \in Requests, Post(r)
  PROVE  Serves
<1>1. client \in [Requests -> {"new", "refused", "accepted"}] /\ r \notin Promised
  BY DEF IInv, ClientInv, ClientTypeOK, Post, Promised
<1>2. client' = [client EXCEPT ![r] = "accepted"] => Promised' = Promised \cup {r}
  BY <1>1 DEF Promised
<1>3. client' = [client EXCEPT ![r] = "refused"] => Promised' = Promised
  BY <1>1 DEF Promised
<1>4. UNCHANGED booked /\ Served' = Served
  BY DEF Post, Served, Matched
<1>5. CASE XAdd(r, 0)
  <2>1. Waiting' = Waiting \cup {r}
    BY <1>5, WaitingAdds
  <2>2. Buried' = Buried
    BY <1>5 DEF XAdd, Buried, DeadLettered
  <2>3. PICK told \in BOOLEAN : Promised' = IF told THEN Promised \cup {r} ELSE Promised
    BY <1>2, <1>3 DEF Post
  <2>4. AtLeastOnce!Submit(r, told)
    BY <1>1, <1>4, <2>1, <2>2, <2>3 DEF AtLeastOnce!Submit
  <2> QED
    BY <2>4 DEF Serves, AtLeastOnce!Next
<1>6. CASE client' = [client EXCEPT ![r] = "refused"] /\ UNCHANGED queueVars
  <2>1. Buried' = Buried
    BY <1>6 DEF queueVars, Buried, DeadLettered
  <2> QED
    BY <1>3, <1>4, <1>6, <2>1, WaitingSame DEF Serves, serviceVars, queueVars
<1> QED
  BY <1>5, <1>6 DEF Post

\* One answer of the engine.
LEMMA SolveOkServes ==
  ASSUME IInv, NEW w \in Workers, SolveOk(w)
  PROVE  Serves
<1>1. PICK m \in Matchings(RequestsOf(batch[w])) :
        booked' = [r \in Requests |->
                     IF r \in DOMAIN m THEN booked[r] \cup {m[r]} ELSE booked[r]]
  BY DEF SolveOk
<1> DEFINE S == DOMAIN m
<1>2. S \subseteq RequestsOf(batch[w])
  BY DEF Matchings
<1>3. \A i \in batch[w] : i \in 1..Len(log) /\ log[i].req \in Requests
  BY EntryRequest DEF IInv, WorkerInv, HeldDelivered
<1>4. S \in SUBSET Requests
  BY <1>2, <1>3 DEF RequestsOf
<1>5. \A r \in S : r \in Waiting \cup Served \cup Buried
  <2> SUFFICES ASSUME NEW r \in S PROVE r \in Waiting \cup Served \cup Buried
    OBVIOUS
  <2>1. PICK i \in batch[w] : log[i].req = r
    BY <1>2 DEF RequestsOf
  <2>2. Queued(r) \/ Settled(r)
    BY <1>3, <2>1, WaitsOrSettled
  <2> QED
    BY <1>4, <2>2 DEF Settled, Waiting, Served, Buried
<1>6. Served' = Served \cup S
  BY <1>1, <1>4 DEF Served, Matched
<1>7. UNCHANGED <<Promised, Waiting, Buried>>
  BY WaitingSame DEF SolveOk, queueVars, Promised, Buried, DeadLettered
<1>8. CASE S = {}
  BY <1>6, <1>7, <1>8 DEF Serves, serviceVars
<1>9. CASE S # {}
  <2> HIDE DEF S
  <2>1. AtLeastOnce!Match(S)
    BY <1>5, <1>6, <1>7, <1>9 DEF AtLeastOnce!Match, AtLeastOnce!Known
  <2> QED
    BY <1>4, <2>1 DEF Serves, AtLeastOnce!Next
<1> QED
  BY <1>8, <1>9

\* Republish: a request that no longer waited was settled, and is open again.
LEMMA RepublishServes ==
  ASSUME IInv, IInv', NEW w \in Workers, Republish(w)
  PROVE  Serves
<1>1. PICK i \in todo[w] : XAdd(log[i].req, log[i].attempts + 1) \/ UNCHANGED queueVars
  BY DEF Republish
<1> DEFINE r == log[i].req
<1>2. i \in 1..Len(log) /\ r \in Requests
  BY EntryRequest DEF IInv, WorkerInv, HeldDelivered
<1>3. log[i].attempts + 1 \in Nat
  BY <1>2, EntryTypes DEF IInv, QueueInv
<1>4. CASE XAdd(log[i].req, log[i].attempts + 1)
  <2>1. Waiting' = Waiting \cup {r}
    BY <1>2, <1>3, <1>4, WaitingAdds
  <2>2. UNCHANGED <<Promised, Served, Buried>>
    BY <1>4, OutcomesSame DEF XAdd, Republish
  <2>3. r \in Waiting \cup Served \cup Buried
    BY <1>2, WaitsOrSettled DEF Settled, Waiting, Served, Buried
  <2> HIDE DEF r
  <2>4. CASE r \in Waiting
    <3>1. Waiting' = Waiting
      BY <2>1, <2>4
    <3> QED
      BY <2>2, <3>1 DEF Serves, serviceVars
  <2>5. CASE r \in Served \cup Buried
    <3>1. AtLeastOnce!Reopen(r)
      BY <2>1, <2>2, <2>5 DEF AtLeastOnce!Reopen
    <3> QED
      BY <1>2, <3>1 DEF Serves, AtLeastOnce!Next, r
  <2> QED
    BY <2>3, <2>4, <2>5
<1>5. CASE UNCHANGED queueVars
  BY <1>5, WaitingSame, OutcomesSame DEF Serves, serviceVars, queueVars, Republish
<1> QED
  BY <1>1, <1>4, <1>5

\* Nothing is published but by Post and Republish.
LEMMA Unpublished ==
  ASSUME QueueTypeOK, log' = log
  PROVE  ~Adds
<1> SUFFICES ASSUME NEW r \in Requests, NEW a \in Nat,
                    log = Append(log, [req |-> r, attempts |-> a])
             PROVE  FALSE
  BY DEF Adds, XAdd
<1>1. log \in Seq(Entry) /\ [req |-> r, attempts |-> a] \in Entry
  BY DEF QueueTypeOK, Entry
<1> QED
  BY <1>1

\* Every step is one of the service, or invisible to its clients.
LEMMA NextServes ==
  ASSUME IInv, IInv', NoEntryLost', [Next]_vars
  PROVE  Serves
<1>1. StepKind
  BY NextKind, BaseHolds
<1>2. CASE UNCHANGED <<client, booked, log>>
  BY <1>1, <1>2, Unpublished, KindsServe DEF IInv, QueueInv
<1>3. CASE UNCHANGED vars
  BY <1>2, <1>3 DEF vars, queueVars
<1>4. ASSUME NEW w \in Workers, WorkerStep(w) PROVE Serves
  <2>1. CASE Republish(w)
    BY <2>1, RepublishServes
  <2>2. CASE SolveOk(w)
    BY <2>2, SolveOkServes
  <2>3. CASE Consume(w)
    BY <1>2, <2>3 DEF Consume, XReadGroup
  <2>4. CASE Claim(w)
    BY <1>2, <2>4 DEF Claim, XClaim, queueVars
  <2>5. CASE Poison(w)
    BY <1>2, <2>5 DEF Poison, DeadLetter, queueVars
  <2>6. CASE Reject(w) \/ Exhaust(w)
    BY <1>2, <2>6 DEF Reject, Exhaust, SetAside, DeadLetter, queueVars
  <2>7. CASE RepublishAck(w) \/ AckMatched(w)
    BY <1>2, <2>7 DEF RepublishAck, AckMatched, XAck, queueVars
  <2>8. CASE UNCHANGED <<queueVars, client, booked>>
    BY <1>2, <2>8 DEF queueVars
  <2> QED
    BY <1>4, <2>1, <2>2, <2>3, <2>4, <2>5, <2>6, <2>7, <2>8
       DEF WorkerStep, ProcessBatch, Flush, Drain, ListPending, Reclaimed, StopReclaimer,
           LookupFails, NoDrivers, DriversFound, SolveRetryable, SolvePermanent
<1>5. ASSUME NEW b \in Batchers, Crash(b) \/ Shutdown(b) \/ Restart(b) PROVE Serves
  BY <1>2, <1>5 DEF Crash, Shutdown, Restart, Fresh, queueVars
<1>6. ASSUME NEW i \in Ids, Age(i) PROVE Serves
  BY <1>2, <1>6 DEF Age, BecomeIdle
<1> QED
  BY <1>3, <1>4, <1>5, <1>6, PostServes DEF Next

\* Under faults, crashes and delays of any kind, with any number of batchers,
\* the API, the queue and the batchers implement the at-least-once service:
\* what the client was promised stays open until it is matched or
\* dead-lettered, and only what is settled is closed.
THEOREM AtLeastOnceService ==
  ASSUME MaxEntries <= MaxLen
  PROVE  Spec => ImplementsAtLeastOnce
<1>1. Init => AtLeastOnce!Init
  <2> SUFFICES ASSUME Init PROVE AtLeastOnce!Init
    OBVIOUS
  <2>1. log = <<>> /\ dead = {}
    BY DEF Init, QueueInit
  <2>2. Len(log) = 0
    BY <2>1
  <2>3. Promised = {} /\ Served = {}
    BY DEF Init, Promised, Served, Matched
  <2>4. Waiting = {} /\ Buried = {}
    BY <2>1, <2>2 DEF Waiting, Queued, Buried, DeadLettered
  <2> QED
    BY <2>3, <2>4 DEF AtLeastOnce!Init
<1>2. IInv /\ IInv' /\ NoEntryLost' /\ [Next]_vars
      => [AtLeastOnce!Next]_(AtLeastOnce!vars)
  BY NextServes DEF Serves, serviceVars, AtLeastOnce!vars
<1> QED
  BY <1>1, <1>2, EntriesKept, Invariance, PTL DEF Spec, ImplementsAtLeastOnce, AtLeastOnce!Spec
-----------------------------------------------------------------------------
(* Exactly once: the invariant of a system without faults and stops whose  *)
(* goroutines settle messages in time                                      *)

\* Entries that wait or are pending.
Alive == {i \in 1..Len(log) : i > last \/ i \in pel}

\* Entries between the two halves of Republish: published again, to be acked.
Replaced == {i \in Ids : \E w \in Workers : pc[w] = "unpend" /\ IsFirst(i, todo[w])}

\* Matched entries whose ack is to come at the end of their batch.
Matches ==
  {i \in Ids : \E w \in Workers : pc[w] \in {"settle", "unpend"} /\ i \in won[w]}

\* Without shutdowns no context is cancelled and no goroutine stops.
Running ==
  /\ \A b \in Batchers : ctx[b] = "live"
  /\ \A w \in Workers : pc[w] # "stopped"

\* A goroutine at step p with batch B, messages T to settle and W matched:
\* what it has still to settle is pending (L).
PendingIn(p, B, T, W, L) ==
  /\ p \in {"collect", "lookup", "solve", "poison"} => B \subseteq L
  /\ p \in {"poison", "reject", "settle", "unpend"} => T \subseteq L
  /\ p = "poison" => B \cap T = {}
  /\ p \in {"settle", "unpend"} => W \subseteq L /\ W \subseteq B \ T

HeldPending ==
  \A w \in Workers : PendingIn(pc[w], batch[w], todo[w], won[w], pel)

\* A request has one entry that is alive, but for those that Republish is
\* about to ack.
OneAlive ==
  \A i, j \in Alive : i < j /\ log[i].req = log[j].req => i \in Replaced

\* The request of an entry that is alive is not settled, but for a match whose
\* ack is to come.
AliveOpen ==
  \A i \in Alive \ Replaced :
    /\ log[i].req \notin Buried
    /\ log[i].req \in Served => i \in Matches

\* Nobody is refused, and what was not posted has no entry and no outcome.
Posted ==
  \A r \in Requests :
    /\ client[r] # "refused"
    /\ client[r] = "new" => /\ r \notin Served \cup Buried
                            /\ \A i \in 1..Len(log) : log[i].req # r

CalmInv ==
  /\ HoldInv
  /\ Running
  /\ HeldPending
  /\ OneAlive
  /\ AliveOpen
  /\ Posted

\* A step opens only what has no outcome, settles only what is open and has
\* none, and promises only what is new.
OnceOnly ==
  /\ \A i \in Alive' \ Alive :
       log'[i].req \in {log[k].req : k \in Alive} \/ log'[i].req \notin Served \cup Buried
  /\ \A r \in (Served' \ Served) \cup (Buried' \ Buried) :
       /\ r \notin Served \cup Buried
       /\ \E i \in Alive : log[i].req = r
  /\ \A r \in Promised' \ Promised :
       r \notin Served \cup Buried /\ \A i \in 1..Len(log) : log[i].req # r

CalmStep ==
  Running' /\ HeldPending' /\ OneAlive' /\ AliveOpen' /\ Posted' /\ OnceOnly

\* No goroutine but w moves.
Others(w) ==
  \A v \in Workers \ {w} : /\ pc'[v] = pc[v]
                           /\ batch'[v] = batch[v]
                           /\ todo'[v] = todo[v]
                           /\ won'[v] = won[v]

-----------------------------------------------------------------------------
(* Exactly once: calls and moves *)

\* Every call succeeds.
LEMMA CallsSucceed ==
  ASSUME MaxFaults = 0, CalmInv, NEW w \in Workers
  PROVE  Live(w) /\ ~ReplyLost(w) /\ ~Fails(w) /\ ~SpendFault
<1>1. w[1] \in Batchers
  BY DEF Workers
<1>2. Live(w)
  BY <1>1 DEF CalmInv, Running, Live
<1>3. faults = 0
  BY DEF CalmInv, HoldInv, BInv, ClientTypeOK
<1>4. ~SpendFault
  BY <1>3 DEF SpendFault
<1> QED
  BY <1>2, <1>4 DEF ReplyLost, Fails

\* processBatch returns to the loop that called it.
LEMMA ReturnMoves ==
  ASSUME CalmInv, NEW w \in Workers, Return(w)
  PROVE  /\ Others(w) /\ Running'
         /\ pc'[w] \in {"collect", "tick"}
         /\ batch'[w] = {} /\ todo'[w] = {} /\ won'[w] = {}
<1>1. WorkerTypeOK /\ w[1] \in Batchers
  BY DEF CalmInv, HoldInv, BInv, Workers
<1>2. pc' = [pc EXCEPT ![w] = Start(w[2])]
  BY <1>1 DEF Return, CalmInv, Running
<1>3. pc'[w] \in {"collect", "tick"}
  BY <1>1, <1>2 DEF WorkerTypeOK, Start
<1>4. batch'[w] = {} /\ todo'[w] = {} /\ won'[w] = {}
  BY <1>1 DEF WorkerTypeOK, Return
<1>5. Others(w)
  BY <1>1, <1>2 DEF WorkerTypeOK, Return, Others
<1>6. Running'
  BY <1>3, <1>5 DEF Return, CalmInv, Running, Others
<1> QED
  BY <1>3, <1>4, <1>5, <1>6

\* A goroutine goes to another step.
LEMMA GoToMoves ==
  ASSUME CalmInv, NEW w \in Workers, NEW step \in Steps \ {"stopped"}, GoTo(w, step)
  PROVE  /\ Others(w) /\ Running'
         /\ pc'[w] = step
         /\ UNCHANGED <<batch, todo, won>>
<1>1. WorkerTypeOK
  BY DEF CalmInv, HoldInv, BInv
<1>2. pc'[w] = step /\ Others(w)
  BY <1>1 DEF WorkerTypeOK, GoTo, Others
<1>3. Running'
  BY <1>2 DEF GoTo, CalmInv, Running, Others
<1> QED
  BY <1>2, <1>3 DEF GoTo

\* A loop over messages leaves one behind.
LEMMA NextMessageMoves ==
  ASSUME CalmInv, NEW w \in Workers, NEW step \in Steps \ {"stopped"}, NEW i,
         NextMessage(w, step, i)
  PROVE  /\ Others(w) /\ Running'
         /\ pc'[w] = step
         /\ batch' = batch /\ won' = won
         /\ todo'[w] = todo[w] \ {i}
<1>1. WorkerTypeOK
  BY DEF CalmInv, HoldInv, BInv
<1>2. pc'[w] = step /\ Others(w) /\ todo'[w] = todo[w] \ {i}
  BY <1>1 DEF WorkerTypeOK, NextMessage, Others
<1>3. Running'
  BY <1>2 DEF NextMessage, CalmInv, Running, Others
<1> QED
  BY <1>2, <1>3 DEF NextMessage

\* What the others hold stays pending when w settles what it holds itself.
LEMMA HeldStep ==
  ASSUME CalmInv, NEW w \in Workers, Others(w), pel \ Holds(w) \subseteq pel',
         PendingIn(pc'[w], batch'[w], todo'[w], won'[w], pel')
  PROVE  HeldPending'
<1> SUFFICES ASSUME NEW v \in Workers, v # w
             PROVE  PendingIn(pc'[v], batch'[v], todo'[v], won'[v], pel')
  BY DEF HeldPending
<1>1. (batch[v] \cup todo[v]) \cap Holds(w) = {}
  BY DEF CalmInv, HoldInv, ExclusiveProcessing, Holds
<1>2. PendingIn(pc[v], batch[v], todo[v], won[v], pel)
  BY DEF CalmInv, HeldPending
<1>3. PendingIn(pc[v], batch[v], todo[v], won[v], pel')
  BY <1>1, <1>2 DEF PendingIn
<1> QED
  BY <1>3 DEF Others

\* What w holds is not being replaced by anyone else.
LEMMA NotReplaced ==
  ASSUME CalmInv, NEW w \in Workers, NEW i \in Holds(w), pc[w] # "unpend"
  PROVE  i \notin Replaced
<1> SUFFICES ASSUME NEW v \in Workers, pc[v] = "unpend", IsFirst(i, todo[v])
             PROVE  FALSE
  BY DEF Replaced
<1>1. v # w /\ i \in Holds(v)
  BY DEF IsFirst, Holds
<1> QED
  BY <1>1 DEF CalmInv, HoldInv, ExclusiveProcessing

\* What w holds is a match of nobody else.
LEMMA NotMatched ==
  ASSUME CalmInv, NEW w \in Workers, NEW i \in Holds(w),
         pc[w] \in {"settle", "unpend"} => i \notin won[w]
  PROVE  i \notin Matches
<1> SUFFICES ASSUME NEW v \in Workers, pc[v] \in {"settle", "unpend"}, i \in won[v]
             PROVE  FALSE
  BY DEF Matches
<1>1. v # w
  OBVIOUS
<1>2. i \in Holds(v)
  BY DEF CalmInv, HeldPending, PendingIn, Holds
<1> QED
  BY <1>1, <1>2 DEF CalmInv, HoldInv, ExclusiveProcessing

\* A message in the hands of a goroutine that has not settled it is alive, and
\* its request is open and has no outcome.
LEMMA HeldOpen ==
  ASSUME CalmInv, NEW w \in Workers, NEW i \in Holds(w), i \in pel, pc[w] # "unpend",
         pc[w] = "settle" => i \notin won[w]
  PROVE  i \in Alive /\ i \notin Replaced /\ log[i].req \notin Served \cup Buried
<1>1. i \in 1..last
  BY DEF CalmInv, HoldInv, BInv, PendingDelivered
<1>2. i \in Alive
  BY <1>1 DEF CalmInv, HoldInv, BInv, QueueTypeOK, Alive
<1>3. i \notin Replaced /\ i \notin Matches
  BY NotReplaced, NotMatched
<1> QED
  BY <1>2, <1>3 DEF CalmInv, AliveOpen

\* If its request has another entry that is alive, that one is being replaced.
LEMMA HeldOnly ==
  ASSUME CalmInv, NEW w \in Workers, NEW i \in Holds(w), i \in Alive, i \notin Replaced,
         NEW j \in Alive, j # i, log[j].req = log[i].req
  PROVE  j \in Replaced
<1>1. i \in Nat /\ j \in Nat
  BY DEF Alive
<1> QED
  BY <1>1 DEF CalmInv, OneAlive

\* The entries being replaced, or waiting for their ack, that are not w's.
LEMMA OthersSame ==
  ASSUME NEW w \in Workers, Others(w)
  PROVE  /\ pc[w] # "unpend" => Replaced \subseteq Replaced'
         /\ pc[w] \notin {"settle", "unpend"} => Matches \subseteq Matches'
         /\ (pc'[w] \in {"settle", "unpend"} /\ won'[w] = won[w]) => Matches \subseteq Matches'
<1>1. ASSUME pc[w] # "unpend", NEW i \in Replaced PROVE i \in Replaced'
  <2>1. PICK v \in Workers : pc[v] = "unpend" /\ IsFirst(i, todo[v])
    BY DEF Replaced
  <2>2. v # w /\ pc'[v] = "unpend" /\ IsFirst(i, todo'[v])
    BY <1>1, <2>1 DEF Others
  <2> QED
    BY <2>2 DEF Replaced, IsFirst
<1>2. ASSUME \/ pc[w] \notin {"settle", "unpend"}
             \/ pc'[w] \in {"settle", "unpend"} /\ won'[w] = won[w],
             NEW i \in Matches
      PROVE  i \in Matches'
  <2>1. PICK v \in Workers : pc[v] \in {"settle", "unpend"} /\ i \in won[v]
    BY DEF Matches
  <2>2. pc'[v] \in {"settle", "unpend"} /\ i \in won'[v]
    BY <1>2, <2>1 DEF Others
  <2> QED
    BY <2>2 DEF Matches
<1> QED
  BY <1>1, <1>2

\* Steps that publish nothing and settle nobody.
LEMMA QuietCalm ==
  ASSUME CalmInv, Running', HeldPending', UNCHANGED <<log, client, booked, dead>>,
         Alive' \subseteq Alive,
         Alive' \cap Replaced \subseteq Replaced',
         Alive' \cap Matches \subseteq Matches'
  PROVE  CalmStep
<1>1. UNCHANGED <<Promised, Served, Buried>>
  BY OutcomesSame
<1>2. OneAlive' /\ AliveOpen'
  BY <1>1 DEF CalmInv, OneAlive, AliveOpen
<1>3. Posted'
  BY <1>1 DEF CalmInv, Posted
<1>4. OnceOnly
  BY <1>1 DEF OnceOnly
<1> QED
  BY <1>2, <1>3, <1>4 DEF CalmStep

-----------------------------------------------------------------------------
(* Exactly once: one lemma per action *)

\* The pending list, and what is alive.
LEMMA AliveShrinks ==
  ASSUME UNCHANGED <<log, last>>, pel' \subseteq pel
  PROVE  Alive' \subseteq Alive
BY DEF Alive

\* Consume: what was not delivered is pending now.
LEMMA ConsumeCalm ==
  ASSUME MaxFaults = 0, CalmInv, NEW w \in Workers, Consume(w)
  PROVE  CalmStep
<1>1. PICK P \in (SUBSET Undelivered) \ {{}} :
        /\ XReadGroup(P)
        /\ batch' = [batch EXCEPT ![w] = @ \cup P]
        /\ pc' = [pc EXCEPT ![w] =
                    IF Cardinality(batch[w] \cup P) >= MaxBatchSize
                    THEN "lookup" ELSE "collect"]
        /\ UNCHANGED <<todo, won, seen, ctx>>
  BY CallsSucceed DEF Consume
<1>2. WorkerTypeOK /\ QueueTypeOK
  BY DEF CalmInv, HoldInv, BInv
<1>3. Others(w) /\ batch'[w] = batch[w] \cup P /\ pc'[w] \in {"lookup", "collect"}
  BY <1>1, <1>2 DEF WorkerTypeOK, Others
<1>4. pel' = pel \cup P /\ log' = log
  BY <1>1 DEF XReadGroup
<1>5. Running'
  BY <1>1, <1>3 DEF CalmInv, Running, Others
<1>6. HeldPending'
  <2>1. batch[w] \subseteq pel
    BY DEF CalmInv, HeldPending, PendingIn, Consume
  <2>2. PendingIn(pc'[w], batch'[w], todo'[w], won'[w], pel')
    BY <1>3, <1>4, <2>1 DEF PendingIn
  <2> QED
    BY <1>3, <1>4, <2>2, HeldStep
<1>7. Alive' \subseteq Alive
  <2>1. P \subseteq Alive
    BY DEF Undelivered, Alive
  <2>2. last' > last /\ last' \in Nat /\ last \in Nat
    BY <1>1, <1>2 DEF XReadGroup, Undelivered, QueueTypeOK
  <2> QED
    BY <1>4, <2>1, <2>2 DEF Alive
<1>8. Replaced \subseteq Replaced' /\ Matches \subseteq Matches'
  BY <1>3, OthersSame DEF Consume
<1> QED
  BY <1>1, <1>5, <1>6, <1>7, <1>8, QuietCalm DEF XReadGroup, Consume

\* Steps of w alone that leave the queue alone.
LEMMA MoveCalm ==
  ASSUME CalmInv, NEW w \in Workers, Others(w), Running',
         UNCHANGED <<queueVars, client, booked>>, pc[w] \notin {"settle", "unpend"},
         PendingIn(pc'[w], batch'[w], todo'[w], won'[w], pel)
  PROVE  CalmStep
<1>1. UNCHANGED <<log, last, pel, dead>>
  BY DEF queueVars
<1>2. HeldPending'
  BY <1>1, HeldStep
<1>3. Replaced \subseteq Replaced' /\ Matches \subseteq Matches'
  BY OthersSame
<1>4. Alive' \subseteq Alive
  BY <1>1, AliveShrinks
<1> QED
  BY <1>1, <1>2, <1>3, <1>4, QuietCalm

\* processBatch, or Reclaim, returns with nothing done.
LEMMA ReturnCalm ==
  ASSUME CalmInv, NEW w \in Workers, Return(w),
         UNCHANGED <<queueVars, client, booked>>, pc[w] \notin {"settle", "unpend"}
  PROVE  CalmStep
<1>1. /\ Others(w) /\ Running'
      /\ pc'[w] \in {"collect", "tick"}
      /\ batch'[w] = {} /\ todo'[w] = {} /\ won'[w] = {}
  BY ReturnMoves
<1>2. PendingIn(pc'[w], batch'[w], todo'[w], won'[w], pel)
  BY <1>1 DEF PendingIn
<1> QED
  BY <1>1, <1>2, MoveCalm

\* The loops' own steps and the driver lookup.
LEMMA LoopCalm ==
  ASSUME MaxFaults = 0, CalmInv, NEW w \in Workers,
         \/ Flush(w) \/ Drain(w) \/ ListPending(w) \/ Reclaimed(w) \/ StopReclaimer(w)
         \/ LookupFails(w) \/ NoDrivers(w) \/ DriversFound(w) \/ SolveRetryable(w)
  PROVE  CalmStep
<1>1. w[1] \in Batchers /\ ctx[w[1]] = "live"
  BY DEF Workers, CalmInv, Running
<1>2. ~Drain(w) /\ ~StopReclaimer(w) /\ ~LookupFails(w) /\ ~SolveRetryable(w)
  BY <1>1, CallsSucceed DEF Drain, StopReclaimer, LookupFails, SolveRetryable
<1>3. PendingIn(pc[w], batch[w], todo[w], won[w], pel)
  BY DEF CalmInv, HeldPending
<1>4. ASSUME NEW step \in {"lookup", "solve"}, GoTo(w, step), UNCHANGED <<queueVars, client, booked>>,
             pc[w] \in {"collect", "lookup", "poison"}
      PROVE  CalmStep
  <2>1. /\ Others(w) /\ Running'
        /\ pc'[w] = step
        /\ UNCHANGED <<batch, todo, won>>
    BY <1>4, GoToMoves DEF Steps
  <2>2. PendingIn(pc'[w], batch'[w], todo'[w], won'[w], pel)
    BY <1>3, <1>4, <2>1 DEF PendingIn
  <2> QED
    BY <1>4, <2>1, <2>2, MoveCalm
<1>5. CASE Flush(w)
  BY <1>4, <1>5 DEF Flush
<1>6. CASE DriversFound(w)
  BY <1>4, <1>6 DEF DriversFound
<1>7. CASE NoDrivers(w)
  BY <1>7, ReturnCalm DEF NoDrivers
<1>8. CASE Reclaimed(w)
  BY <1>4, <1>8, ReturnCalm DEF Reclaimed
<1>9. CASE ListPending(w)
  <2>1. Others(w) /\ pc'[w] = "claim" /\ UNCHANGED <<batch, todo, won>>
    BY <1>9 DEF ListPending, Others, CalmInv, HoldInv, BInv, WorkerTypeOK
  <2>2. Running'
    BY <1>9, <2>1 DEF ListPending, CalmInv, Running, Others
  <2>3. PendingIn(pc'[w], batch'[w], todo'[w], won'[w], pel)
    BY <2>1 DEF PendingIn
  <2> QED
    BY <1>9, <2>1, <2>2, <2>3, MoveCalm DEF ListPending
<1> QED
  BY <1>2, <1>5, <1>6, <1>7, <1>8, <1>9

\* A refused batch: every message is to be dead-lettered.
LEMMA SolvePermanentCalm ==
  ASSUME CalmInv, NEW w \in Workers, SolvePermanent(w)
  PROVE  CalmStep
<1>1. /\ Others(w) /\ pc'[w] = "reject" /\ todo'[w] = batch[w]
      /\ UNCHANGED <<batch, won, ctx>>
  BY DEF SolvePermanent, Others, CalmInv, HoldInv, BInv, WorkerTypeOK
<1>2. Running'
  BY <1>1 DEF CalmInv, Running, Others
<1>3. batch[w] \subseteq pel
  BY DEF CalmInv, HeldPending, PendingIn, SolvePermanent
<1>4. PendingIn(pc'[w], batch'[w], todo'[w], won'[w], pel)
  BY <1>1, <1>3 DEF PendingIn
<1> QED
  BY <1>1, <1>2, <1>4, MoveCalm DEF SolvePermanent

\* XCLAIM: what w gets is pending, and nobody held it.
LEMMA ClaimCalm ==
  ASSUME MaxFaults = 0, CalmInv, NEW w \in Workers, Claim(w)
  PROVE  CalmStep
<1> DEFINE got == {i \in XClaimed(Listed(w)) : i >= first}
<1>1. /\ XClaim(Listed(w)) /\ UNCHANGED <<client, booked>>
      /\ \/ Return(w)
         \/ /\ batch' = [batch EXCEPT ![w] = got \ OverLimit(w, got)]
            /\ todo' = [todo EXCEPT ![w] = OverLimit(w, got)]
            /\ pc' = [pc EXCEPT ![w] = "poison"]
            /\ UNCHANGED <<won, ctx>>
  BY CallsSucceed DEF Claim
<1>2. /\ pel' = pel \ {i \in XClaimed(Listed(w)) : i < first}
      /\ UNCHANGED <<log, last, dead>>
  BY <1>1 DEF XClaim, XClaimed
<1>3. XClaimed(Listed(w)) \subseteq Ids /\ XClaimed(Listed(w)) \subseteq pel \cap idle
  BY DEF XClaimed, Listed
<1>4. got \subseteq pel' /\ pel' \subseteq pel
  BY <1>2, <1>3, QueueAssumption DEF Ids, CalmInv, HoldInv, BInv, QueueTypeOK
<1>5. OverLimit(w, got) \subseteq got
  BY DEF OverLimit
<1>6. \A v \in Workers : (batch[v] \cup todo[v]) \cap idle = {}
  BY DEF CalmInv, HoldInv, HeldNotIdle, Holds
<1>7. \A v \in Workers : \A i \in batch[v] \cup todo[v] : i \in pel => i \in pel'
  BY <1>2, <1>3, <1>6
<1> HIDE DEF got
<1>8. Others(w) /\ Running' /\ PendingIn(pc'[w], batch'[w], todo'[w], won'[w], pel')
  <2>1. CASE Return(w)
    <3>1. /\ Others(w) /\ Running'
          /\ pc'[w] \in {"collect", "tick"}
          /\ batch'[w] = {} /\ todo'[w] = {} /\ won'[w] = {}
      BY <2>1, ReturnMoves
    <3> QED
      BY <3>1 DEF PendingIn
  <2>2. CASE /\ batch' = [batch EXCEPT ![w] = got \ OverLimit(w, got)]
             /\ todo' = [todo EXCEPT ![w] = OverLimit(w, got)]
             /\ pc' = [pc EXCEPT ![w] = "poison"]
             /\ UNCHANGED <<won, ctx>>
    <3>1. /\ Others(w) /\ pc'[w] = "poison"
          /\ batch'[w] = got \ OverLimit(w, got)
          /\ todo'[w] = OverLimit(w, got)
      BY <2>2 DEF Others, CalmInv, HoldInv, BInv, WorkerTypeOK
    <3>2. Running'
      BY <2>2, <3>1 DEF CalmInv, Running, Others
    <3>3. PendingIn(pc'[w], batch'[w], todo'[w], won'[w], pel')
      BY <1>4, <1>5, <3>1 DEF PendingIn
    <3> QED
      BY <3>1, <3>2, <3>3
  <2> QED
    BY <1>1, <2>1, <2>2
<1>9. HeldPending'
  <2> SUFFICES ASSUME NEW v \in Workers, v # w
               PROVE  PendingIn(pc'[v], batch'[v], todo'[v], won'[v], pel')
    BY <1>8 DEF HeldPending
  <2>1. PendingIn(pc[v], batch[v], todo[v], won[v], pel)
    BY DEF CalmInv, HeldPending
  <2>2. PendingIn(pc[v], batch[v], todo[v], won[v], pel')
    BY <1>7, <2>1 DEF PendingIn
  <2> QED
    BY <1>8, <2>2 DEF Others
<1>10. Alive' \subseteq Alive
  BY <1>2, <1>4, AliveShrinks
<1>11. Replaced \subseteq Replaced' /\ Matches \subseteq Matches'
  BY <1>8, OthersSame DEF Claim
<1> QED
  BY <1>1, <1>2, <1>8, <1>9, <1>10, <1>11, QuietCalm

\* Dead-lettering a message: its request was open and had no outcome.
LEMMA BuryCalm ==
  ASSUME CalmInv, NEW w \in Workers, NEW i \in todo[w], NEW reason \in Reasons,
         pc[w] \in {"poison", "reject", "settle"}, DeadLetter(i, reason, TRUE),
         UNCHANGED <<client, booked>>, Others(w), Running',
         PendingIn(pc'[w], batch'[w], todo'[w], won'[w], pel \ {i}),
         pc[w] = "settle" => pc'[w] = "settle" /\ won'[w] = won[w]
  PROVE  CalmStep
<1> DEFINE r == log[i].req
<1>1. /\ pel' = pel \ {i}
      /\ dead' = dead \cup {Corpse(i, reason)}
      /\ UNCHANGED <<log, last>>
  BY DEF DeadLetter
<1>2. PendingIn(pc[w], batch[w], todo[w], won[w], pel) /\ i \in Holds(w)
  BY DEF CalmInv, HeldPending, Holds
<1>3. i \in pel /\ (pc[w] = "settle" => i \notin won[w])
  BY <1>2 DEF PendingIn
<1>4. i \in Alive /\ i \notin Replaced /\ r \notin Served \cup Buried
  BY <1>2, <1>3, HeldOpen
<1>5. HeldPending'
  <2>1. pel \ Holds(w) \subseteq pel'
    BY <1>1, <1>2
  <2> QED
    BY <1>1, <2>1, HeldStep
<1>6. Alive' \subseteq Alive \ {i}
  <2>1. i \in 1..last
    BY DEF CalmInv, HoldInv, BInv, HeldDelivered
  <2>2. last \in Nat
    BY DEF CalmInv, HoldInv, BInv, QueueTypeOK
  <2> QED
    BY <1>1, <2>1, <2>2 DEF Alive
<1>7. Replaced \subseteq Replaced' /\ Matches \subseteq Matches'
  BY OthersSame
<1>8. i \in 1..Len(log) /\ r \in Requests
  BY <1>4, EntryTypes DEF Alive, CalmInv, HoldInv, BInv
<1>9. UNCHANGED <<Promised, Served>> /\ Buried' = Buried \cup {r}
  <2>1. Corpse(i, reason).req = r
    BY DEF Corpse
  <2> QED
    BY <1>1, <1>8, <2>1 DEF Promised, Served, Matched, Buried, DeadLettered
<1>10. \A j \in Alive' : log[j].req = r => j \in Replaced
  BY <1>2, <1>4, <1>6, HeldOnly
<1>11. OneAlive'
  BY <1>1, <1>6, <1>7 DEF CalmInv, OneAlive
<1>12. AliveOpen'
  BY <1>1, <1>6, <1>7, <1>9, <1>10 DEF CalmInv, AliveOpen
<1>13. Posted'
  BY <1>1, <1>8, <1>9 DEF CalmInv, Posted
<1>14. OnceOnly
  BY <1>4, <1>6, <1>9 DEF OnceOnly
<1> QED
  BY <1>5, <1>11, <1>12, <1>13, <1>14 DEF CalmStep

\* Reclaim, the loop of a refused batch, and riders out of attempts.
LEMMA BuriesCalm ==
  ASSUME MaxFaults = 0, CalmInv, NEW w \in Workers,
         Poison(w) \/ Reject(w) \/ Exhaust(w)
  PROVE  CalmStep
<1>1. PendingIn(pc[w], batch[w], todo[w], won[w], pel)
  BY DEF CalmInv, HeldPending
<1>2. ASSUME NEW i \in todo[w], NEW reason \in Reasons, DeadLetter(i, reason, TRUE),
             UNCHANGED <<client, booked>>, pc[w] \in {"poison", "reject", "settle"},
             NextMessage(w, pc[w], i)
      PROVE  CalmStep
  <2>1. /\ Others(w) /\ Running'
        /\ pc'[w] = pc[w]
        /\ batch' = batch /\ won' = won
        /\ todo'[w] = todo[w] \ {i}
    BY <1>2, NextMessageMoves DEF Steps
  <2>2. PendingIn(pc'[w], batch'[w], todo'[w], won'[w], pel \ {i})
    BY <1>1, <1>2, <2>1 DEF PendingIn
  <2> QED
    BY <1>2, <2>1, <2>2, BuryCalm
<1>3. CASE Poison(w)
  <2>1. PICK i \in todo[w] : DeadLetter(i, "poison", TRUE) /\ NextMessage(w, "poison", i)
    BY <1>3, CallsSucceed DEF Poison
  <2> QED
    BY <1>2, <1>3, <2>1 DEF Poison, Reasons
<1>4. CASE Exhaust(w)
  <2>1. PICK i \in todo[w] : DeadLetter(i, "exhausted", TRUE) /\ NextMessage(w, "settle", i)
    BY <1>4, CallsSucceed DEF Exhaust, SetAside
  <2> QED
    BY <1>2, <1>4, <2>1 DEF Exhaust, Reasons
<1>5. CASE Reject(w)
  <2>1. PICK i \in todo[w] : /\ DeadLetter(i, "rejected", TRUE)
                             /\ Return(w) \/ NextMessage(w, "reject", i)
    BY <1>5, CallsSucceed DEF Reject, SetAside
  <2>2. CASE NextMessage(w, "reject", i)
    BY <1>2, <1>5, <2>1, <2>2 DEF Reject, Reasons
  <2>3. CASE Return(w)
    <3>1. /\ Others(w) /\ Running'
          /\ pc'[w] \in {"collect", "tick"}
          /\ batch'[w] = {} /\ todo'[w] = {} /\ won'[w] = {}
      BY <2>3, ReturnMoves
    <3>2. PendingIn(pc'[w], batch'[w], todo'[w], won'[w], pel \ {i})
      BY <3>1 DEF PendingIn
    <3> QED
      BY <1>5, <2>1, <3>1, <3>2, BuryCalm DEF Reject, Reasons
  <2> QED
    BY <2>1, <2>2, <2>3
<1> QED
  BY <1>3, <1>4, <1>5

\* The engine's answer: the riders of a batch are open and have no outcome.
LEMMA SolveOkCalm ==
  ASSUME CalmInv, NEW w \in Workers, SolveOk(w)
  PROVE  CalmStep
<1>1. PICK m \in Matchings(RequestsOf(batch[w])) :
        /\ booked' = [r \in Requests |->
                        IF r \in DOMAIN m THEN booked[r] \cup {m[r]} ELSE booked[r]]
        /\ won' = [won EXCEPT ![w] = {i \in batch[w] : log[i].req \in DOMAIN m}]
        /\ todo' = [todo EXCEPT ![w] =
                      batch[w] \ {i \in batch[w] : log[i].req \in DOMAIN m}]
  BY DEF SolveOk
<1> DEFINE S    == DOMAIN m
           mine == {i \in batch[w] : log[i].req \in S}
<1>2. /\ Others(w) /\ pc'[w] = "settle" /\ won'[w] = mine
      /\ todo'[w] = batch[w] \ mine /\ batch' = batch
  BY <1>1 DEF SolveOk, Others, CalmInv, HoldInv, BInv, WorkerTypeOK
<1>3. Running'
  BY <1>2 DEF SolveOk, CalmInv, Running, Others
<1>4. batch[w] \subseteq pel /\ pc[w] = "solve"
  BY DEF CalmInv, HeldPending, PendingIn, SolveOk
<1>5. UNCHANGED <<log, last, pel, dead, client>>
  BY DEF SolveOk, queueVars
<1>6. HeldPending'
  <2>1. PendingIn(pc'[w], batch'[w], todo'[w], won'[w], pel')
    BY <1>2, <1>4, <1>5 DEF PendingIn
  <2> QED
    BY <1>2, <1>5, <2>1, HeldStep
<1>7. \A i \in batch[w] : /\ i \in Alive /\ i \notin Replaced
                          /\ log[i].req \notin Served \cup Buried
                          /\ log[i].req \in Requests
  <2> SUFFICES ASSUME NEW i \in batch[w]
               PROVE  /\ i \in Alive /\ i \notin Replaced
                      /\ log[i].req \notin Served \cup Buried
                      /\ log[i].req \in Requests
    OBVIOUS
  <2>1. i \in Alive /\ i \notin Replaced /\ log[i].req \notin Served \cup Buried
    BY <1>4, HeldOpen DEF Holds
  <2>2. log[i].req \in Requests
    BY <2>1, EntryTypes DEF Alive, CalmInv, HoldInv, BInv
  <2> QED
    BY <2>1, <2>2
<1>8. \A r \in S : \E i \in batch[w] : log[i].req = r
  BY DEF Matchings, RequestsOf
<1>9. Served' = Served \cup S /\ UNCHANGED <<Promised, Buried>>
  <2>1. S \subseteq Requests
    BY <1>7, <1>8
  <2> QED
    BY <1>1, <1>5, <2>1 DEF Served, Matched, Promised, Buried, DeadLettered
<1>10. Alive' = Alive
  BY <1>5 DEF Alive
<1>11. Replaced \subseteq Replaced' /\ Matches \subseteq Matches'
  BY <1>2, <1>4, OthersSame
<1>12. mine \subseteq Matches'
  <2>1. mine \subseteq Ids
    BY DEF CalmInv, HoldInv, BInv, WorkerTypeOK
  <2> QED
    BY <1>2, <2>1 DEF Matches
<1>13. \A j \in Alive \ Replaced : log[j].req \in S => j \in mine
  <2> SUFFICES ASSUME NEW j \in Alive \ Replaced, log[j].req \in S
               PROVE  j \in mine
    OBVIOUS
  <2>1. PICK i \in batch[w] : log[i].req = log[j].req
    BY <1>8
  <2>2. j # i => j \in Replaced
    BY <1>7, <2>1, HeldOnly DEF Holds
  <2> QED
    BY <2>1, <2>2
<1> HIDE DEF S, mine
<1>14. OneAlive'
  BY <1>5, <1>10, <1>11 DEF CalmInv, OneAlive
<1>15. AliveOpen'
  BY <1>5, <1>9, <1>10, <1>11, <1>12, <1>13 DEF CalmInv, AliveOpen
<1>16. Posted'
  <2>1. \A r \in S : client[r] # "new"
    <3> SUFFICES ASSUME NEW r \in S PROVE client[r] # "new"
      OBVIOUS
    <3>1. PICK i \in batch[w] : log[i].req = r
      BY <1>8
    <3> QED
      BY <1>7, <3>1 DEF Alive, CalmInv, Posted
  <2> QED
    BY <1>5, <1>9, <2>1 DEF CalmInv, Posted
<1>17. OnceOnly
  <2>1. \A r \in S : r \notin Served \cup Buried /\ \E i \in Alive : log[i].req = r
    BY <1>7, <1>8
  <2> QED
    BY <1>9, <1>10, <2>1 DEF OnceOnly
<1> QED
  BY <1>3, <1>6, <1>14, <1>15, <1>16, <1>17 DEF CalmStep

\* XADD: one more entry is alive.
LEMMA AliveAdds ==
  ASSUME BInv, NEW r \in Requests, NEW a \in Nat, XAdd(r, a)
  PROVE  /\ Alive' = Alive \cup {Len(log) + 1}
         /\ Len(log) + 1 \notin Alive
         /\ \A i \in Alive : log'[i] = log[i] /\ i < Len(log) + 1
         /\ log'[Len(log) + 1].req = r
         /\ \A i \in 1..Len(log) : log'[i] = log[i]
         /\ 1..Len(log') = 1..Len(log) \cup {Len(log) + 1}
         /\ UNCHANGED <<last, pel, dead>>
<1>1. /\ Len(log) \in Nat /\ last \in Nat /\ last <= Len(log)
      /\ Len(log') = Len(log) + 1
      /\ \A i \in 1..Len(log) : log'[i] = log[i]
      /\ log'[Len(log) + 1].req = r
      /\ UNCHANGED <<last, pel, dead>>
  BY DEF XAdd, BInv, QueueTypeOK
<1>2. 1..Len(log') = 1..Len(log) \cup {Len(log) + 1}
  BY <1>1
<1>3. Alive' = Alive \cup {Len(log) + 1}
  BY <1>1, <1>2 DEF Alive
<1>4. Len(log) + 1 \notin Alive /\ \A i \in Alive : log'[i] = log[i] /\ i < Len(log) + 1
  BY <1>1 DEF Alive
<1> QED
  BY <1>1, <1>2, <1>3, <1>4

\* A post: the request is new.
LEMMA PostCalm ==
  ASSUME MaxFaults = 0, CalmInv, NEW r \in Requests, Post(r)
  PROVE  CalmStep
<1>1. faults = 0 /\ BInv
  BY DEF CalmInv, HoldInv, BInv, ClientTypeOK
<1>2. /\ XAdd(r, 0)
      /\ client' = [client EXCEPT ![r] = "accepted"]
      /\ UNCHANGED <<workerVars, booked>>
  BY <1>1 DEF Post, SpendFault
<1> DEFINE n == Len(log) + 1
<1>3. /\ Alive' = Alive \cup {n} /\ n \notin Alive
      /\ \A i \in Alive : log'[i] = log[i] /\ i < n
      /\ log'[n].req = r
      /\ \A i \in 1..Len(log) : log'[i] = log[i]
      /\ 1..Len(log') = 1..Len(log) \cup {n}
      /\ UNCHANGED <<last, pel, dead>>
  BY <1>1, <1>2, AliveAdds
<1> HIDE DEF n
<1>4. client \in [Requests -> {"new", "refused", "accepted"}]
  BY <1>1 DEF BInv, ClientTypeOK
<1>5. client[r] = "new"
  BY <1>4 DEF CalmInv, Posted, Post
<1>6. r \notin Served \cup Buried /\ \A i \in 1..Len(log) : log[i].req # r
  BY <1>5 DEF CalmInv, Posted
<1>7. UNCHANGED <<Served, Buried>> /\ Promised' = Promised \cup {r}
  BY <1>2, <1>3, <1>4 DEF Served, Matched, Buried, DeadLettered, Promised
<1>8. UNCHANGED <<Replaced, Matches, pc, batch, todo, won, ctx>>
  BY <1>2 DEF workerVars, Replaced, Matches
<1>9. Running' /\ HeldPending'
  BY <1>3, <1>8 DEF CalmInv, Running, HeldPending
<1>10. \A i \in Alive : log[i].req # r
  BY <1>6 DEF Alive
<1>11. n \notin Replaced
  BY <1>3, <1>8, <1>1 DEF Replaced, IsFirst, BInv, HeldDelivered, QueueTypeOK, n
<1>12. OneAlive'
  <2> SUFFICES ASSUME NEW i \in Alive', NEW j \in Alive', i < j, log'[i].req = log'[j].req
               PROVE  i \in Replaced
    BY <1>8 DEF OneAlive
  <2>1. i \in Alive /\ j \in Alive
    <3>1. n \in Int /\ \A k \in Alive' : k \in Int
      BY <1>1, <1>3 DEF n, Alive, BInv, QueueTypeOK
    <3>2. i # n
      BY <1>3, <3>1
    <3>3. j # n
      BY <1>3, <1>10, <3>2
    <3> QED
      BY <1>3, <3>2, <3>3
  <2> QED
    BY <1>3, <2>1 DEF CalmInv, OneAlive
<1>13. AliveOpen'
  BY <1>3, <1>6, <1>7, <1>8 DEF CalmInv, AliveOpen
<1>14. Posted'
  BY <1>2, <1>3, <1>4, <1>7 DEF CalmInv, Posted
<1>15. OnceOnly
  BY <1>3, <1>6, <1>7 DEF OnceOnly
<1> QED
  BY <1>9, <1>12, <1>13, <1>14, <1>15 DEF CalmStep

\* The first half of Republish: the request is open and has no outcome, and
\* the entry it was held by is being replaced.
LEMMA RepublishCalm ==
  ASSUME MaxFaults = 0, CalmInv, NEW w \in Workers, Republish(w)
  PROVE  CalmStep
<1>1. PICK i \in todo[w] : /\ IsFirst(i, todo[w])
                           /\ XAdd(log[i].req, log[i].attempts + 1)
                           /\ GoTo(w, "unpend")
  BY CallsSucceed DEF Republish
<1> DEFINE n == Len(log) + 1
           r == log[i].req
<1>2. PendingIn(pc[w], batch[w], todo[w], won[w], pel) /\ i \in Holds(w) /\ pc[w] = "settle"
  BY DEF CalmInv, HeldPending, Holds, Republish
<1>3. i \in pel /\ i \notin won[w]
  BY <1>2 DEF PendingIn
<1>4. i \in Alive /\ i \notin Replaced /\ r \notin Served \cup Buried
  BY <1>2, <1>3, HeldOpen
<1>5. i \in 1..Len(log) /\ i \in Ids /\ BInv
  BY <1>4 DEF Alive, CalmInv, HoldInv, BInv, WorkerTypeOK
<1>6. r \in Requests /\ log[i].attempts + 1 \in Nat
  BY <1>5, EntryTypes DEF BInv
<1>7. /\ Alive' = Alive \cup {n} /\ n \notin Alive
      /\ \A k \in Alive : log'[k] = log[k] /\ k < n
      /\ log'[n].req = r
      /\ \A k \in 1..Len(log) : log'[k] = log[k]
      /\ 1..Len(log') = 1..Len(log) \cup {n}
      /\ UNCHANGED <<last, pel, dead>>
  BY <1>1, <1>5, <1>6, AliveAdds
<1>8. /\ Others(w) /\ Running'
      /\ pc'[w] = "unpend"
      /\ UNCHANGED <<batch, todo, won>>
  BY <1>1, GoToMoves DEF Steps
<1>9. HeldPending'
  <2>1. PendingIn(pc'[w], batch'[w], todo'[w], won'[w], pel')
    BY <1>2, <1>7, <1>8 DEF PendingIn
  <2> QED
    BY <1>7, <1>8, <2>1, HeldStep
<1>10. Replaced \subseteq Replaced' /\ Matches \subseteq Matches'
  BY <1>2, <1>8, OthersSame
<1>11. i \in Replaced'
  BY <1>1, <1>5, <1>8 DEF Replaced, IsFirst
<1>12. UNCHANGED <<Promised, Served, Buried>>
  BY <1>7, OutcomesSame DEF Republish
<1>13. n \in Int /\ \A k \in Alive' : k \in Int
  BY <1>5, <1>7 DEF Alive, BInv, QueueTypeOK
<1> HIDE DEF n
<1>14. OneAlive'
  <2> SUFFICES ASSUME NEW k \in Alive', NEW j \in Alive', k < j, log'[k].req = log'[j].req
               PROVE  k \in Replaced'
    BY DEF OneAlive
  <2>1. k # n /\ k \in Alive
    BY <1>7, <1>13
  <2>2. CASE j # n
    BY <1>7, <1>10, <2>1, <2>2 DEF CalmInv, OneAlive
  <2>3. CASE j = n
    <3>1. log[k].req = log[i].req
      BY <1>7, <2>1, <2>3
    <3>2. k # i => k \in Replaced
      BY <1>2, <1>4, <2>1, <3>1, HeldOnly
    <3> QED
      BY <1>10, <1>11, <3>2
  <2> QED
    BY <2>2, <2>3
<1>15. AliveOpen'
  <2> HIDE DEF r
  <2> QED
    BY <1>4, <1>7, <1>10, <1>12 DEF CalmInv, AliveOpen
<1>16. Posted'
  <2>1. client[r] # "new" /\ client' = client
    BY <1>5, <1>6 DEF CalmInv, Posted, Republish
  <2> HIDE DEF r
  <2> QED
    BY <1>7, <1>12, <2>1 DEF CalmInv, Posted
<1>17. OnceOnly
  <2> HIDE DEF r
  <2> QED
    BY <1>4, <1>7, <1>12 DEF OnceOnly
<1> QED
  BY <1>8, <1>9, <1>14, <1>15, <1>16, <1>17 DEF CalmStep

\* The second half of Republish acks the entry that was replaced.
LEMMA RepublishAckCalm ==
  ASSUME MaxFaults = 0, CalmInv, NEW w \in Workers, RepublishAck(w)
  PROVE  CalmStep
<1>1. PICK i \in todo[w] : /\ IsFirst(i, todo[w])
                           /\ XAck({i})
                           /\ NextMessage(w, "settle", i)
  BY CallsSucceed DEF RepublishAck
<1>2. PendingIn(pc[w], batch[w], todo[w], won[w], pel) /\ i \in Holds(w) /\ pc[w] = "unpend"
  BY DEF CalmInv, HeldPending, Holds, RepublishAck
<1>3. pel' = pel \ {i} /\ UNCHANGED <<log, last, dead>>
  BY <1>1 DEF XAck
<1>4. /\ Others(w) /\ Running'
      /\ pc'[w] = "settle"
      /\ batch' = batch /\ won' = won
      /\ todo'[w] = todo[w] \ {i}
  BY <1>1, NextMessageMoves DEF Steps
<1>5. HeldPending'
  <2>1. PendingIn(pc'[w], batch'[w], todo'[w], won'[w], pel')
    BY <1>2, <1>3, <1>4 DEF PendingIn
  <2> QED
    BY <1>2, <1>3, <1>4, <2>1, HeldStep
<1>6. Alive' \subseteq Alive /\ i \notin Alive'
  <2>1. i \in 1..last /\ last \in Nat
    BY DEF CalmInv, HoldInv, BInv, HeldDelivered, QueueTypeOK
  <2> QED
    BY <1>3, <2>1 DEF Alive
<1>7. Matches \subseteq Matches'
  BY <1>4, OthersSame
<1>8. Replaced \ {i} \subseteq Replaced'
  <2> SUFFICES ASSUME NEW k \in Replaced, k # i PROVE k \in Replaced'
    OBVIOUS
  <2>1. PICK v \in Workers : pc[v] = "unpend" /\ IsFirst(k, todo[v])
    BY DEF Replaced
  <2>2. v # w
    <3>1. \A q \in todo[w] : q \in Int
      BY DEF CalmInv, HoldInv, BInv, WorkerTypeOK, Ids
    <3> QED
      BY <1>1, <2>1, <3>1 DEF IsFirst
  <2>3. pc'[v] = "unpend" /\ IsFirst(k, todo'[v])
    BY <1>4, <2>1, <2>2 DEF Others
  <2> QED
    BY <2>3 DEF Replaced, IsFirst
<1> QED
  BY <1>3, <1>4, <1>5, <1>6, <1>7, <1>8, QuietCalm DEF RepublishAck

\* The end of a batch: the matched messages are acked.
LEMMA AckMatchedCalm ==
  ASSUME MaxFaults = 0, CalmInv, NEW w \in Workers, AckMatched(w)
  PROVE  CalmStep
<1>1. Return(w) /\ pc[w] = "settle" /\ UNCHANGED <<log, last, dead>> /\ pel' = pel \ won[w]
  BY CallsSucceed DEF AckMatched, XAck, queueVars
<1>2. PendingIn(pc[w], batch[w], todo[w], won[w], pel)
  BY DEF CalmInv, HeldPending
<1>3. won[w] \subseteq Holds(w)
  BY <1>1, <1>2 DEF PendingIn, Holds
<1>4. /\ Others(w) /\ Running'
      /\ pc'[w] \in {"collect", "tick"}
      /\ batch'[w] = {} /\ todo'[w] = {} /\ won'[w] = {}
  BY <1>1, ReturnMoves
<1>5. HeldPending'
  <2>1. PendingIn(pc'[w], batch'[w], todo'[w], won'[w], pel')
    BY <1>4 DEF PendingIn
  <2> QED
    BY <1>1, <1>3, <1>4, <2>1, HeldStep
<1>6. Alive' \subseteq Alive \ won[w]
  <2>1. won[w] \subseteq 1..last /\ last \in Nat
    BY DEF CalmInv, HoldInv, BInv, HeldDelivered, QueueTypeOK
  <2> QED
    BY <1>1, <2>1 DEF Alive
<1>7. Replaced \subseteq Replaced'
  BY <1>1, <1>4, OthersSame
<1>8. Matches \ won[w] \subseteq Matches'
  <2> SUFFICES ASSUME NEW k \in Matches, k \notin won[w] PROVE k \in Matches'
    OBVIOUS
  <2>1. PICK v \in Workers : pc[v] \in {"settle", "unpend"} /\ k \in won[v]
    BY DEF Matches
  <2>2. pc'[v] \in {"settle", "unpend"} /\ k \in won'[v]
    BY <1>4, <2>1 DEF Others
  <2> QED
    BY <2>2 DEF Matches
<1> QED
  BY <1>1, <1>4, <1>5, <1>6, <1>7, <1>8, QuietCalm DEF AckMatched

\* Time passes, or nothing happens.
LEMMA AgeCalm ==
  ASSUME CalmInv,
         UNCHANGED <<log, last, pel, dead, client, pc, batch, todo, won, ctx, booked>>
  PROVE  CalmStep
<1>1. UNCHANGED <<Alive, Replaced, Matches>>
  BY DEF Alive, Replaced, Matches
<1>2. Running' /\ HeldPending'
  BY DEF CalmInv, Running, HeldPending
<1> QED
  BY <1>1, <1>2, QuietCalm

\* Nothing crashes, is told to stop, or has stopped.
LEMMA NoStops ==
  ASSUME MaxStops = 0, CalmInv, NEW b \in Batchers
  PROVE  ~(Crash(b) \/ Shutdown(b) \/ Restart(b))
<1>1. ~SpendStop
  BY DEF SpendStop, CalmInv, HoldInv, BInv, ClientTypeOK
<1>2. <<b, "run">> \in Workers
  BY DEF Workers, Roles
<1>3. ~Restart(b)
  BY <1>2 DEF Restart, Roles, CalmInv, Running
<1> QED
  BY <1>1, <1>3 DEF Crash, Shutdown

\* Every step.
LEMMA NextCalm ==
  ASSUME MaxFaults = 0, MaxStops = 0, CalmInv, [Next]_vars
  PROVE  CalmStep
<1>1. ASSUME NEW w \in Workers, WorkerStep(w) PROVE CalmStep
  BY <1>1, ConsumeCalm, LoopCalm, ClaimCalm, BuriesCalm, SolvePermanentCalm, SolveOkCalm,
     RepublishCalm, RepublishAckCalm, AckMatchedCalm DEF WorkerStep, ProcessBatch
<1>2. ASSUME NEW i \in Ids, Age(i) PROVE CalmStep
  BY <1>2, AgeCalm DEF Age, BecomeIdle, workerVars
<1>3. CASE UNCHANGED vars
  BY <1>3, AgeCalm DEF vars, queueVars, workerVars
<1> QED
  BY <1>1, <1>2, <1>3, PostCalm, NoStops DEF Next

\* The initial state.
LEMMA InitCalm == Init => CalmInv
<1> SUFFICES ASSUME Init PROVE CalmInv
  OBVIOUS
<1>1. Len(log) = 0 /\ dead = {}
  BY DEF Init, QueueInit
<1>2. Alive = {} /\ Served = {} /\ Buried = {}
  BY <1>1 DEF Alive, Served, Matched, Buried, DeadLettered, Init
<1>3. Running
  BY DEF Init, Running, Start
<1>4. HeldPending
  BY DEF Init, HeldPending, PendingIn
<1>5. Posted
  BY <1>1, <1>2 DEF Init, Posted
<1> QED
  BY <1>2, <1>3, <1>4, <1>5, InitHold DEF CalmInv, OneAlive, AliveOpen

-----------------------------------------------------------------------------
(* Exactly once: the theorems *)

\* Without faults and stops, and while messages are settled in time, no batch
\* sent to the engine names a rider twice: a request's second entry is read
\* only after its first one was taken out of the solver's way.
THEOREM DistinctRiders ==
  ASSUME Timely, MaxFaults = 0, MaxStops = 0
  PROVE  Spec => []NoDuplicateInBatch
<1>1. CalmInv /\ [Next]_vars => CalmInv'
  BY NextCalm, NextKind, HoldStep DEF CalmInv, CalmStep, HoldInv
<1>2. ASSUME CalmInv PROVE NoDuplicateInBatch
  <2> SUFFICES ASSUME NEW w \in Workers, pc[w] = "solve", NEW i \in batch[w],
                      NEW j \in batch[w], i # j, log[i].req = log[j].req
               PROVE  FALSE
    BY DEF NoDuplicateInBatch, DuplicateRider
  <2>1. batch[w] \subseteq pel /\ i \in Holds(w) /\ j \in Holds(w)
    BY <1>2 DEF CalmInv, HeldPending, PendingIn, Holds
  <2>2. i \in Alive /\ i \notin Replaced /\ j \in Alive /\ j \notin Replaced
    BY <1>2, <2>1, HeldOpen
  <2> QED
    BY <1>2, <2>1, <2>2, HeldOnly
<1>3. CalmInv => NoDuplicateInBatch
  BY <1>2
<1> QED
  BY <1>1, <1>3, InitCalm, PTL DEF Spec

\* In an untrimmed stream a request waits when one of its entries is alive.
WaitingAlive ==
  \A r \in Requests : r \in Waiting <=> \E i \in Alive : log[i].req = r

\* It follows from the invariant.
LEMMA WaitingIsAlive == IInv => WaitingAlive
<1> SUFFICES ASSUME IInv PROVE WaitingAlive
  OBVIOUS
<1>1. first = 1
  BY DEF IInv, QueueInv, Untrimmed
<1> QED
  BY <1>1 DEF WaitingAlive, Waiting, Queued, Alive

\* A step of the at-least-once service that settles nothing twice and opens
\* nothing again is a step of the exactly-once service.
LEMMA OnceServes ==
  ASSUME Serves,
         \A r \in Waiting' \ Waiting : r \notin Served \cup Buried,
         \A r \in (Served' \ Served) \cup (Buried' \ Buried) :
           r \in Waiting \ (Served \cup Buried),
         \A r \in Promised' \ Promised : r \notin Waiting \cup Served \cup Buried
  PROVE  Once!Next \/ UNCHANGED serviceVars
<1>1. CASE UNCHANGED serviceVars
  BY <1>1
<1>2. ASSUME NEW r \in Requests, NEW told \in BOOLEAN, AtLeastOnce!Submit(r, told)
      PROVE  Once!Next \/ UNCHANGED serviceVars
  <2>1. /\ r \notin Promised /\ Waiting' = Waiting \cup {r}
        /\ Promised' = IF told THEN Promised \cup {r} ELSE Promised
        /\ UNCHANGED <<Served, Buried>>
    BY <1>2 DEF AtLeastOnce!Submit
  <2>2. CASE r \in Waiting \cup Served \cup Buried
    <3>1. ~told
      BY <2>1, <2>2
    <3>2. r \in Waiting
      BY <2>1, <2>2
    <3> QED
      BY <2>1, <3>1, <3>2 DEF serviceVars
  <2>3. CASE r \notin Waiting \cup Served \cup Buried
    <3>1. Once!Submit(r, told)
      BY <2>1, <2>3 DEF Once!Submit, Once!Known
    <3> QED
      BY <3>1 DEF Once!Next
  <2> QED
    BY <2>2, <2>3
<1>3. ASSUME NEW S \in SUBSET Requests, AtLeastOnce!Match(S)
      PROVE  Once!Next \/ UNCHANGED serviceVars
  <2>1. Served' = Served \cup S /\ UNCHANGED <<Promised, Waiting, Buried>>
    BY <1>3 DEF AtLeastOnce!Match
  <2> DEFINE T == S \ Served
  <2>2. T \in SUBSET Requests /\ Served' = Served \cup T
    BY <2>1
  <2>3. T \subseteq Waiting \ (Served \cup Buried)
    BY <2>1
  <2> HIDE DEF T
  <2>4. CASE T = {}
    BY <2>1, <2>2, <2>4 DEF serviceVars
  <2>5. CASE T # {}
    <3>1. Once!Match(T)
      BY <2>1, <2>2, <2>3, <2>5 DEF Once!Match, Once!Known
    <3> QED
      BY <2>2, <3>1 DEF Once!Next
  <2> QED
    BY <2>4, <2>5
<1>4. ASSUME NEW S \in SUBSET Requests, AtLeastOnce!Close(S)
      PROVE  Once!Next \/ UNCHANGED serviceVars
  <2>1. Once!Close(S)
    BY <1>4 DEF AtLeastOnce!Close, Once!Close
  <2> QED
    BY <2>1 DEF Once!Next
<1>5. ASSUME NEW r \in Requests, AtLeastOnce!SetAside(r)
      PROVE  Once!Next \/ UNCHANGED serviceVars
  <2>1. /\ Buried' = Buried \cup {r} /\ Waiting' \in {Waiting, Waiting \ {r}}
        /\ UNCHANGED <<Promised, Served>>
    BY <1>5 DEF AtLeastOnce!SetAside
  <2>2. CASE r \in Buried
    <3>1. Buried' = Buried
      BY <2>1, <2>2
    <3>2. CASE Waiting' = Waiting
      BY <2>1, <3>1, <3>2 DEF serviceVars
    <3>3. CASE Waiting' # Waiting
      <4>1. r \in Waiting /\ Waiting' = Waiting \ {r}
        BY <2>1, <3>3
      <4>2. Once!Close({r})
        BY <2>1, <2>2, <3>1, <4>1 DEF Once!Close
      <4> QED
        BY <4>2 DEF Once!Next
    <3> QED
      BY <3>2, <3>3
  <2>3. CASE r \notin Buried
    <3>1. r \in Waiting \ (Served \cup Buried)
      BY <2>1, <2>3
    <3>2. Once!SetAside(r)
      BY <2>1, <3>1 DEF Once!SetAside, Once!Known
    <3> QED
      BY <3>2 DEF Once!Next
  <2> QED
    BY <2>2, <2>3
<1>6. ASSUME NEW r \in Requests, AtLeastOnce!Reopen(r)
      PROVE  Once!Next \/ UNCHANGED serviceVars
  <2>1. /\ r \in Served \cup Buried /\ Waiting' = Waiting \cup {r}
        /\ UNCHANGED <<Promised, Served, Buried>>
    BY <1>6 DEF AtLeastOnce!Reopen
  <2>2. r \in Waiting
    BY <2>1
  <2> QED
    BY <2>1, <2>2 DEF serviceVars
<1> QED
  BY <1>1, <1>2, <1>3, <1>4, <1>5, <1>6 DEF Serves, AtLeastOnce!Next

\* In the invariants' terms.
LEMMA NextOnce ==
  ASSUME Serves, OnceOnly, LogKept, ClientTypeOK, WaitingAlive, WaitingAlive'
  PROVE  Once!Next \/ UNCHANGED serviceVars
<1>1. Waiting' \subseteq Requests /\ Served' \cup Buried' \cup Promised' \subseteq Requests
  BY DEF Waiting, Served, Buried, Promised
<1>2. \A r \in Waiting' \ Waiting : r \notin Served \cup Buried
  <2> SUFFICES ASSUME NEW r \in Waiting' \ Waiting PROVE r \notin Served \cup Buried
    OBVIOUS
  <2>1. PICK i \in Alive' : log'[i].req = r
    BY <1>1 DEF WaitingAlive
  <2>2. \A k \in Alive : log[k].req # r
    BY <1>1 DEF WaitingAlive
  <2>3. i \notin Alive
    BY <2>1, <2>2 DEF LogKept, Alive
  <2> QED
    BY <2>1, <2>2, <2>3 DEF OnceOnly
<1>3. \A r \in (Served' \ Served) \cup (Buried' \ Buried) :
        r \in Waiting \ (Served \cup Buried)
  BY <1>1 DEF OnceOnly, WaitingAlive
<1>4. \A r \in Promised' \ Promised : r \notin Waiting \cup Served \cup Buried
  <2> SUFFICES ASSUME NEW r \in Promised' \ Promised
               PROVE  r \notin Waiting \cup Served \cup Buried
    OBVIOUS
  <2>1. r \notin Served \cup Buried /\ \A i \in 1..Len(log) : log[i].req # r
    BY DEF OnceOnly
  <2> QED
    BY <1>1, <2>1 DEF WaitingAlive, Alive
<1> QED
  BY <1>2, <1>3, <1>4, OnceServes

\* Without faults and stops, and while messages are settled in time, every
\* request is matched or dead-lettered exactly once, however the goroutines of
\* any number of batchers interleave.
THEOREM ExactlyOnceService ==
  ASSUME Timely, MaxFaults = 0, MaxStops = 0, MaxEntries <= MaxLen
  PROVE  Spec => ImplementsExactlyOnce
<1>1. CalmInv /\ [Next]_vars => CalmInv' /\ OnceOnly /\ LogKept
  BY NextCalm, NextKind, KindBase, HoldStep DEF CalmInv, CalmStep, HoldInv
<1>2. Init => Once!Init
  <2> SUFFICES ASSUME Init PROVE Once!Init
    OBVIOUS
  <2>1. log = <<>> /\ dead = {}
    BY DEF Init, QueueInit
  <2>2. Len(log) = 0
    BY <2>1
  <2>3. Promised = {} /\ Served = {}
    BY DEF Init, Promised, Served, Matched
  <2>4. Waiting = {} /\ Buried = {}
    BY <2>1, <2>2 DEF Waiting, Queued, Buried, DeadLettered
  <2> QED
    BY <2>3, <2>4 DEF Once!Init
<1>3. CalmInv /\ IInv /\ IInv' /\ NoEntryLost' /\ WaitingAlive /\ WaitingAlive'
        /\ [Next]_vars
      => [Once!Next]_(Once!vars)
  <2> SUFFICES ASSUME CalmInv, IInv, IInv', NoEntryLost', WaitingAlive, WaitingAlive',
                      [Next]_vars
               PROVE  Once!Next \/ UNCHANGED serviceVars
    BY DEF serviceVars, Once!vars
  <2>1. OnceOnly /\ LogKept
    BY <1>1
  <2>2. Serves
    BY NextServes
  <2> QED
    BY <2>1, <2>2, NextOnce DEF IInv, ClientInv
<1> QED
  BY <1>1, <1>2, <1>3, InitCalm, Invariance, EntriesKept, WaitingIsAlive, PTL
     DEF Spec, ImplementsExactlyOnce, Once!Spec
==============================================================================
