-------------------------- MODULE ProcessingProofs --------------------------
(***************************************************************************)
(* Proofs about the messages of Dispatch and the goroutines that hold      *)
(* them: types, acks, match attempts, exclusive processing and delivery    *)
(* limits.  They hold for every MaxLen, a stream that trimming shortens    *)
(* included.                                                               *)
(***************************************************************************)
EXTENDS Dispatch, TLAPS

-----------------------------------------------------------------------------
(* Types: the commands of the queue *)

\* XADD keeps the queue well typed.
LEMMA XAddType ==
  ASSUME QueueTypeOK, NEW r \in Requests, NEW a \in Nat, XAdd(r, a)
  PROVE  QueueTypeOK'
<1>1. [req |-> r, attempts |-> a] \in Entry
  BY DEF Entry
<1>2. /\ log' \in Seq(Entry)
      /\ Len(log') = Len(log) + 1
  BY <1>1 DEF QueueTypeOK, XAdd
<1>3. first' \in 1..(MaxEntries + 1)
  BY QueueAssumption DEF QueueTypeOK, XAdd
<1>4. last' \in 0..Len(log')
  BY <1>2 DEF QueueTypeOK, XAdd
<1> QED
  BY <1>2, <1>3, <1>4, QueueAssumption DEF QueueTypeOK, XAdd

\* XREADGROUP keeps the queue well typed.
LEMMA XReadGroupType ==
  ASSUME QueueTypeOK, NEW P \in SUBSET Undelivered, XReadGroup(P)
  PROVE  QueueTypeOK'
<1>1. P \subseteq 1..Len(log) /\ P \subseteq Ids
  BY QueueAssumption DEF QueueTypeOK, Undelivered, Ids
<1>2. last' \in 0..Len(log)
  BY <1>1 DEF QueueTypeOK, XReadGroup
<1>3. count' \in [Ids -> Nat]
  BY <1>1 DEF QueueTypeOK, XReadGroup
<1> QED
  BY <1>1, <1>2, <1>3 DEF QueueTypeOK, XReadGroup

\* XCLAIM keeps the queue well typed.
LEMMA XClaimType ==
  ASSUME QueueTypeOK, NEW S \in SUBSET Ids, XClaim(S)
  PROVE  QueueTypeOK'
<1>1. XClaimed(S) \subseteq pel
  BY DEF XClaimed
<1>2. count' \in [Ids -> Nat]
  BY DEF QueueTypeOK, XClaim
<1>3. pel' \subseteq Ids /\ idle' \subseteq pel'
  BY <1>1 DEF QueueTypeOK, XClaim, XClaimed
<1> QED
  BY <1>2, <1>3 DEF QueueTypeOK, XClaim

\* XACK keeps the queue well typed.
LEMMA XAckType ==
  ASSUME QueueTypeOK, NEW S \in SUBSET Ids, XAck(S)
  PROVE  QueueTypeOK'
BY DEF QueueTypeOK, XAck

\* The dead-letter pipeline keeps the queue well typed, whole or half.
LEMMA DeadLetterType ==
  ASSUME QueueTypeOK, NEW i \in 1..Len(log), NEW reason \in Reasons,
         NEW whole \in BOOLEAN, DeadLetter(i, reason, whole)
  PROVE  QueueTypeOK'
<1>1. log[i] \in Entry /\ i \in Ids
  BY QueueAssumption DEF QueueTypeOK, Ids
<1>2. dead' \subseteq [id : Ids, req : Requests, reason : Reasons]
  BY <1>1 DEF QueueTypeOK, DeadLetter, Corpse, Entry
<1>3. /\ pel' \subseteq Ids
      /\ idle' \subseteq pel'
      /\ count' \in [Ids -> Nat]
  BY <1>1 DEF QueueTypeOK, DeadLetter
<1> QED
  BY <1>2, <1>3 DEF QueueTypeOK, DeadLetter

-----------------------------------------------------------------------------
(* The base of every invariant: types, and nothing is held or pending that *)
(* the group has not read                                                  *)

\* What is pending was delivered.
PendingDelivered == pel \subseteq 1..last

\* What a goroutine holds was delivered.
HeldDelivered ==
  \A w \in Workers : /\ batch[w] \subseteq 1..last
                     /\ todo[w] \subseteq 1..last
                     /\ won[w] \subseteq 1..last

WorkerTypeOK ==
  /\ pc \in [Workers -> Steps]
  /\ batch \in [Workers -> SUBSET Ids]
  /\ todo \in [Workers -> SUBSET Ids]
  /\ won \in [Workers -> SUBSET Ids]
  /\ seen \in [Workers -> [Ids -> Nat]]
  /\ ctx \in [Batchers -> Contexts]

ClientTypeOK ==
  /\ client \in [Requests -> {"new", "refused", "accepted"}]
  /\ booked \in [Requests -> SUBSET Drivers]
  /\ faults \in 0..MaxFaults
  /\ stops \in 0..MaxStops

BInv ==
  /\ QueueTypeOK
  /\ WorkerTypeOK
  /\ ClientTypeOK
  /\ PendingDelivered
  /\ HeldDelivered

-----------------------------------------------------------------------------
(* The kinds of steps: one per command of the queue *)

\* No goroutine comes to hold a message it did not hold, or to know a count it
\* did not know.
Keeps ==
  \A v \in Workers : /\ batch'[v] \subseteq batch[v]
                     /\ todo'[v] \subseteq Holds(v)
                     /\ won'[v] \subseteq batch[v] \cup won[v]
                     /\ seen'[v] \in {seen[v], NoCounts}

\* A first attempt, or one more than a delivered entry that was not the last.
Earned(r, a) ==
  \/ a = 0
  \/ \E i \in 1..last : /\ log[i].req = r
                        /\ log[i].attempts + 1 = a
                        /\ ~LastAttempt(i)

Adds ==
  \E r \in Requests, a \in Nat : XAdd(r, a) /\ Earned(r, a) /\ Keeps

Reads ==
  \E w \in Workers, P \in SUBSET Undelivered :
    /\ FirstN(P, Undelivered, MaxBatchSize - Cardinality(batch[w]))
    /\ XReadGroup(P)
    /\ batch'[w] \subseteq batch[w] \cup P
    /\ \A v \in Workers \ {w} : batch'[v] = batch[v]
    /\ UNCHANGED <<todo, won, seen>>

Lists ==
  \E w \in Workers, P \in SUBSET idle :
    /\ w[2] = "reclaim"
    /\ seen' = [seen EXCEPT ![w] = XPending(P)]
    /\ UNCHANGED <<queueVars, batch, todo, won>>

Claims ==
  \E w \in Workers :
    /\ XClaim(Listed(w))
    /\ batch'[w] \subseteq XClaimed(Listed(w))
    /\ todo'[w] \subseteq XClaimed(Listed(w))
    /\ \A i \in batch'[w] : seen[w][i] + 1 <= MaxDeliveries
    /\ won'[w] \subseteq won[w]
    /\ seen'[w] = NoCounts
    /\ \A v \in Workers \ {w} : /\ batch'[v] = batch[v]
                                /\ todo'[v] = todo[v]
                                /\ won'[v] = won[v]
                                /\ seen'[v] = seen[v]

Acks == \E S \in SUBSET Ids : XAck(S) /\ Keeps

Buries ==
  \E i \in 1..last, reason \in Reasons, whole \in BOOLEAN :
    /\ DeadLetter(i, reason, whole)
    /\ reason = "exhausted" => LastAttempt(i)
    /\ Keeps

Ages ==
  \E i \in Ids :
    /\ BecomeIdle(i)
    /\ Timely => \A w \in Workers : i \notin Holds(w)
    /\ Keeps

Rests == UNCHANGED queueVars /\ Keeps

Kinds == Adds \/ Reads \/ Lists \/ Claims \/ Acks \/ Buries \/ Ages \/ Rests

StepKind == WorkerTypeOK' /\ ClientTypeOK' /\ Kinds

\* A call's outcome keeps the number of faults left in its range.
LEMMA FaultsType ==
  ASSUME faults \in 0..MaxFaults, NEW w \in Workers,
         Succeeds(w) \/ ReplyLost(w) \/ Fails(w)
  PROVE  faults' \in 0..MaxFaults
BY DispatchAssumption DEF Succeeds, ReplyLost, Fails, SpendFault

\* Steps that answer no client and book nothing.
LEMMA ClientSameType ==
  ASSUME ClientTypeOK, UNCHANGED <<client, booked, stops>>, faults' \in 0..MaxFaults
  PROVE  ClientTypeOK'
BY DEF ClientTypeOK

\* processBatch returns.
LEMMA ReturnKeeps ==
  ASSUME WorkerTypeOK, NEW w \in Workers, Return(w)
  PROVE  WorkerTypeOK' /\ Keeps
<1>1. WorkerTypeOK'
  BY DEF WorkerTypeOK, Return, Start, Steps, NoCounts
<1>2. Keeps
  BY DEF WorkerTypeOK, Return, Keeps, Holds
<1> QED
  BY <1>1, <1>2

\* A goroutine goes to another step of its code.
LEMMA GoToKeeps ==
  ASSUME WorkerTypeOK, NEW w \in Workers, NEW step \in Steps, GoTo(w, step)
  PROVE  WorkerTypeOK' /\ Keeps
BY DEF WorkerTypeOK, GoTo, Keeps, Holds

\* A loop over messages goes on to the next one.
LEMMA NextMessageKeeps ==
  ASSUME WorkerTypeOK, NEW w \in Workers, NEW step \in Steps, NEW i,
         NextMessage(w, step, i)
  PROVE  WorkerTypeOK' /\ Keeps
<1>1. WorkerTypeOK'
  BY DEF WorkerTypeOK, NextMessage
<1>2. Keeps
  BY DEF WorkerTypeOK, NextMessage, Keeps, Holds
<1> QED
  BY <1>1, <1>2

\* The goroutines of a process start afresh.
LEMMA FreshKeeps ==
  ASSUME WorkerTypeOK, NEW b \in Batchers, Fresh(b)
  PROVE  WorkerTypeOK' /\ Keeps
<1>1. WorkerTypeOK'
  BY DEF WorkerTypeOK, Fresh, Start, Steps, NoCounts, Contexts
<1>2. Keeps
  BY DEF WorkerTypeOK, Fresh, Keeps, Holds
<1> QED
  BY <1>1, <1>2

\* The goroutines stay where they are.
LEMMA SameKeeps ==
  ASSUME WorkerTypeOK, UNCHANGED workerVars
  PROVE  WorkerTypeOK' /\ Keeps
BY DEF WorkerTypeOK, workerVars, Keeps, Holds

-----------------------------------------------------------------------------
(* One lemma per action *)

\* POST publishes a first attempt.
LEMMA PostKind ==
  ASSUME BInv, NEW r \in Requests, Post(r)
  PROVE  StepKind
<1>1. WorkerTypeOK' /\ Keeps
  BY SameKeeps DEF Post, BInv
<1>2. ClientTypeOK'
  BY DispatchAssumption DEF Post, SpendFault, BInv, ClientTypeOK
<1>3. CASE XAdd(r, 0)
  <2>1. Earned(r, 0)
    BY DEF Earned
  <2> QED
    BY <1>1, <1>2, <1>3, <2>1 DEF StepKind, Kinds, Adds
<1>4. CASE UNCHANGED queueVars
  BY <1>1, <1>2, <1>4 DEF StepKind, Kinds, Rests
<1> QED
  BY <1>3, <1>4 DEF Post

\* Consume reads entries nobody has read.
LEMMA ConsumeKind ==
  ASSUME BInv, NEW w \in Workers, Consume(w)
  PROVE  StepKind
<1>1. PICK P \in (SUBSET Undelivered) \ {{}} :
        /\ FirstN(P, Undelivered, MaxBatchSize - Cardinality(batch[w]))
        /\ XReadGroup(P)
        /\ \/ /\ Succeeds(w)
              /\ batch' = [batch EXCEPT ![w] = @ \cup P]
              /\ pc' = [pc EXCEPT ![w] =
                          IF Cardinality(batch[w] \cup P) >= MaxBatchSize
                          THEN "lookup" ELSE "collect"]
              /\ UNCHANGED <<todo, won, seen, ctx>>
           \/ ReplyLost(w) /\ UNCHANGED workerVars
  BY DEF Consume
<1>2. P \subseteq Ids
  BY QueueAssumption DEF BInv, QueueTypeOK, Undelivered, Ids
<1>3. ClientTypeOK'
  BY <1>1, FaultsType, ClientSameType DEF Consume, BInv, ClientTypeOK
<1>4. WorkerTypeOK' /\ Reads
  <2>1. CASE UNCHANGED workerVars
    BY <1>1, <2>1, SameKeeps DEF Reads, BInv, workerVars
  <2>2. CASE /\ batch' = [batch EXCEPT ![w] = @ \cup P]
             /\ pc' = [pc EXCEPT ![w] =
                         IF Cardinality(batch[w] \cup P) >= MaxBatchSize
                         THEN "lookup" ELSE "collect"]
             /\ UNCHANGED <<todo, won, seen, ctx>>
    <3>1. WorkerTypeOK'
      BY <1>2, <2>2 DEF BInv, WorkerTypeOK, Steps
    <3>2. batch'[w] = batch[w] \cup P /\ \A v \in Workers \ {w} : batch'[v] = batch[v]
      BY <2>2 DEF BInv, WorkerTypeOK
    <3> QED
      BY <1>1, <2>2, <3>1, <3>2 DEF Reads
  <2> QED
    BY <1>1, <2>1, <2>2
<1> QED
  BY <1>3, <1>4 DEF StepKind, Kinds

\* Steps that leave the queue alone.
LEMMA RestKind ==
  ASSUME BInv, WorkerTypeOK', Keeps, UNCHANGED <<queueVars, client, booked, stops>>,
         faults' \in 0..MaxFaults
  PROVE  StepKind
BY ClientSameType DEF BInv, StepKind, Kinds, Rests

\* The run loop's and the reclaimer's own steps.
LEMMA LoopKind ==
  ASSUME BInv, NEW w \in Workers,
         Flush(w) \/ Drain(w) \/ ListPending(w) \/ Reclaimed(w) \/ StopReclaimer(w)
  PROVE  StepKind
<1>1. /\ UNCHANGED <<queueVars, client, booked, stops>>
      /\ faults' \in 0..MaxFaults
  BY DEF Flush, Drain, ListPending, Reclaimed, StopReclaimer, BInv, ClientTypeOK
<1>2. CASE \E step \in Steps : GoTo(w, step)
  BY <1>1, <1>2, GoToKeeps, RestKind DEF BInv
<1>3. CASE Return(w)
  BY <1>1, <1>3, ReturnKeeps, RestKind DEF BInv
<1>4. CASE ListPending(w)
  <2>1. \A P : XPending(P) \in [Ids -> Nat]
    BY DEF XPending, BInv, QueueTypeOK
  <2>2. WorkerTypeOK'
    BY <1>4, <2>1 DEF ListPending, BInv, WorkerTypeOK, Steps
  <2>3. Lists
    BY <1>4 DEF ListPending, Lists
  <2>4. ClientTypeOK'
    BY <1>1, ClientSameType DEF BInv
  <2> QED
    BY <2>2, <2>3, <2>4 DEF StepKind, Kinds
<1>5. CASE /\ pc' = [pc EXCEPT ![w] = "lookup"]
           /\ ctx' = [ctx EXCEPT ![w[1]] = "draining"]
           /\ UNCHANGED <<batch, todo, won, seen>>
  <2>1. WorkerTypeOK'
    BY <1>5 DEF BInv, WorkerTypeOK, Steps, Contexts
  <2>2. Keeps
    BY <1>5 DEF Keeps, Holds
  <2> QED
    BY <1>1, <2>1, <2>2, RestKind
<1> QED
  BY <1>2, <1>3, <1>4, <1>5 DEF Flush, Drain, Reclaimed, StopReclaimer, Steps

\* XCLAIM hands idle entries over, to one goroutine.
LEMMA ClaimKind ==
  ASSUME BInv, NEW w \in Workers, Claim(w)
  PROVE  StepKind
<1> DEFINE got == {i \in XClaimed(Listed(w)) : i >= first}
<1>1. faults' \in 0..MaxFaults
  BY FaultsType DEF Claim, BInv, ClientTypeOK
<1>2. ClientTypeOK'
  BY <1>1, ClientSameType DEF Claim, BInv
<1>3. CASE XClaim(Listed(w)) /\ Return(w)
  <2>1. WorkerTypeOK'
    BY <1>3, ReturnKeeps DEF BInv
  <2>2. /\ batch'[w] = {} /\ todo'[w] = {} /\ won'[w] = {} /\ seen'[w] = NoCounts
        /\ \A v \in Workers \ {w} : /\ batch'[v] = batch[v]
                                    /\ todo'[v] = todo[v]
                                    /\ won'[v] = won[v]
                                    /\ seen'[v] = seen[v]
    BY <1>3 DEF Return, BInv, WorkerTypeOK
  <2>3. Claims
    BY <1>3, <2>2 DEF Claims
  <2> QED
    BY <1>2, <2>1, <2>3 DEF StepKind, Kinds
<1>4. CASE /\ XClaim(Listed(w))
           /\ batch' = [batch EXCEPT ![w] = got \ OverLimit(w, got)]
           /\ todo' = [todo EXCEPT ![w] = OverLimit(w, got)]
           /\ pc' = [pc EXCEPT ![w] = "poison"]
           /\ seen' = [seen EXCEPT ![w] = NoCounts]
           /\ UNCHANGED <<won, ctx>>
  <2>1. got \subseteq XClaimed(Listed(w)) /\ OverLimit(w, got) \subseteq got
    BY DEF OverLimit
  <2>2. XClaimed(Listed(w)) \subseteq Ids
    BY DEF XClaimed, Listed
  <2> HIDE DEF got
  <2>3. WorkerTypeOK'
    BY <1>4, <2>1, <2>2 DEF BInv, WorkerTypeOK, Steps, NoCounts
  <2>4. /\ batch'[w] \subseteq XClaimed(Listed(w))
        /\ todo'[w] \subseteq XClaimed(Listed(w))
        /\ won'[w] = won[w] /\ seen'[w] = NoCounts
        /\ \A v \in Workers \ {w} : /\ batch'[v] = batch[v]
                                    /\ todo'[v] = todo[v]
                                    /\ won'[v] = won[v]
                                    /\ seen'[v] = seen[v]
    BY <1>4, <2>1 DEF BInv, WorkerTypeOK
  <2>5. \A i \in batch'[w] : seen[w][i] + 1 <= MaxDeliveries
    <3> SUFFICES ASSUME NEW i \in got, i \notin OverLimit(w, got)
                 PROVE  seen[w][i] + 1 <= MaxDeliveries
      BY <1>4 DEF BInv, WorkerTypeOK
    <3>1. i \in Ids
      BY <2>1, <2>2
    <3> QED
      BY <3>1, QueueAssumption DEF OverLimit, BInv, WorkerTypeOK
  <2>6. Claims
    BY <1>4, <2>4, <2>5 DEF Claims
  <2> QED
    BY <1>2, <2>3, <2>6 DEF StepKind, Kinds
<1>5. CASE Return(w) /\ UNCHANGED queueVars
  BY <1>1, <1>5, ReturnKeeps, RestKind DEF Claim, BInv
<1> QED
  BY <1>3, <1>4, <1>5 DEF Claim

\* A step that dead-letters a message it holds, or fails to.
LEMMA BuryKind ==
  ASSUME BInv, WorkerTypeOK', Keeps, UNCHANGED <<client, booked, stops>>,
         faults' \in 0..MaxFaults, NEW i \in 1..last, NEW reason \in Reasons,
         reason = "exhausted" => LastAttempt(i),
         (\E whole \in BOOLEAN : DeadLetter(i, reason, whole)) \/ UNCHANGED queueVars
  PROVE  StepKind
<1>1. ClientTypeOK'
  BY ClientSameType DEF BInv
<1>2. CASE \E whole \in BOOLEAN : DeadLetter(i, reason, whole)
  BY <1>1, <1>2 DEF StepKind, Kinds, Buries
<1>3. CASE UNCHANGED queueVars
  BY <1>3, RestKind
<1> QED
  BY <1>2, <1>3

\* Reclaim dead-letters an entry over the limit.
LEMMA PoisonKind ==
  ASSUME BInv, NEW w \in Workers, Poison(w)
  PROVE  StepKind
<1>1. PICK i \in todo[w] :
        /\ (\E whole \in BOOLEAN : DeadLetter(i, "poison", whole)) \/ UNCHANGED queueVars
        /\ NextMessage(w, "poison", i) \/ Return(w)
        /\ Succeeds(w) \/ ReplyLost(w) \/ Fails(w)
  BY DEF Poison
<1>2. faults' \in 0..MaxFaults
  BY <1>1, FaultsType DEF BInv, ClientTypeOK
<1>3. WorkerTypeOK' /\ Keeps
  BY <1>1, ReturnKeeps, NextMessageKeeps DEF BInv, Steps
<1>4. i \in 1..last
  BY DEF BInv, HeldDelivered
<1> QED
  BY <1>1, <1>2, <1>3, <1>4, BuryKind DEF Poison, Reasons

\* The dead-letter loop of a refused batch.
LEMMA RejectKind ==
  ASSUME BInv, NEW w \in Workers, Reject(w)
  PROVE  StepKind
<1>1. PICK i \in todo[w] :
        /\ SetAside(w, i, "rejected")
        /\ IF todo[w] = {i} THEN Return(w) ELSE NextMessage(w, "reject", i)
  BY DEF Reject
<1>2. faults' \in 0..MaxFaults
  BY <1>1, FaultsType DEF SetAside, BInv, ClientTypeOK
<1>3. WorkerTypeOK' /\ Keeps
  BY <1>1, ReturnKeeps, NextMessageKeeps DEF BInv, Steps
<1>4. i \in 1..last
  BY DEF BInv, HeldDelivered
<1>5. (\E whole \in BOOLEAN : DeadLetter(i, "rejected", whole)) \/ UNCHANGED queueVars
  BY <1>1 DEF SetAside
<1> QED
  BY <1>2, <1>3, <1>4, <1>5, BuryKind DEF Reject, Reasons

\* An unmatched rider out of attempts is dead-lettered.
LEMMA ExhaustKind ==
  ASSUME BInv, NEW w \in Workers, Exhaust(w)
  PROVE  StepKind
<1>1. PICK i \in todo[w] :
        /\ LastAttempt(i)
        /\ SetAside(w, i, "exhausted")
        /\ NextMessage(w, "settle", i)
  BY DEF Exhaust
<1>2. faults' \in 0..MaxFaults
  BY <1>1, FaultsType DEF SetAside, BInv, ClientTypeOK
<1>3. WorkerTypeOK' /\ Keeps
  BY <1>1, NextMessageKeeps DEF BInv, Steps
<1>4. i \in 1..last
  BY DEF BInv, HeldDelivered
<1>5. (\E whole \in BOOLEAN : DeadLetter(i, "exhausted", whole)) \/ UNCHANGED queueVars
  BY <1>1 DEF SetAside
<1> QED
  BY <1>1, <1>2, <1>3, <1>4, <1>5, BuryKind DEF Exhaust, Reasons

\* Republish publishes one more attempt than the entry it holds.
LEMMA RepublishKind ==
  ASSUME BInv, NEW w \in Workers, Republish(w)
  PROVE  StepKind
<1>1. PICK i \in todo[w] :
        /\ ~LastAttempt(i)
        /\ XAdd(log[i].req, log[i].attempts + 1) \/ UNCHANGED queueVars
        /\ GoTo(w, "unpend") \/ NextMessage(w, "settle", i)
        /\ Succeeds(w) \/ ReplyLost(w) \/ Fails(w)
  BY DEF Republish
<1>2. faults' \in 0..MaxFaults
  BY <1>1, FaultsType DEF BInv, ClientTypeOK
<1>3. WorkerTypeOK' /\ Keeps
  BY <1>1, GoToKeeps, NextMessageKeeps DEF BInv, Steps
<1>4. i \in 1..last /\ i \in 1..Len(log)
  BY DEF BInv, HeldDelivered, QueueTypeOK
<1>5. log[i].req \in Requests /\ log[i].attempts + 1 \in Nat
  <2>1. log[i] \in Entry
    BY <1>4 DEF BInv, QueueTypeOK
  <2> QED
    BY <2>1 DEF Entry
<1>6. CASE XAdd(log[i].req, log[i].attempts + 1)
  <2>1. Earned(log[i].req, log[i].attempts + 1)
    BY <1>1, <1>4 DEF Earned
  <2>2. Adds
    BY <1>3, <1>5, <1>6, <2>1 DEF Adds
  <2> QED
    BY <1>2, <1>3, <2>2, ClientSameType DEF StepKind, Kinds, BInv, Republish
<1>7. CASE UNCHANGED queueVars
  BY <1>2, <1>3, <1>7, RestKind DEF Republish
<1> QED
  BY <1>1, <1>6, <1>7

\* The acks of Republish and of matched messages.
LEMMA AckKind ==
  ASSUME BInv, NEW w \in Workers, RepublishAck(w) \/ AckMatched(w)
  PROVE  StepKind
<1>1. faults' \in 0..MaxFaults
  BY FaultsType DEF RepublishAck, AckMatched, BInv, ClientTypeOK
<1>2. WorkerTypeOK' /\ Keeps
  BY ReturnKeeps, NextMessageKeeps DEF RepublishAck, AckMatched, BInv, Steps
<1>3. UNCHANGED <<client, booked, stops>>
  BY DEF RepublishAck, AckMatched
<1>4. (\E S \in SUBSET Ids : XAck(S)) \/ UNCHANGED queueVars
  <2>1. won[w] \in SUBSET Ids /\ \A i \in todo[w] : {i} \in SUBSET Ids
    BY DEF BInv, WorkerTypeOK
  <2> QED
    BY <2>1 DEF RepublishAck, AckMatched
<1>5. CASE \E S \in SUBSET Ids : XAck(S)
  BY <1>1, <1>2, <1>3, <1>5, ClientSameType DEF StepKind, Kinds, Acks, BInv
<1>6. CASE UNCHANGED queueVars
  BY <1>1, <1>2, <1>3, <1>6, RestKind
<1> QED
  BY <1>4, <1>5, <1>6

\* Driver lookup and solve calls leave the queue alone.
LEMMA SolveKind ==
  ASSUME BInv, NEW w \in Workers,
         \/ LookupFails(w) \/ NoDrivers(w) \/ DriversFound(w)
         \/ SolveRetryable(w) \/ SolvePermanent(w) \/ SolveOk(w)
  PROVE  StepKind
<1>1. faults' \in 0..MaxFaults
  BY FaultsType DEF LookupFails, NoDrivers, DriversFound, SolveRetryable,
     SolvePermanent, SolveOk, BInv, ClientTypeOK
<1>2. CASE Return(w) /\ UNCHANGED <<queueVars, client, booked, stops>>
  BY <1>1, <1>2, ReturnKeeps, RestKind DEF BInv
<1>3. CASE DriversFound(w)
  BY <1>1, <1>3, GoToKeeps, RestKind DEF DriversFound, BInv, Steps
<1>4. CASE SolvePermanent(w)
  <2>1. WorkerTypeOK'
    BY <1>4 DEF SolvePermanent, BInv, WorkerTypeOK, Steps
  <2>2. Keeps
    BY <1>4 DEF SolvePermanent, BInv, WorkerTypeOK, Keeps, Holds
  <2> QED
    BY <1>1, <1>4, <2>1, <2>2, RestKind DEF SolvePermanent
<1>5. CASE SolveOk(w)
  <2>1. PICK m \in Matchings(RequestsOf(batch[w])) :
          /\ booked' = [r \in Requests |->
                          IF r \in DOMAIN m THEN booked[r] \cup {m[r]} ELSE booked[r]]
          /\ won' = [won EXCEPT ![w] = {i \in batch[w] : log[i].req \in DOMAIN m}]
          /\ todo' = [todo EXCEPT ![w] =
                        batch[w] \ {i \in batch[w] : log[i].req \in DOMAIN m}]
    BY <1>5 DEF SolveOk
  <2> DEFINE mine == {i \in batch[w] : log[i].req \in DOMAIN m}
  <2>2. \A r \in DOMAIN m : m[r] \in Drivers
    BY DEF Matchings
  <2>3. booked' \in [Requests -> SUBSET Drivers]
    BY <2>1, <2>2 DEF BInv, ClientTypeOK
  <2>4. ClientTypeOK'
    BY <1>1, <1>5, <2>3 DEF SolveOk, BInv, ClientTypeOK
  <2>5. mine \subseteq batch[w]
    OBVIOUS
  <2> HIDE DEF mine
  <2>6. won' = [won EXCEPT ![w] = mine] /\ todo' = [todo EXCEPT ![w] = batch[w] \ mine]
    BY <2>1 DEF mine
  <2>7. WorkerTypeOK'
    BY <1>5, <2>5, <2>6 DEF SolveOk, BInv, WorkerTypeOK, Steps
  <2>8. Keeps
    BY <1>5, <2>5, <2>6 DEF SolveOk, BInv, WorkerTypeOK, Keeps, Holds
  <2> QED
    BY <1>5, <2>4, <2>7, <2>8 DEF SolveOk, StepKind, Kinds, Rests
<1> QED
  BY <1>2, <1>3, <1>4, <1>5 DEF LookupFails, NoDrivers, SolveRetryable

\* Crashes, shutdowns and restarts.
LEMMA ProcessKind ==
  ASSUME BInv, NEW b \in Batchers, Crash(b) \/ Shutdown(b) \/ Restart(b)
  PROVE  StepKind
<1>1. UNCHANGED <<queueVars, client, booked, faults>>
  BY DEF Crash, Shutdown, Restart, Fresh
<1>2. stops' \in 0..MaxStops
  BY DispatchAssumption DEF Crash, Shutdown, Restart, SpendStop, BInv, ClientTypeOK
<1>3. ClientTypeOK'
  BY <1>1, <1>2 DEF BInv, ClientTypeOK
<1>4. WorkerTypeOK' /\ Keeps
  <2>1. CASE Fresh(b)
    BY <2>1, FreshKeeps DEF BInv
  <2>2. CASE Shutdown(b)
    BY <2>2 DEF Shutdown, BInv, WorkerTypeOK, Contexts, Keeps, Holds
  <2> QED
    BY <2>1, <2>2 DEF Crash, Restart
<1> QED
  BY <1>1, <1>3, <1>4 DEF StepKind, Kinds, Rests

\* Time ages pending entries.
LEMMA AgeKind ==
  ASSUME BInv, NEW i \in Ids, Age(i)
  PROVE  StepKind
<1>1. WorkerTypeOK' /\ Keeps
  BY SameKeeps DEF Age, BInv
<1>2. ClientTypeOK'
  BY ClientSameType DEF Age, BInv, ClientTypeOK
<1> QED
  BY <1>1, <1>2 DEF Age, StepKind, Kinds, Ages

\* Every step is of one of the kinds.
LEMMA NextKind ==
  ASSUME BInv, [Next]_vars
  PROVE  StepKind
<1>1. CASE UNCHANGED vars
  <2>1. WorkerTypeOK' /\ Keeps
    BY <1>1, SameKeeps DEF BInv, vars
  <2>2. faults' \in 0..MaxFaults
    BY <1>1 DEF BInv, ClientTypeOK, vars
  <2> QED
    BY <1>1, <2>1, <2>2, RestKind DEF vars
<1>2. ASSUME NEW w \in Workers, WorkerStep(w) PROVE StepKind
  <2>1. CASE ProcessBatch(w)
    BY <2>1, SolveKind, RejectKind, ExhaustKind, RepublishKind, AckKind DEF ProcessBatch
  <2> QED
    BY <1>2, <2>1, ConsumeKind, LoopKind, ClaimKind, PoisonKind DEF WorkerStep
<1> QED
  BY <1>1, <1>2, PostKind, ProcessKind, AgeKind DEF Next

-----------------------------------------------------------------------------
(* The base invariant, and the log *)

\* No entry of the log changes, and what was delivered stays delivered.
LogKept ==
  /\ Len(log) <= Len(log')
  /\ \A i \in 1..Len(log) : log'[i] = log[i]
  /\ last <= last'

\* Every kind of step keeps the base invariant, and the log.
LEMMA KindBase ==
  ASSUME BInv, StepKind
  PROVE  BInv' /\ LogKept
<1> USE DEF BInv
<1>1. Keeps /\ last <= last' /\ last' \in Nat => HeldDelivered'
  BY DEF Keeps, Holds, HeldDelivered, QueueTypeOK
<1>2. last \in Nat /\ Len(log) \in Nat
  BY DEF QueueTypeOK
<1>3. CASE Adds
  <2>1. PICK r \in Requests, a \in Nat : XAdd(r, a) /\ Keeps
    BY <1>3 DEF Adds
  <2>2. QueueTypeOK'
    BY <2>1, XAddType
  <2>3. LogKept
    BY <2>1 DEF XAdd, LogKept, QueueTypeOK
  <2>4. PendingDelivered' /\ HeldDelivered'
    BY <1>1, <1>2, <2>1 DEF XAdd, PendingDelivered
  <2> QED
    BY <2>2, <2>3, <2>4 DEF StepKind
<1>4. CASE Reads
  <2>1. PICK w \in Workers, P \in SUBSET Undelivered :
          /\ XReadGroup(P)
          /\ batch'[w] \subseteq batch[w] \cup P
          /\ \A v \in Workers \ {w} : batch'[v] = batch[v]
          /\ UNCHANGED <<todo, won, seen>>
    BY <1>4 DEF Reads
  <2>2. QueueTypeOK'
    BY <2>1, XReadGroupType
  <2>3. last' > last /\ P \subseteq 1..last' /\ 1..last \subseteq 1..last'
    BY <1>2, <2>1 DEF XReadGroup, Undelivered
  <2>4. LogKept
    BY <1>2, <2>1, <2>3 DEF XReadGroup, LogKept
  <2>5. PendingDelivered'
    BY <2>1, <2>3 DEF XReadGroup, PendingDelivered
  <2>6. HeldDelivered'
    BY <2>1, <2>3 DEF HeldDelivered
  <2> QED
    BY <2>2, <2>4, <2>5, <2>6 DEF StepKind
<1>5. CASE Lists
  <2>1. UNCHANGED <<queueVars, batch, todo, won>>
    BY <1>5 DEF Lists
  <2> QED
    BY <2>1 DEF StepKind, queueVars, QueueTypeOK, PendingDelivered, HeldDelivered, LogKept
<1>6. CASE Claims
  <2>1. PICK w \in Workers :
          /\ XClaim(Listed(w))
          /\ batch'[w] \subseteq XClaimed(Listed(w))
          /\ todo'[w] \subseteq XClaimed(Listed(w))
          /\ won'[w] \subseteq won[w]
          /\ \A v \in Workers \ {w} :
               batch'[v] = batch[v] /\ todo'[v] = todo[v] /\ won'[v] = won[v]
    BY <1>6 DEF Claims
  <2>2. QueueTypeOK'
    BY <2>1, XClaimType DEF Listed
  <2>3. LogKept /\ last' = last
    BY <1>2, <2>1 DEF XClaim, LogKept
  <2>4. XClaimed(Listed(w)) \subseteq pel
    BY DEF XClaimed
  <2>5. PendingDelivered'
    BY <2>1, <2>3, <2>4 DEF XClaim, PendingDelivered
  <2>6. HeldDelivered'
    BY <2>1, <2>3, <2>4 DEF HeldDelivered, PendingDelivered
  <2> QED
    BY <2>2, <2>3, <2>5, <2>6 DEF StepKind
<1>7. CASE Acks
  <2>1. PICK S \in SUBSET Ids : XAck(S) /\ Keeps
    BY <1>7 DEF Acks
  <2>2. QueueTypeOK'
    BY <2>1, XAckType
  <2>3. pel' \subseteq pel /\ UNCHANGED <<log, last>>
    BY <2>1 DEF XAck
  <2>4. LogKept /\ PendingDelivered' /\ HeldDelivered'
    BY <1>1, <1>2, <2>1, <2>3 DEF LogKept, PendingDelivered
  <2> QED
    BY <2>2, <2>4 DEF StepKind
<1>8. CASE Buries
  <2>1. PICK i \in 1..last, reason \in Reasons, whole \in BOOLEAN :
          DeadLetter(i, reason, whole) /\ Keeps
    BY <1>8 DEF Buries
  <2>2. i \in 1..Len(log)
    BY DEF QueueTypeOK
  <2>3. QueueTypeOK'
    BY <2>1, <2>2, DeadLetterType
  <2>4. pel' \subseteq pel /\ UNCHANGED <<log, last>>
    BY <2>1 DEF DeadLetter
  <2>5. LogKept /\ PendingDelivered' /\ HeldDelivered'
    BY <1>1, <1>2, <2>1, <2>4 DEF LogKept, PendingDelivered
  <2> QED
    BY <2>3, <2>5 DEF StepKind
<1>9. CASE Ages
  <2>1. PICK i \in Ids : BecomeIdle(i) /\ Keeps
    BY <1>9 DEF Ages
  <2>2. QueueTypeOK' /\ PendingDelivered' /\ LogKept
    <3>1. QueueTypeOK'
      BY <2>1 DEF BecomeIdle, QueueTypeOK
    <3>2. PendingDelivered' /\ LogKept
      BY <1>2, <2>1 DEF BecomeIdle, LogKept, PendingDelivered
    <3> QED
      BY <3>1, <3>2
  <2>3. HeldDelivered'
    BY <1>1, <1>2, <2>1 DEF BecomeIdle
  <2> QED
    BY <2>2, <2>3 DEF StepKind
<1>10. CASE Rests
  <2>1. QueueTypeOK' /\ LogKept /\ PendingDelivered'
    BY <1>10 DEF Rests, queueVars, QueueTypeOK, LogKept, PendingDelivered
  <2>2. HeldDelivered'
    BY <1>1, <1>2, <1>10 DEF Rests, queueVars
  <2> QED
    BY <2>1, <2>2 DEF StepKind
<1> QED
  BY <1>3, <1>4, <1>5, <1>6, <1>7, <1>8, <1>9, <1>10 DEF StepKind, Kinds

\* The initial state satisfies the base invariant.
LEMMA InitBase == Init => BInv
<1> SUFFICES ASSUME Init PROVE BInv
  OBVIOUS
<1>1. QueueTypeOK
  <2>1. log \in Seq(Entry) /\ Len(log) = 0
    BY DEF Init, QueueInit
  <2> QED
    BY <2>1, QueueAssumption DEF Init, QueueInit, QueueTypeOK
<1>2. WorkerTypeOK
  BY DEF Init, WorkerTypeOK, Start, Steps, NoCounts, Contexts
<1>3. ClientTypeOK
  BY DispatchAssumption DEF Init, ClientTypeOK
<1>4. PendingDelivered /\ HeldDelivered
  BY DEF Init, QueueInit, PendingDelivered, HeldDelivered
<1> QED
  BY <1>1, <1>2, <1>3, <1>4 DEF BInv

\* The base invariant holds.
LEMMA Base == Spec => []BInv
<1>1. BInv /\ [Next]_vars => BInv'
  BY NextKind, KindBase
<1> QED
  BY <1>1, InitBase, PTL DEF Spec

\* Types: every field of the queue, of the goroutines and of the clients stays
\* in its range, whatever fails and in whatever order the calls interleave.
THEOREM TypeInvariant == Spec => []TypeOK
<1>1. BInv => TypeOK
  BY DEF BInv, WorkerTypeOK, ClientTypeOK, TypeOK
<1> QED
  BY <1>1, Base, PTL

\* An acked entry never becomes pending again.  Only XREADGROUP adds to the
\* pending list, and only entries nobody has read: XCLAIM, without FORCE, does
\* not bring back an entry that was acked after XPENDING listed it.
THEOREM AcksAreFinal == Spec => AckIsFinal
<1> DEFINE Final == \A i \in 1..last : i \notin pel => i \notin pel'
<1>1. ASSUME BInv, StepKind PROVE Final
  <2>1. CASE Reads
    BY <1>1, <2>1 DEF Reads, XReadGroup, Undelivered, BInv, QueueTypeOK
  <2>2. CASE Claims
    BY <2>2 DEF Claims, XClaim, XClaimed
  <2> QED
    BY <1>1, <2>1, <2>2
       DEF StepKind, Kinds, Adds, XAdd, Lists, Acks, XAck, Buries, DeadLetter,
           Ages, BecomeIdle, Rests, queueVars
<1>2. BInv /\ [Next]_vars => [Final]_vars
  BY <1>1, NextKind
<1> QED
  BY <1>2, Base, PTL DEF Spec, AckIsFinal

-----------------------------------------------------------------------------
(* Match attempts *)

\* A delivered entry with a attempts has a delivered entry of its request
\* behind it for every smaller number.  AttemptsEarned speaks of one step down
\* this ladder; "exhausted" needs all of it.
Ladder ==
  \A i \in 1..last : \A a \in 0..log[i].attempts :
    \E j \in 1..last : log[j].req = log[i].req /\ log[j].attempts = a

AttemptInv == BInv /\ AttemptsEarned /\ Ladder /\ ExhaustedHadAllAttempts

\* What is in the log.
LEMMA EntryTypes ==
  ASSUME QueueTypeOK, NEW i \in 1..Len(log)
  PROVE  log[i].req \in Requests /\ log[i].attempts \in Nat
<1>1. log[i] \in Entry
  BY DEF QueueTypeOK
<1> QED
  BY <1>1 DEF Entry

\* A published attempt number was earned.
LEMMA EarnedStep ==
  ASSUME BInv, StepKind, AttemptsEarned
  PROVE  AttemptsEarned'
<1>1. BInv' /\ LogKept
  BY KindBase
<1>2. last \in Nat /\ last' \in Nat /\ Len(log) \in Nat /\ last <= last' /\ last <= Len(log)
  BY <1>1 DEF BInv, QueueTypeOK, LogKept
<1> SUFFICES ASSUME NEW i \in 1..Len(log')
             PROVE  /\ log'[i].attempts < MaxMatchAttempts
                    /\ log'[i].attempts > 0 =>
                         \E j \in 1..(i - 1) : /\ log'[j].req = log'[i].req
                                               /\ log'[j].attempts + 1 = log'[i].attempts
                                               /\ j <= last'
  BY DEF AttemptsEarned
<1>3. CASE i \in 1..Len(log)
  <2>1. log'[i] = log[i]
    BY <1>1, <1>3 DEF LogKept
  <2>2. log[i].attempts < MaxMatchAttempts
    BY <1>3 DEF AttemptsEarned
  <2>3. ASSUME log[i].attempts > 0
        PROVE  \E j \in 1..(i - 1) : /\ log'[j].req = log'[i].req
                                     /\ log'[j].attempts + 1 = log'[i].attempts
                                     /\ j <= last'
    <3>1. PICK j \in 1..(i - 1) : /\ log[j].req = log[i].req
                                  /\ log[j].attempts + 1 = log[i].attempts
                                  /\ j <= last
      BY <1>3, <2>3 DEF AttemptsEarned
    <3>2. j \in 1..Len(log) /\ j <= last'
      BY <1>2, <1>3, <3>1
    <3>3. log'[j] = log[j]
      BY <1>1, <3>2 DEF LogKept
    <3> QED
      BY <2>1, <3>1, <3>2, <3>3
  <2> QED
    BY <2>1, <2>2, <2>3
<1>4. CASE i \notin 1..Len(log)
  <2>1. Adds
    BY <1>4 DEF StepKind, Kinds, Reads, XReadGroup, Lists, Claims, XClaim, Acks, XAck,
       Buries, DeadLetter, Ages, BecomeIdle, Rests, queueVars
  <2>2. PICK r \in Requests, a \in Nat : XAdd(r, a) /\ Earned(r, a)
    BY <2>1 DEF Adds
  <2>3. i = Len(log) + 1 /\ log'[i] = [req |-> r, attempts |-> a]
    BY <1>2, <1>4, <2>2 DEF XAdd, BInv, QueueTypeOK
  <2>4. CASE a = 0
    BY <2>3, <2>4, DispatchAssumption
  <2>5. CASE \E j \in 1..last : /\ log[j].req = r
                                /\ log[j].attempts + 1 = a
                                /\ ~LastAttempt(j)
    <3>1. PICK j \in 1..last : /\ log[j].req = r
                               /\ log[j].attempts + 1 = a
                               /\ ~LastAttempt(j)
      BY <2>5
    <3>2. j \in 1..Len(log) /\ j \in 1..(i - 1) /\ j <= last'
      BY <1>2, <2>3
    <3>3. log'[j] = log[j]
      BY <1>1, <3>2 DEF LogKept
    <3>4. a < MaxMatchAttempts
      BY <3>1, DispatchAssumption DEF LastAttempt
    <3> QED
      BY <2>3, <3>1, <3>2, <3>3, <3>4
  <2> QED
    BY <2>2, <2>4, <2>5 DEF Earned
<1> QED
  BY <1>3, <1>4

\* The ladder reaches down from every entry a step delivers.
LEMMA LadderStep ==
  ASSUME BInv, StepKind, AttemptsEarned, Ladder
  PROVE  Ladder'
<1>1. BInv' /\ LogKept
  BY KindBase
<1>2. /\ last \in Nat /\ last' \in Nat /\ Len(log) \in Nat
      /\ last <= last' /\ last <= Len(log) /\ last' <= Len(log')
  BY <1>1 DEF BInv, QueueTypeOK, LogKept
<1>3. \A k \in 1..last : k \in 1..last' /\ log'[k] = log[k]
  BY <1>1, <1>2 DEF LogKept
<1>4. ASSUME NEW k \in 1..last, NEW a \in 0..log[k].attempts
      PROVE  \E j \in 1..last' : log'[j].req = log[k].req /\ log'[j].attempts = a
  BY <1>3 DEF Ladder
<1> SUFFICES ASSUME NEW i \in 1..last', NEW a \in 0..log'[i].attempts
             PROVE  \E j \in 1..last' : log'[j].req = log'[i].req /\ log'[j].attempts = a
  BY DEF Ladder
<1>5. CASE i \in 1..last
  BY <1>3, <1>4, <1>5
<1>6. CASE i \notin 1..last
  <2>1. log' = log
    <3>1. last' # last
      BY <1>2, <1>6
    <3> QED
      BY <3>1 DEF StepKind, Kinds, Adds, XAdd, Reads, XReadGroup, Lists, Claims, XClaim,
         Acks, XAck, Buries, DeadLetter, Ages, BecomeIdle, Rests, queueVars
  <2>2. i \in 1..Len(log)
    BY <1>2, <2>1
  <2>3. log[i].attempts \in Nat
    BY <2>2, EntryTypes DEF BInv
  <2>4. CASE a = log[i].attempts
    BY <2>1, <2>4
  <2>5. CASE a # log[i].attempts
    <3>1. log[i].attempts > 0
      BY <2>1, <2>3, <2>5
    <3>2. PICK j \in 1..(i - 1) : /\ log[j].req = log[i].req
                                  /\ log[j].attempts + 1 = log[i].attempts
                                  /\ j <= last
      BY <2>2, <3>1 DEF AttemptsEarned
    <3>3. j \in 1..last /\ j \in 1..Len(log)
      BY <1>2, <2>2, <3>2
    <3>4. log[j].attempts \in Nat
      BY <3>3, EntryTypes DEF BInv
    <3>5. a \in 0..log[j].attempts
      BY <2>1, <2>3, <2>5, <3>2, <3>4
    <3> QED
      BY <1>4, <2>1, <3>2, <3>3, <3>5
  <2> QED
    BY <2>4, <2>5
<1> QED
  BY <1>5, <1>6

\* "Exhausted" is written for a last attempt, whose ladder is complete.
LEMMA ExhaustedStep ==
  ASSUME BInv, StepKind, AttemptsEarned, Ladder, ExhaustedHadAllAttempts
  PROVE  ExhaustedHadAllAttempts'
<1>1. BInv' /\ LogKept
  BY KindBase
<1>2. /\ last \in Nat /\ last' \in Nat /\ Len(log) \in Nat
      /\ last <= last' /\ last <= Len(log)
  BY <1>1 DEF BInv, QueueTypeOK, LogKept
<1>3. \A k \in 1..last : k \in 1..last' /\ log'[k] = log[k]
  BY <1>1, <1>2 DEF LogKept
<1> SUFFICES ASSUME NEW d \in dead', d.reason = "exhausted",
                    NEW a \in 0..(MaxMatchAttempts - 1)
             PROVE  \E j \in 1..last : log[j].req = d.req /\ log[j].attempts = a
  BY <1>3 DEF ExhaustedHadAllAttempts
<1>4. CASE d \in dead
  BY <1>4 DEF ExhaustedHadAllAttempts
<1>5. CASE d \notin dead
  <2>1. Buries
    BY <1>5 DEF StepKind, Kinds, Adds, XAdd, Reads, XReadGroup, Lists, Claims, XClaim,
       Acks, XAck, Ages, BecomeIdle, Rests, queueVars
  <2>2. PICK i \in 1..last, reason \in Reasons, whole \in BOOLEAN :
          DeadLetter(i, reason, whole) /\ (reason = "exhausted" => LastAttempt(i))
    BY <2>1 DEF Buries
  <2>3. d = Corpse(i, reason)
    BY <1>5, <2>2 DEF DeadLetter
  <2>4. d.req = log[i].req /\ LastAttempt(i)
    BY <2>2, <2>3 DEF Corpse
  <2>5. i \in 1..Len(log)
    BY <1>2
  <2>6. log[i].attempts \in Nat
    BY <2>5, EntryTypes DEF BInv
  <2>7. a \in 0..log[i].attempts
    BY <2>4, <2>6, DispatchAssumption DEF LastAttempt
  <2> QED
    BY <2>4, <2>7 DEF Ladder
<1> QED
  BY <1>4, <1>5

\* The inductive invariant of the attempts.
LEMMA Attempts == Spec => []AttemptInv
<1>1. Init => AttemptInv
  <2>1. Init => AttemptsEarned /\ Ladder /\ ExhaustedHadAllAttempts
    BY DEF Init, QueueInit, AttemptsEarned, Ladder, ExhaustedHadAllAttempts
  <2> QED
    BY <2>1, InitBase DEF AttemptInv
<1>2. AttemptInv /\ [Next]_vars => AttemptInv'
  BY NextKind, KindBase, EarnedStep, LadderStep, ExhaustedStep DEF AttemptInv
<1> QED
  BY <1>1, <1>2, PTL DEF Spec

\* Republish counts honestly: an entry says "a attempts" only after an entry
\* of its request that said a - 1 was handed out, and never MaxMatchAttempts,
\* whatever calls fail, repeat or race.
THEOREM EarnedAttempts == Spec => []AttemptsEarned
BY Attempts, PTL DEF AttemptInv

\* A rider is dead-lettered as "exhausted" only after MaxMatchAttempts
\* deliveries, one for each attempt number.
THEOREM ExhaustedFairly == Spec => []ExhaustedHadAllAttempts
BY Attempts, PTL DEF AttemptInv

-----------------------------------------------------------------------------
(* Who holds a message, while messages are settled in time *)

\* What a goroutine holds is not idle, so no XCLAIM takes it away.
HeldNotIdle == \A w \in Workers : Holds(w) \cap idle = {}

HoldInv == BInv /\ HeldNotIdle /\ ExclusiveProcessing

\* Steps by which nobody comes to hold a message and none becomes idle.
LEMMA HoldKeeps ==
  ASSUME HoldInv, Keeps, idle' \subseteq idle
  PROVE  HeldNotIdle' /\ ExclusiveProcessing'
<1>1. \A v \in Workers : batch'[v] \cup todo'[v] \subseteq batch[v] \cup todo[v]
  BY DEF Keeps, Holds
<1> QED
  BY <1>1 DEF HoldInv, HeldNotIdle, ExclusiveProcessing, Holds

\* XREADGROUP hands out entries nobody holds; XCLAIM takes idle ones, which
\* nobody holds; and time makes only what nobody holds idle.
LEMMA HoldStep ==
  ASSUME Timely, HoldInv, StepKind
  PROVE  HoldInv'
<1>1. BInv'
  BY KindBase DEF HoldInv
<1>2. last \in Nat
  BY DEF HoldInv, BInv, QueueTypeOK
<1>3. CASE Reads
  <2>1. PICK w \in Workers, P \in SUBSET Undelivered :
          /\ XReadGroup(P)
          /\ batch'[w] \subseteq batch[w] \cup P
          /\ \A v \in Workers \ {w} : batch'[v] = batch[v]
          /\ UNCHANGED <<todo, won, seen>>
    BY <1>3 DEF Reads
  <2>2. P \cap 1..last = {}
    BY <1>2 DEF Undelivered
  <2>3. /\ idle \cap P = {}
        /\ \A v \in Workers : (batch[v] \cup todo[v]) \cap P = {}
    BY <2>2 DEF HoldInv, BInv, PendingDelivered, HeldDelivered, QueueTypeOK
  <2>4. idle' = idle
    BY <2>1 DEF XReadGroup
  <2>5. HeldNotIdle'
    BY <2>1, <2>3, <2>4 DEF HoldInv, HeldNotIdle, Holds
  <2>6. ExclusiveProcessing'
    BY <2>1, <2>3 DEF HoldInv, ExclusiveProcessing, Holds
  <2> QED
    BY <1>1, <2>5, <2>6 DEF HoldInv
<1>4. CASE Claims
  <2>1. PICK w \in Workers :
          /\ XClaim(Listed(w))
          /\ batch'[w] \subseteq XClaimed(Listed(w))
          /\ todo'[w] \subseteq XClaimed(Listed(w))
          /\ \A v \in Workers \ {w} : batch'[v] = batch[v] /\ todo'[v] = todo[v]
    BY <1>4 DEF Claims
  <2>2. idle' = idle \ XClaimed(Listed(w)) /\ XClaimed(Listed(w)) \subseteq idle
    BY <2>1 DEF XClaim, XClaimed
  <2>3. \A v \in Workers : (batch[v] \cup todo[v]) \cap idle = {}
    BY DEF HoldInv, HeldNotIdle, Holds
  <2>4. HeldNotIdle'
    BY <2>1, <2>2, <2>3 DEF HeldNotIdle, Holds
  <2>5. ExclusiveProcessing'
    BY <2>1, <2>2, <2>3 DEF HoldInv, ExclusiveProcessing, Holds
  <2> QED
    BY <1>1, <2>4, <2>5 DEF HoldInv
<1>5. CASE Ages
  <2>1. PICK i \in Ids : /\ idle' = idle \cup {i}
                         /\ \A w \in Workers : i \notin Holds(w)
                         /\ Keeps
    BY <1>5 DEF Ages, BecomeIdle
  <2>2. \A v \in Workers : batch'[v] \cup todo'[v] \subseteq batch[v] \cup todo[v]
    BY <2>1 DEF Keeps, Holds
  <2>3. HeldNotIdle' /\ ExclusiveProcessing'
    BY <2>1, <2>2 DEF HoldInv, HeldNotIdle, ExclusiveProcessing, Holds
  <2> QED
    BY <1>1, <2>3 DEF HoldInv
<1>6. CASE Lists
  BY <1>1, <1>6 DEF Lists, queueVars, HoldInv, HeldNotIdle, ExclusiveProcessing, Holds
<1>7. CASE Adds \/ Acks \/ Buries \/ Rests
  <2>1. Keeps /\ idle' \subseteq idle
    BY <1>7 DEF Adds, XAdd, Acks, XAck, Buries, DeadLetter, Rests, queueVars
  <2> QED
    BY <1>1, <2>1, HoldKeeps DEF HoldInv
<1> QED
  BY <1>3, <1>4, <1>5, <1>6, <1>7 DEF StepKind, Kinds

\* At first nobody holds anything.
LEMMA InitHold == Init => HoldInv
<1>1. Init => HeldNotIdle /\ ExclusiveProcessing
  BY DEF Init, HeldNotIdle, ExclusiveProcessing, Holds
<1> QED
  BY <1>1, InitBase DEF HoldInv

\* While a goroutine settles what it holds within ReclaimMinIdle, no message
\* is in the hands of two: however many batchers read, list and claim at the
\* same time, and whatever replies are lost.
THEOREM ExclusiveHands ==
  ASSUME Timely
  PROVE  Spec => []ExclusiveProcessing
<1>1. HoldInv /\ [Next]_vars => HoldInv'
  BY NextKind, HoldStep DEF HoldInv
<1>2. HoldInv => ExclusiveProcessing
  BY DEF HoldInv
<1> QED
  BY <1>1, <1>2, InitHold, PTL DEF Spec

-----------------------------------------------------------------------------
(* The delivery limit, with one batcher *)

\* Only the reclaimer knows delivery counts.
SeenByReclaimer ==
  \A w \in Workers : \A i \in Ids : seen[w][i] > 0 => w[2] = "reclaim" /\ i <= last

\* What XPENDING said is still true of the entries that are still pending.
SeenTrue ==
  \A w \in Workers : \A i \in Ids :
    seen[w][i] > 0 /\ i \in pel => seen[w][i] = count[i]

\* No pending message of a batch is past its limit.
BatchInLimit ==
  \A w \in Workers : \A i \in batch[w] : i \in pel => count[i] <= MaxDeliveries

LimitInv == HoldInv /\ SeenByReclaimer /\ SeenTrue /\ BatchInLimit

\* Steps that count no delivery of a pending entry.
LEMMA LimitKeeps ==
  ASSUME LimitInv, Keeps, last' = last, pel' \subseteq pel,
         \A i \in pel' : count'[i] = count[i]
  PROVE  SeenByReclaimer' /\ SeenTrue' /\ BatchInLimit'
<1>1. \A w \in Workers : \A i \in Ids : seen'[w][i] > 0 => seen'[w][i] = seen[w][i]
  BY DEF Keeps, NoCounts
<1>2. SeenByReclaimer'
  BY <1>1 DEF LimitInv, SeenByReclaimer
<1>3. SeenTrue'
  BY <1>1 DEF LimitInv, SeenTrue
<1>4. BatchInLimit'
  BY DEF LimitInv, BatchInLimit, Keeps
<1> QED
  BY <1>2, <1>3, <1>4

\* With one reclaimer, nobody counts a delivery between its XPENDING and its
\* XCLAIM.
LEMMA LimitStep ==
  ASSUME Timely, NEW b, Batchers = {b}, LimitInv, StepKind
  PROVE  LimitInv'
<1>1. HoldInv'
  BY HoldStep DEF LimitInv
<1>2. last \in Nat /\ count \in [Ids -> Nat] /\ pel \subseteq Ids /\ pel \subseteq 1..last
  BY DEF LimitInv, HoldInv, BInv, QueueTypeOK, PendingDelivered
<1>3. CASE Reads
  <2>1. PICK w \in Workers, P \in SUBSET Undelivered :
          /\ XReadGroup(P)
          /\ batch'[w] \subseteq batch[w] \cup P
          /\ \A v \in Workers \ {w} : batch'[v] = batch[v]
          /\ UNCHANGED <<todo, won, seen>>
    BY <1>3 DEF Reads
  <2>2. P \cap 1..last = {} /\ last <= last'
    BY <1>2, <2>1 DEF Undelivered, XReadGroup
  <2>3. /\ \A i \in pel' : i \in P \/ (i \in pel /\ i \notin P)
        /\ \A i \in Ids : count'[i] = IF i \in P THEN 1 ELSE count[i]
        /\ last' \in Nat
    BY <1>2, <2>1, <2>2 DEF XReadGroup, Undelivered, LimitInv, HoldInv, BInv, QueueTypeOK
  <2>4. pel' \subseteq Ids
    BY <1>1 DEF HoldInv, BInv, QueueTypeOK
  <2>5. SeenByReclaimer'
    BY <1>2, <2>1, <2>2, <2>3 DEF LimitInv, SeenByReclaimer, Ids
  <2>6. SeenTrue'
    <3> SUFFICES ASSUME NEW v \in Workers, NEW i \in Ids, seen[v][i] > 0, i \in pel'
                 PROVE  seen[v][i] = count'[i]
      BY <2>1 DEF SeenTrue
    <3>1. i \in 1..last
      BY <1>2 DEF LimitInv, SeenByReclaimer, Ids
    <3>2. i \in pel /\ i \notin P
      BY <2>2, <2>3, <3>1
    <3> QED
      BY <2>3, <3>2 DEF LimitInv, SeenTrue
  <2>7. BatchInLimit'
    <3> SUFFICES ASSUME NEW v \in Workers, NEW i \in batch'[v], i \in pel'
                 PROVE  count'[i] <= MaxDeliveries
      BY DEF BatchInLimit
    <3>1. CASE i \in P
      BY <2>3, <2>4, <3>1, QueueAssumption
    <3>2. CASE i \notin P
      <4>1. i \in batch[v] /\ i \in pel
        BY <2>1, <2>3, <3>2
      <4> QED
        BY <2>3, <2>4, <3>2, <4>1 DEF LimitInv, BatchInLimit
    <3> QED
      BY <3>1, <3>2
  <2> QED
    BY <1>1, <2>5, <2>6, <2>7 DEF LimitInv
<1>4. CASE Lists
  <2>1. PICK w \in Workers, P \in SUBSET idle :
          /\ w[2] = "reclaim"
          /\ seen' = [seen EXCEPT ![w] = XPending(P)]
          /\ UNCHANGED <<queueVars, batch, todo, won>>
    BY <1>4 DEF Lists
  <2>2. /\ \A i \in Ids : seen'[w][i] > 0 => i \in P /\ seen'[w][i] = count[i]
        /\ \A v \in Workers \ {w} : seen'[v] = seen[v]
    BY <2>1 DEF XPending, LimitInv, HoldInv, BInv, WorkerTypeOK
  <2>3. P \subseteq 1..last /\ UNCHANGED <<last, pel, count, batch>>
    BY <1>2, <2>1 DEF LimitInv, HoldInv, BInv, QueueTypeOK, queueVars
  <2>4. SeenByReclaimer'
    <3> SUFFICES ASSUME NEW v \in Workers, NEW i \in Ids, seen'[v][i] > 0
                 PROVE  v[2] = "reclaim" /\ i <= last
      BY <2>3 DEF SeenByReclaimer
    <3>1. CASE v = w
      <4>1. i \in P
        BY <2>2, <3>1
      <4>2. i \in 1..last
        BY <2>3, <4>1
      <4> QED
        BY <1>2, <2>1, <3>1, <4>2
    <3>2. CASE v # w
      BY <2>2, <3>2 DEF LimitInv, SeenByReclaimer
    <3> QED
      BY <3>1, <3>2
  <2>5. SeenTrue'
    BY <2>2, <2>3 DEF LimitInv, SeenTrue
  <2>6. BatchInLimit'
    BY <2>3 DEF LimitInv, BatchInLimit
  <2> QED
    BY <1>1, <2>4, <2>5, <2>6 DEF LimitInv
<1>5. CASE Claims
  <2>1. PICK w \in Workers :
          /\ XClaim(Listed(w))
          /\ batch'[w] \subseteq XClaimed(Listed(w))
          /\ \A i \in batch'[w] : seen[w][i] + 1 <= MaxDeliveries
          /\ seen'[w] = NoCounts
          /\ \A v \in Workers \ {w} : batch'[v] = batch[v] /\ seen'[v] = seen[v]
    BY <1>5 DEF Claims
  <2> DEFINE C == XClaimed(Listed(w))
  <2>2. C \subseteq Listed(w) /\ C \subseteq idle
    BY DEF XClaimed
  <2>3. /\ pel' \subseteq pel /\ last' = last
        /\ \A i \in pel' : count'[i] = IF i \in C THEN count[i] + 1 ELSE count[i]
    <3>1. pel' \subseteq pel /\ last' = last
      BY <2>1 DEF XClaim, XClaimed
    <3>2. ASSUME NEW i \in pel'
          PROVE  count'[i] = IF i \in C THEN count[i] + 1 ELSE count[i]
      <4>1. i \in Ids
        BY <1>2, <3>1
      <4>2. CASE i \in C
        BY <2>1, <4>1, <4>2 DEF XClaim
      <4>3. CASE i \notin C
        BY <2>1, <4>1, <4>3 DEF XClaim
      <4> QED
        BY <4>2, <4>3
    <3> QED
      BY <3>1, <3>2
  <2>4. \A v \in Workers \ {w} : \A i \in C : ~(seen[v][i] > 0)
    <3> SUFFICES ASSUME NEW v \in Workers, v # w, NEW i \in C, seen[v][i] > 0
                 PROVE  FALSE
      OBVIOUS
    <3>1. i \in Ids /\ seen[w][i] > 0
      BY <2>2 DEF Listed
    <3>2. v[2] = "reclaim" /\ w[2] = "reclaim"
      BY <3>1 DEF LimitInv, SeenByReclaimer
    <3>3. v = <<b, v[2]>> /\ w = <<b, w[2]>>
      BY DEF Workers
    <3> QED
      BY <3>2, <3>3
  <2>5. \A i \in C : i \in pel => seen[w][i] = count[i]
    BY <2>2 DEF Listed, LimitInv, SeenTrue
  <2>6. \A v \in Workers : \A i \in C : i \notin batch[v]
    BY <2>2 DEF LimitInv, HoldInv, HeldNotIdle, Holds
  <2> HIDE DEF C
  <2>7. SeenByReclaimer'
    <3>1. \A v \in Workers : \A i \in Ids : seen'[v][i] > 0 => seen'[v][i] = seen[v][i]
      BY <2>1 DEF NoCounts
    <3> QED
      BY <2>3, <3>1 DEF LimitInv, SeenByReclaimer
  <2>8. SeenTrue'
    BY <2>1, <2>3, <2>4 DEF LimitInv, SeenTrue, NoCounts
  <2>9. BatchInLimit'
    <3> SUFFICES ASSUME NEW v \in Workers, NEW i \in batch'[v], i \in pel'
                 PROVE  count'[i] <= MaxDeliveries
      BY DEF BatchInLimit
    <3>1. CASE v = w
      <4>1. i \in C /\ i \in pel
        BY <2>1, <2>3, <3>1 DEF C
      <4> QED
        BY <2>1, <2>3, <2>5, <3>1, <4>1
    <3>2. CASE v # w
      <4>1. i \in batch[v] /\ i \in pel
        BY <2>1, <2>3, <3>2
      <4>2. i \notin C
        BY <2>6, <4>1
      <4> QED
        BY <2>3, <4>1, <4>2 DEF LimitInv, BatchInLimit
    <3> QED
      BY <3>1, <3>2
  <2> QED
    BY <1>1, <2>7, <2>8, <2>9 DEF LimitInv
<1>6. CASE Adds \/ Acks \/ Buries \/ Ages \/ Rests
  <2>1. Keeps /\ last' = last /\ pel' \subseteq pel
    BY <1>6 DEF Adds, XAdd, Acks, XAck, Buries, DeadLetter, Ages, BecomeIdle, Rests, queueVars
  <2>2. \A i \in pel' : count'[i] = count[i]
    <3>1. CASE Acks
      BY <1>2, <3>1 DEF Acks, XAck
    <3>2. CASE Buries
      BY <1>2, <3>2 DEF Buries, DeadLetter
    <3> QED
      BY <1>6, <3>1, <3>2 DEF Adds, XAdd, Ages, BecomeIdle, Rests, queueVars
  <2>3. SeenByReclaimer' /\ SeenTrue' /\ BatchInLimit'
    BY <2>1, <2>2, LimitKeeps
  <2> QED
    BY <1>1, <2>3 DEF LimitInv
<1> QED
  BY <1>3, <1>4, <1>5, <1>6 DEF StepKind, Kinds

\* With one batcher, and messages settled in time, no message goes to the
\* driver lookup or to the solver once it is past its delivery limit: the
\* reclaimer's count is not stale.
THEOREM LimitKept ==
  ASSUME Timely, NEW b, Batchers = {b}
  PROVE  Spec => []PoisonNotProcessed
<1>1. Init => LimitInv
  <2>1. Init => SeenByReclaimer /\ SeenTrue /\ BatchInLimit
    BY DEF Init, NoCounts, SeenByReclaimer, SeenTrue, BatchInLimit
  <2> QED
    BY <2>1, InitHold DEF LimitInv
<1>2. LimitInv /\ [Next]_vars => LimitInv'
  BY NextKind, LimitStep DEF LimitInv, HoldInv
<1>3. LimitInv => PoisonNotProcessed
  BY DEF LimitInv, BatchInLimit, PoisonNotProcessed
<1> QED
  BY <1>1, <1>2, <1>3, PTL DEF Spec

=============================================================================
