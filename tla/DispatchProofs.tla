--------------------------- MODULE DispatchProofs ---------------------------
(***************************************************************************)
(* No request is lost: proofs about Dispatch while MAXLEN trims nothing,   *)
(* for any number of requests, drivers, batchers, entries, faults and      *)
(* stops.                                                                  *)
(***************************************************************************)
EXTENDS ProcessingProofs, WellFoundedInduction

-----------------------------------------------------------------------------
(* The inductive invariant *)

\* The stream holds fewer entries than MAXLEN: nothing has been trimmed.
Untrimmed == first = 1

\* The messages to be acked at the end of a batch were matched.
WonMatched == \A w \in Workers : \A i \in won[w] : Matched(log[i].req)

\* Between the two halves of Republish the request has its next entry.
UnpendPublished ==
  \A w \in Workers : pc[w] = "unpend" =>
    \A i \in todo[w] : IsFirst(i, todo[w]) => Superseded(i)

\* An accepted request has an entry.
AcceptedPublished ==
  \A r \in Requests : client[r] = "accepted" =>
    \E i \in 1..Len(log) : log[i].req = r

QueueInv ==
  /\ QueueTypeOK
  /\ Untrimmed
  /\ PendingDelivered
  /\ AckedMeansSettled

WorkerInv ==
  /\ WorkerTypeOK
  /\ HeldDelivered
  /\ WonMatched
  /\ UnpendPublished

ClientInv ==
  /\ ClientTypeOK
  /\ AcceptedPublished

IInv == QueueInv /\ WorkerInv /\ ClientInv

-----------------------------------------------------------------------------
(* What no step undoes *)

LogGrows ==
  /\ Len(log) <= Len(log')
  /\ \A i \in 1..Len(log) : log'[i] = log[i]
  /\ 1..last \subseteq 1..last'
  /\ dead \subseteq dead'

BookedGrows == \A r \in Requests : booked[r] \subseteq booked'[r]

Grows == LogGrows /\ BookedGrows

\* An entry stays in the log.
LEMMA EntryStays ==
  ASSUME QueueTypeOK, LogGrows, NEW i \in 1..Len(log)
  PROVE  i \in 1..Len(log') /\ log'[i] = log[i]
BY DEF QueueTypeOK, LogGrows

\* A superseded entry stays superseded.
LEMMA SupersededStays ==
  ASSUME QueueTypeOK, Grows, NEW i \in 1..Len(log), Superseded(i)
  PROVE  Superseded(i)'
<1>1. PICK j \in 1..Len(log) : j > i /\ log[j].req = log[i].req
  BY DEF Superseded
<1>2. /\ j \in 1..Len(log') /\ log'[j] = log[j]
      /\ log'[i] = log[i]
  BY EntryStays DEF Grows
<1> QED
  BY <1>1, <1>2 DEF Superseded

\* What an ack of entry i needs.
MayAck(i) == Settled(log[i].req) \/ Superseded(i)

\* Entries that may be acked may be acked later.
LEMMA MayAckStays ==
  ASSUME QueueTypeOK, Grows, NEW i \in 1..Len(log), MayAck(i)
  PROVE  MayAck(i)'
<1>1. log[i] \in Entry /\ log'[i] = log[i]
  BY DEF QueueTypeOK, Grows, LogGrows
<1>2. log[i].req \in Requests
  BY <1>1 DEF Entry
<1>3. CASE Superseded(i)
  BY <1>3, SupersededStays DEF MayAck
<1>4. CASE Settled(log[i].req)
  BY <1>1, <1>2, <1>4 DEF Grows, LogGrows, BookedGrows, MayAck, Settled, Matched, DeadLettered
<1> QED
  BY <1>3, <1>4 DEF MayAck

\* If every entry a step acks may be acked after it, acked entries are still
\* settled or superseded.
LEMMA AckStep ==
  ASSUME QueueInv, Grows,
         \A i \in 1..last' : i \in pel' \/ MayAck(i)' \/ (i \in 1..last /\ i \notin pel)
  PROVE  AckedMeansSettled'
<1> SUFFICES ASSUME NEW i \in 1..last', i \notin pel'
             PROVE  MayAck(i)'
  BY DEF AckedMeansSettled, MayAck
<1>1. CASE i \in 1..last /\ i \notin pel
  <2>1. i \in 1..Len(log)
    BY <1>1 DEF QueueInv, QueueTypeOK
  <2>2. MayAck(i)
    BY <1>1 DEF QueueInv, AckedMeansSettled, MayAck
  <2> QED
    BY <2>1, <2>2, MayAckStays DEF QueueInv
<1> QED
  BY <1>1

-----------------------------------------------------------------------------
(* The queue's part of the invariant, one command at a time *)

\* XADD trims nothing while the stream is shorter than MAXLEN.
LEMMA XAddInv ==
  ASSUME MaxEntries <= MaxLen, QueueInv, BookedGrows,
         NEW r \in Requests, NEW a \in Nat, XAdd(r, a)
  PROVE  /\ QueueInv'
         /\ LogGrows
         /\ \E j \in 1..Len(log') : j > Len(log) /\ log'[j].req = r
<1>1. QueueTypeOK'
  BY XAddType DEF QueueInv
<1>2. /\ Len(log') = Len(log) + 1
      /\ \A i \in 1..Len(log) : log'[i] = log[i]
      /\ log'[Len(log) + 1] = [req |-> r, attempts |-> a]
      /\ Len(log) \in Nat
  BY DEF XAdd, QueueInv, QueueTypeOK
<1>3. LogGrows
  BY <1>2 DEF XAdd, LogGrows, QueueInv, QueueTypeOK
<1>4. Untrimmed'
  BY <1>2, QueueAssumption DEF XAdd, Untrimmed, QueueInv, QueueTypeOK
<1>5. PendingDelivered'
  BY DEF XAdd, PendingDelivered, QueueInv
<1>6. AckedMeansSettled'
  <2>1. \A i \in 1..last' : i \in pel' \/ MayAck(i)' \/ (i \in 1..last /\ i \notin pel)
    BY DEF XAdd
  <2> QED
    BY <1>3, <2>1, AckStep DEF Grows
<1>7. \E j \in 1..Len(log') : j > Len(log) /\ log'[j].req = r
  BY <1>2
<1> QED
  BY <1>1, <1>3, <1>4, <1>5, <1>6, <1>7 DEF QueueInv

\* XREADGROUP leaves no entry behind: all it skips over is in its reply.
LEMMA XReadGroupInv ==
  ASSUME QueueInv, BookedGrows, NEW n,
         NEW P \in SUBSET Undelivered, FirstN(P, Undelivered, n), XReadGroup(P)
  PROVE  QueueInv' /\ LogGrows /\ P \subseteq 1..last' /\ P \subseteq Ids
<1>1. QueueTypeOK'
  BY XReadGroupType DEF QueueInv
<1>2. PICK m \in P : (\A i \in P : i <= m) /\ last' = m
  BY DEF XReadGroup
<1>3. m \in 1..Len(log) /\ m > last /\ last \in Nat
  BY DEF Undelivered, QueueInv, QueueTypeOK
<1>4. LogGrows
  BY <1>2, <1>3 DEF LogGrows, XReadGroup, QueueInv, QueueTypeOK
<1>5. P \subseteq 1..last'
  BY <1>2 DEF Undelivered, QueueInv, QueueTypeOK
<1>6. Untrimmed' /\ PendingDelivered'
  <2>1. pel \subseteq 1..last'
    BY <1>2, <1>3 DEF PendingDelivered, QueueInv
  <2> QED
    BY <1>5, <2>1 DEF XReadGroup, Untrimmed, PendingDelivered, QueueInv
<1>7. \A i \in 1..last' : i \in pel' \/ MayAck(i)' \/ (i \in 1..last /\ i \notin pel)
  <2> SUFFICES ASSUME NEW i \in 1..last', i \notin pel'
               PROVE  i \in 1..last /\ i \notin pel
    OBVIOUS
  <2>1. i \notin P /\ i \notin pel
    BY DEF XReadGroup
  <2>2. CASE i > last
    <3>1. i \in Undelivered
      BY <1>2, <1>3, <2>2 DEF Undelivered, Untrimmed, QueueInv
    <3>2. m < i
      BY <2>1, <3>1 DEF FirstN
    <3> QED
      BY <1>2, <1>3, <3>2
  <2> QED
    BY <1>3, <2>1, <2>2
<1>8. AckedMeansSettled'
  BY <1>4, <1>7, AckStep DEF Grows
<1>9. P \subseteq Ids
  BY QueueAssumption DEF QueueInv, QueueTypeOK, Undelivered, Ids
<1> QED
  BY <1>1, <1>4, <1>5, <1>6, <1>8, <1>9 DEF QueueInv

\* XCLAIM removes nothing from the pending list of an untrimmed stream.
LEMMA XClaimInv ==
  ASSUME QueueInv, BookedGrows, NEW S \in SUBSET Ids, XClaim(S)
  PROVE  QueueInv' /\ LogGrows
<1>1. QueueTypeOK'
  BY XClaimType DEF QueueInv
<1>2. pel' = pel
  <2>1. \A i \in Ids : ~(i < first)
    BY DEF QueueInv, Untrimmed, Ids
  <2>2. {i \in XClaimed(S) : i < first} = {}
    BY <2>1 DEF XClaimed
  <2> QED
    BY <2>2 DEF XClaim, XClaimed
<1>3. LogGrows
  BY DEF LogGrows, XClaim, QueueInv, QueueTypeOK
<1>4. \A i \in 1..last' : i \in pel' \/ MayAck(i)' \/ (i \in 1..last /\ i \notin pel)
  BY <1>2 DEF XClaim
<1>5. AckedMeansSettled'
  BY <1>3, <1>4, AckStep DEF Grows
<1> QED
  BY <1>1, <1>2, <1>3, <1>5 DEF QueueInv, XClaim, Untrimmed, PendingDelivered

\* XACK of entries that may be acked.
LEMMA XAckInv ==
  ASSUME QueueInv, BookedGrows, NEW S \in SUBSET Ids,
         S \subseteq 1..last, \A i \in S : MayAck(i), XAck(S)
  PROVE  QueueInv' /\ LogGrows
<1>1. QueueTypeOK'
  BY XAckType DEF QueueInv
<1>2. LogGrows
  BY DEF LogGrows, XAck, QueueInv, QueueTypeOK
<1>3. \A i \in S : MayAck(i)'
  <2> SUFFICES ASSUME NEW i \in S PROVE MayAck(i)'
    OBVIOUS
  <2>1. i \in 1..Len(log)
    BY DEF QueueInv, QueueTypeOK
  <2> QED
    BY <1>2, <2>1, MayAckStays DEF Grows, QueueInv
<1>4. \A i \in 1..last' : i \in pel' \/ MayAck(i)' \/ (i \in 1..last /\ i \notin pel)
  BY <1>3 DEF XAck
<1>5. AckedMeansSettled'
  BY <1>2, <1>4, AckStep DEF Grows
<1> QED
  BY <1>1, <1>2, <1>5 DEF QueueInv, XAck, Untrimmed, PendingDelivered

\* The dead-letter pipeline writes aside what it acks.
LEMMA DeadLetterInv ==
  ASSUME QueueInv, BookedGrows, NEW i \in 1..last, NEW reason \in Reasons,
         NEW whole \in BOOLEAN, DeadLetter(i, reason, whole)
  PROVE  QueueInv' /\ LogGrows
<1>1. i \in 1..Len(log)
  BY DEF QueueInv, QueueTypeOK
<1>2. QueueTypeOK'
  BY <1>1, DeadLetterType DEF QueueInv
<1>3. LogGrows
  BY DEF LogGrows, DeadLetter, QueueInv, QueueTypeOK
<1>4. MayAck(i)'
  <2>1. Corpse(i, reason) \in dead' /\ log' = log
    BY DEF DeadLetter
  <2>2. Corpse(i, reason).req = log[i].req
    BY DEF Corpse
  <2> QED
    BY <2>1, <2>2 DEF MayAck, Settled, DeadLettered
<1>5. \A j \in 1..last' : j \in pel' \/ MayAck(j)' \/ (j \in 1..last /\ j \notin pel)
  <2>1. last' = last /\ (pel' = pel \/ pel' = pel \ {i})
    BY DEF DeadLetter
  <2> QED
    BY <1>4, <2>1
<1>7. AckedMeansSettled'
  BY <1>3, <1>5, AckStep DEF Grows
<1>8. Untrimmed' /\ PendingDelivered'
  BY DEF QueueInv, DeadLetter, Untrimmed, PendingDelivered
<1> QED
  BY <1>2, <1>3, <1>7, <1>8 DEF QueueInv

\* Steps that leave the entries and the pending list alone.
LEMMA QueueSameInv ==
  ASSUME QueueInv, BookedGrows, QueueTypeOK',
         UNCHANGED <<log, first, last, pel, dead>>
  PROVE  QueueInv' /\ LogGrows
<1>1. LogGrows
  BY DEF LogGrows, QueueInv, QueueTypeOK
<1>2. \A i \in 1..last' : i \in pel' \/ MayAck(i)' \/ (i \in 1..last /\ i \notin pel)
  OBVIOUS
<1>4. AckedMeansSettled'
  BY <1>1, <1>2, AckStep DEF Grows
<1> QED
  BY <1>1, <1>4 DEF QueueInv, Untrimmed, PendingDelivered

-----------------------------------------------------------------------------
(* The goroutines' part of the invariant *)

\* What a step takes away from the goroutines, or leaves with them, keeps
\* their part of the invariant.
LEMMA WorkersShrink ==
  ASSUME QueueInv, WorkerInv, Grows, WorkerTypeOK',
         \A w \in Workers :
           /\ batch'[w] \subseteq batch[w]
           /\ todo'[w] \subseteq batch[w] \cup todo[w]
           /\ won'[w] \subseteq won[w]
           /\ pc'[w] = "unpend" => pc[w] = "unpend" /\ todo'[w] = todo[w]
  PROVE  WorkerInv'
<1>1. \A i \in 1..last : i \in 1..last' /\ i \in 1..Len(log) /\ log'[i] = log[i]
  <2>1. 1..last \subseteq 1..Len(log)
    BY DEF QueueInv, QueueTypeOK
  <2> QED
    BY <2>1 DEF Grows, LogGrows
<1>2. \A i \in 1..Len(log) : log[i].req \in Requests
  <2>1. \A i \in 1..Len(log) : log[i] \in Entry
    BY DEF QueueInv, QueueTypeOK
  <2> QED
    BY <2>1 DEF Entry
<1>3. HeldDelivered'
  BY <1>1 DEF HeldDelivered, WorkerInv
<1>4. WonMatched'
  BY <1>1, <1>2 DEF WonMatched, HeldDelivered, Matched, WorkerInv, Grows, BookedGrows
<1>5. UnpendPublished'
  <2> SUFFICES ASSUME NEW w \in Workers, pc'[w] = "unpend",
                      NEW i \in todo'[w], IsFirst(i, todo'[w])
               PROVE  Superseded(i)'
    BY DEF UnpendPublished, IsFirst
  <2>1. Superseded(i)
    BY DEF UnpendPublished, WorkerInv
  <2>2. i \in 1..Len(log)
    BY <1>1 DEF HeldDelivered, WorkerInv
  <2> QED
    BY <2>1, <2>2, SupersededStays DEF QueueInv
<1> QED
  BY <1>3, <1>4, <1>5 DEF WorkerInv

\* processBatch returns.
LEMMA ReturnInv ==
  ASSUME QueueInv, WorkerInv, Grows, NEW w \in Workers, Return(w)
  PROVE  WorkerInv'
<1>1. WorkerTypeOK'
  BY DEF WorkerInv, WorkerTypeOK, Return, Start, Steps, NoCounts
<1>2. \A v \in Workers :
        /\ batch'[v] \subseteq batch[v]
        /\ todo'[v] \subseteq todo[v]
        /\ won'[v] \subseteq won[v]
  BY DEF WorkerInv, WorkerTypeOK, Return
<1>3. \A v \in Workers : pc'[v] = "unpend" => pc[v] = "unpend" /\ todo'[v] = todo[v]
  BY DEF WorkerInv, WorkerTypeOK, Return, Start
<1> QED
  BY <1>1, <1>2, <1>3, WorkersShrink

\* A goroutine goes to another step of its code.
LEMMA GoToInv ==
  ASSUME QueueInv, WorkerInv, Grows, NEW w \in Workers,
         NEW step \in Steps \ {"unpend"}, GoTo(w, step)
  PROVE  WorkerInv'
<1>1. WorkerTypeOK'
  BY DEF WorkerInv, WorkerTypeOK, GoTo
<1>2. \A v \in Workers : pc'[v] = "unpend" => pc[v] = "unpend" /\ todo'[v] = todo[v]
  BY DEF WorkerInv, WorkerTypeOK, GoTo
<1> QED
  BY <1>1, <1>2, WorkersShrink DEF GoTo

\* A loop over messages goes on to the next one.
LEMMA NextMessageInv ==
  ASSUME QueueInv, WorkerInv, Grows, NEW w \in Workers,
         NEW step \in Steps \ {"unpend"}, NEW i, NextMessage(w, step, i)
  PROVE  WorkerInv'
<1>1. WorkerTypeOK'
  BY DEF WorkerInv, WorkerTypeOK, NextMessage
<1>2. \A v \in Workers : pc'[v] = "unpend" => pc[v] = "unpend" /\ todo'[v] = todo[v]
  BY DEF WorkerInv, WorkerTypeOK, NextMessage
<1>3. \A v \in Workers : todo'[v] \subseteq todo[v]
  BY DEF WorkerInv, WorkerTypeOK, NextMessage
<1> QED
  BY <1>1, <1>2, <1>3, WorkersShrink DEF NextMessage

\* The goroutines of a process start afresh.
LEMMA FreshInv ==
  ASSUME QueueInv, WorkerInv, Grows, NEW b \in Batchers, Fresh(b)
  PROVE  WorkerInv'
<1>1. WorkerTypeOK'
  BY DEF WorkerInv, WorkerTypeOK, Fresh, Start, Steps, NoCounts, Contexts
<1>2. \A v \in Workers :
        /\ batch'[v] \subseteq batch[v]
        /\ todo'[v] \subseteq todo[v]
        /\ won'[v] \subseteq won[v]
  BY DEF WorkerInv, WorkerTypeOK, Fresh
<1>3. \A v \in Workers : pc'[v] = "unpend" => pc[v] = "unpend" /\ todo'[v] = todo[v]
  BY DEF WorkerInv, WorkerTypeOK, Fresh, Start
<1> QED
  BY <1>1, <1>2, <1>3, WorkersShrink

\* The goroutines stay where they are.
LEMMA WorkersSameInv ==
  ASSUME QueueInv, WorkerInv, Grows, UNCHANGED workerVars
  PROVE  WorkerInv'
BY WorkersShrink DEF WorkerInv, WorkerTypeOK, workerVars

-----------------------------------------------------------------------------
(* The clients' part of the invariant *)

\* Steps that answer no client.
LEMMA ClientSameInv ==
  ASSUME QueueInv, ClientInv, LogGrows, client' = client,
         booked' \in [Requests -> SUBSET Drivers],
         faults' \in 0..MaxFaults, stops' \in 0..MaxStops
  PROVE  ClientInv'
<1>1. ClientTypeOK'
  BY DEF ClientInv, ClientTypeOK
<1>2. AcceptedPublished'
  <2> SUFFICES ASSUME NEW r \in Requests, client[r] = "accepted"
               PROVE  \E i \in 1..Len(log') : log'[i].req = r
    BY DEF AcceptedPublished
  <2>1. PICK i \in 1..Len(log) : log[i].req = r
    BY DEF ClientInv, AcceptedPublished
  <2>2. i \in 1..Len(log') /\ log'[i] = log[i]
    BY EntryStays DEF QueueInv
  <2> QED
    BY <2>1, <2>2
<1> QED
  BY <1>1, <1>2 DEF ClientInv

\* Steps that touch no variable but the queue's and the goroutines'.
LEMMA Combine ==
  ASSUME IInv, QueueInv', WorkerInv', LogGrows,
         UNCHANGED <<client, booked, stops>>, faults' \in 0..MaxFaults
  PROVE  IInv'
BY ClientSameInv DEF IInv, ClientInv, ClientTypeOK

\* Steps that leave the queue alone.
LEMMA CombineSame ==
  ASSUME IInv, WorkerInv', UNCHANGED <<queueVars, client, booked, stops>>,
         faults' \in 0..MaxFaults
  PROVE  IInv'
<1>1. BookedGrows
  BY DEF BookedGrows
<1>2. QueueTypeOK'
  BY DEF IInv, QueueInv, QueueTypeOK, queueVars
<1>3. QueueInv' /\ LogGrows
  BY <1>1, <1>2, QueueSameInv DEF IInv, queueVars
<1> QED
  BY <1>3, Combine

\* No queue variable changes: nothing shrinks.
LEMMA SameGrows ==
  ASSUME IInv, UNCHANGED <<queueVars, booked>>
  PROVE  Grows
BY DEF IInv, QueueInv, QueueTypeOK, Grows, LogGrows, BookedGrows, queueVars

-----------------------------------------------------------------------------
(* One lemma per action *)

\* POST: whatever the client is told, an accepted request has an entry.
LEMMA PostInv ==
  ASSUME MaxEntries <= MaxLen, IInv, NEW r \in Requests, Post(r)
  PROVE  IInv'
<1> USE DEF IInv
<1>1. BookedGrows
  BY DEF Post, BookedGrows
<1>2. faults' \in 0..MaxFaults /\ stops' \in 0..MaxStops
  BY DispatchAssumption DEF Post, SpendFault, ClientInv, ClientTypeOK
<1>3. client' \in [Requests -> {"new", "refused", "accepted"}]
  BY DEF Post, ClientInv, ClientTypeOK
<1>4. CASE XAdd(r, 0)
  <2>1. /\ QueueInv'
        /\ LogGrows
        /\ \E j \in 1..Len(log') : j > Len(log) /\ log'[j].req = r
    BY <1>1, <1>4, XAddInv
  <2>2. WorkerInv'
    BY <1>1, <2>1, WorkersSameInv DEF Post, Grows
  <2>3. AcceptedPublished'
    <3> SUFFICES ASSUME NEW q \in Requests, client'[q] = "accepted", q # r
                 PROVE  \E i \in 1..Len(log') : log'[i].req = q
      BY <2>1 DEF AcceptedPublished
    <3>1. client[q] = "accepted"
      BY DEF Post, ClientInv, ClientTypeOK
    <3>2. PICK i \in 1..Len(log) : log[i].req = q
      BY <3>1 DEF ClientInv, AcceptedPublished
    <3>3. i \in 1..Len(log') /\ log'[i] = log[i]
      BY <2>1, EntryStays DEF QueueInv
    <3> QED
      BY <3>2, <3>3
  <2> QED
    BY <1>2, <1>3, <2>1, <2>2, <2>3 DEF ClientInv, ClientTypeOK, Post
<1>5. CASE /\ client' = [client EXCEPT ![r] = "refused"]
           /\ UNCHANGED queueVars
  <2>1. QueueTypeOK'
    BY <1>5 DEF QueueInv, QueueTypeOK, queueVars
  <2>2. QueueInv' /\ LogGrows
    BY <1>1, <1>5, <2>1, QueueSameInv DEF queueVars
  <2>3. WorkerInv'
    BY <1>1, <2>2, WorkersSameInv DEF Post, Grows
  <2>4. AcceptedPublished'
    BY <1>5 DEF AcceptedPublished, ClientInv, ClientTypeOK, queueVars
  <2> QED
    BY <1>2, <1>3, <2>2, <2>3, <2>4 DEF ClientInv, ClientTypeOK, Post
<1> QED
  BY <1>4, <1>5 DEF Post

\* Consume: what was read is pending, and held by w unless the reply is lost.
LEMMA ConsumeInv ==
  ASSUME IInv, NEW w \in Workers, Consume(w)
  PROVE  IInv'
<1> USE DEF IInv
<1>1. PICK P \in (SUBSET Undelivered) \ {{}} :
        /\ FirstN(P, Undelivered, MaxBatchSize - Cardinality(batch[w]))
        /\ XReadGroup(P)
        /\ \/ /\ Succeeds(w)
              /\ batch' = [batch EXCEPT ![w] = @ \cup P]
              /\ pc' = [pc EXCEPT ![w] =
                          IF Cardinality(batch[w] \cup P) >= MaxBatchSize
                          THEN "lookup" ELSE "collect"]
              /\ UNCHANGED <<todo, won, seen, ctx>>
           \/ ReplyLost(w) /\ UNCHANGED workerVars
  BY DEF Consume
<1>2. BookedGrows
  BY DEF Consume, BookedGrows
<1>3. QueueInv' /\ LogGrows /\ P \subseteq 1..last' /\ P \subseteq Ids
  BY <1>1, <1>2, XReadGroupInv
<1>4. faults' \in 0..MaxFaults
  BY <1>1, FaultsType DEF ClientInv, ClientTypeOK
<1>5. WorkerInv'
  <2>1. CASE UNCHANGED workerVars
    BY <1>2, <1>3, <2>1, WorkersSameInv DEF Grows
  <2>2. CASE /\ batch' = [batch EXCEPT ![w] = @ \cup P]
             /\ pc' = [pc EXCEPT ![w] =
                          IF Cardinality(batch[w] \cup P) >= MaxBatchSize
                          THEN "lookup" ELSE "collect"]
             /\ UNCHANGED <<todo, won, seen, ctx>>
    <3>1. WorkerTypeOK'
      BY <1>3, <2>2 DEF WorkerInv, WorkerTypeOK, Steps
    <3>2. HeldDelivered'
      BY <1>3, <2>2 DEF WorkerInv, WorkerTypeOK, HeldDelivered, LogGrows
    <3>3. WonMatched'
      BY <2>2 DEF WorkerInv, WonMatched, Matched, Consume, XReadGroup
    <3>4. UnpendPublished'
      <4>1. \A v \in Workers : pc'[v] = "unpend" => pc[v] = "unpend"
        BY <2>2 DEF WorkerInv, WorkerTypeOK
      <4>2. log' = log
        BY <1>1 DEF XReadGroup
      <4> QED
        BY <2>2, <4>1, <4>2 DEF WorkerInv, UnpendPublished, Superseded
    <3> QED
      BY <3>1, <3>2, <3>3, <3>4 DEF WorkerInv
  <2> QED
    BY <1>1, <2>1, <2>2
<1> QED
  BY <1>3, <1>4, <1>5, Combine DEF Consume

\* The timer hands the batch to processBatch.
LEMMA FlushInv ==
  ASSUME IInv, NEW w \in Workers, Flush(w)
  PROVE  IInv'
<1>1. Grows
  BY SameGrows DEF Flush
<1>2. WorkerInv'
  BY <1>1, GoToInv DEF Flush, IInv, Steps
<1>3. faults' \in 0..MaxFaults
  BY DEF Flush, IInv, ClientInv, ClientTypeOK
<1> QED
  BY <1>2, <1>3, CombineSame DEF Flush

\* The last batch of a run loop that stops.
LEMMA DrainInv ==
  ASSUME IInv, NEW w \in Workers, Drain(w)
  PROVE  IInv'
<1>1. Grows
  BY SameGrows DEF Drain
<1>2. WorkerInv'
  <2>1. CASE GoTo(w, "stopped")
    BY <1>1, <2>1, GoToInv DEF IInv, Steps
  <2>2. CASE /\ pc' = [pc EXCEPT ![w] = "lookup"]
             /\ ctx' = [ctx EXCEPT ![w[1]] = "draining"]
             /\ UNCHANGED <<batch, todo, won, seen>>
    <3>1. WorkerTypeOK'
      BY <2>2 DEF IInv, WorkerInv, WorkerTypeOK, Steps, Contexts
    <3>2. \A v \in Workers : pc'[v] = "unpend" => pc[v] = "unpend"
      BY <2>2 DEF IInv, WorkerInv, WorkerTypeOK
    <3> QED
      BY <1>1, <2>2, <3>1, <3>2, WorkersShrink DEF IInv
  <2> QED
    BY <2>1, <2>2 DEF Drain
<1>3. faults' \in 0..MaxFaults
  BY DEF Drain, IInv, ClientInv, ClientTypeOK
<1> QED
  BY <1>2, <1>3, CombineSame DEF Drain

\* XPENDING reads the pending list.
LEMMA ListPendingInv ==
  ASSUME IInv, NEW w \in Workers, ListPending(w)
  PROVE  IInv'
<1>1. Grows
  BY SameGrows DEF ListPending
<1>2. WorkerTypeOK'
  <2>1. \A P : XPending(P) \in [Ids -> Nat]
    BY DEF XPending, IInv, QueueInv, QueueTypeOK
  <2> QED
    BY <2>1 DEF ListPending, IInv, WorkerInv, WorkerTypeOK, Steps
<1>3. \A v \in Workers : pc'[v] = "unpend" => pc[v] = "unpend"
  BY DEF ListPending, IInv, WorkerInv, WorkerTypeOK
<1>4. WorkerInv'
  BY <1>1, <1>2, <1>3, WorkersShrink DEF ListPending, IInv
<1>5. faults' \in 0..MaxFaults
  BY DEF ListPending, IInv, ClientInv, ClientTypeOK
<1> QED
  BY <1>4, <1>5, CombineSame DEF ListPending

\* XCLAIM hands pending entries over.
LEMMA ClaimInv ==
  ASSUME IInv, NEW w \in Workers, Claim(w)
  PROVE  IInv'
<1> DEFINE got == {i \in XClaimed(Listed(w)) : i >= first}
<1>1. BookedGrows
  BY DEF Claim, BookedGrows
<1>2. faults' \in 0..MaxFaults
  BY FaultsType DEF Claim, IInv, ClientInv, ClientTypeOK
<1>3. CASE XClaim(Listed(w))
  <2>1. QueueInv' /\ LogGrows
    BY <1>1, <1>3, XClaimInv DEF IInv, Listed
  <2>2. CASE Return(w)
    BY <1>1, <1>2, <2>1, <2>2, ReturnInv, Combine DEF Claim, Grows, IInv
  <2>3. CASE /\ batch' = [batch EXCEPT ![w] = got \ OverLimit(w, got)]
             /\ todo' = [todo EXCEPT ![w] = OverLimit(w, got)]
             /\ pc' = [pc EXCEPT ![w] = "poison"]
             /\ seen' = [seen EXCEPT ![w] = NoCounts]
             /\ UNCHANGED <<won, ctx>>
    <3>1. got \subseteq pel /\ OverLimit(w, got) \subseteq got
      BY DEF XClaimed, OverLimit
    <3>2. got \subseteq Ids /\ got \subseteq 1..last'
      BY <2>1, <3>1 DEF IInv, QueueInv, QueueTypeOK, PendingDelivered, LogGrows
    <3> HIDE DEF got
    <3>3. WorkerTypeOK'
      BY <2>3, <3>1, <3>2 DEF IInv, WorkerInv, WorkerTypeOK, Steps, NoCounts
    <3>4. HeldDelivered'
      BY <2>1, <2>3, <3>1, <3>2 DEF IInv, WorkerInv, WorkerTypeOK, HeldDelivered, LogGrows
    <3>5. WonMatched'
      BY <1>3, <2>3 DEF IInv, WorkerInv, WonMatched, Matched, Claim, XClaim
    <3>6. UnpendPublished'
      <4>1. \A v \in Workers : pc'[v] = "unpend" => pc[v] = "unpend" /\ todo'[v] = todo[v]
        BY <2>3 DEF IInv, WorkerInv, WorkerTypeOK
      <4>2. log' = log
        BY <1>3 DEF XClaim
      <4> QED
        BY <4>1, <4>2 DEF IInv, WorkerInv, UnpendPublished, Superseded
    <3>7. WorkerInv'
      BY <3>3, <3>4, <3>5, <3>6 DEF WorkerInv
    <3> QED
      BY <1>2, <2>1, <3>7, Combine DEF Claim
  <2> QED
    BY <1>3, <2>2, <2>3 DEF Claim
<1>4. CASE Return(w) /\ UNCHANGED queueVars
  <2>1. Grows
    BY <1>4, SameGrows DEF Claim
  <2> QED
    BY <1>2, <1>4, <2>1, ReturnInv, CombineSame DEF Claim, IInv
<1> QED
  BY <1>3, <1>4 DEF Claim

\* Reclaim writes an entry over the limit aside before acking it.
LEMMA PoisonInv ==
  ASSUME IInv, NEW w \in Workers, Poison(w)
  PROVE  IInv'
<1>1. BookedGrows
  BY DEF Poison, BookedGrows
<1>2. PICK i \in todo[w] :
        \/ /\ DeadLetter(i, "poison", TRUE)
           /\ Succeeds(w)
           /\ NextMessage(w, "poison", i)
        \/ /\ \E whole \in BOOLEAN : DeadLetter(i, "poison", whole)
           /\ ReplyLost(w)
           /\ Return(w)
        \/ Fails(w) /\ Return(w) /\ UNCHANGED queueVars
  BY DEF Poison
<1>3. faults' \in 0..MaxFaults
  BY <1>2, FaultsType DEF IInv, ClientInv, ClientTypeOK
<1>4. i \in 1..last
  BY DEF IInv, WorkerInv, HeldDelivered
<1>5. CASE \E whole \in BOOLEAN : DeadLetter(i, "poison", whole)
  <2>1. QueueInv' /\ LogGrows
    BY <1>1, <1>4, <1>5, DeadLetterInv DEF IInv, Reasons
  <2>2. NextMessage(w, "poison", i) \/ Return(w)
    BY <1>2
  <2>3. WorkerInv'
    BY <1>1, <2>1, <2>2, ReturnInv, NextMessageInv DEF Grows, IInv, Steps
  <2> QED
    BY <1>3, <2>1, <2>3, Combine DEF Poison
<1>6. CASE Return(w) /\ UNCHANGED queueVars
  <2>1. Grows
    BY <1>6, SameGrows DEF Poison
  <2> QED
    BY <1>3, <1>6, <2>1, ReturnInv, CombineSame DEF Poison, IInv
<1> QED
  BY <1>2, <1>5, <1>6

\* Reclaim returns.
LEMMA ReclaimedInv ==
  ASSUME IInv, NEW w \in Workers, Reclaimed(w)
  PROVE  IInv'
<1>1. Grows
  BY SameGrows DEF Reclaimed
<1>2. WorkerInv'
  BY <1>1, ReturnInv, GoToInv DEF Reclaimed, IInv, Steps
<1>3. faults' \in 0..MaxFaults
  BY DEF Reclaimed, IInv, ClientInv, ClientTypeOK
<1> QED
  BY <1>2, <1>3, CombineSame DEF Reclaimed

\* The reclaimer stops.
LEMMA StopReclaimerInv ==
  ASSUME IInv, NEW w \in Workers, StopReclaimer(w)
  PROVE  IInv'
<1>1. Grows
  BY SameGrows DEF StopReclaimer
<1>2. WorkerInv'
  BY <1>1, GoToInv DEF StopReclaimer, IInv, Steps
<1>3. faults' \in 0..MaxFaults
  BY DEF StopReclaimer, IInv, ClientInv, ClientTypeOK
<1> QED
  BY <1>2, <1>3, CombineSame DEF StopReclaimer

\* The driver store fails: the batch stays pending.
LEMMA LookupFailsInv ==
  ASSUME IInv, NEW w \in Workers, LookupFails(w)
  PROVE  IInv'
<1>1. Grows
  BY SameGrows DEF LookupFails
<1>2. WorkerInv'
  BY <1>1, ReturnInv DEF LookupFails, IInv
<1>3. faults' \in 0..MaxFaults
  BY FaultsType DEF LookupFails, IInv, ClientInv, ClientTypeOK
<1> QED
  BY <1>2, <1>3, CombineSame DEF LookupFails

\* No driver is near: the batch stays pending.
LEMMA NoDriversInv ==
  ASSUME IInv, NEW w \in Workers, NoDrivers(w)
  PROVE  IInv'
<1>1. Grows
  BY SameGrows DEF NoDrivers
<1>2. WorkerInv'
  BY <1>1, ReturnInv DEF NoDrivers, IInv
<1>3. faults' \in 0..MaxFaults
  BY FaultsType DEF NoDrivers, IInv, ClientInv, ClientTypeOK
<1> QED
  BY <1>2, <1>3, CombineSame DEF NoDrivers

\* The batch goes to the solver.
LEMMA DriversFoundInv ==
  ASSUME IInv, NEW w \in Workers, DriversFound(w)
  PROVE  IInv'
<1>1. Grows
  BY SameGrows DEF DriversFound
<1>2. WorkerInv'
  BY <1>1, GoToInv DEF DriversFound, IInv, Steps
<1>3. faults' \in 0..MaxFaults
  BY FaultsType DEF DriversFound, IInv, ClientInv, ClientTypeOK
<1> QED
  BY <1>2, <1>3, CombineSame DEF DriversFound

\* A retryable engine error: the batch stays pending.
LEMMA SolveRetryableInv ==
  ASSUME IInv, NEW w \in Workers, SolveRetryable(w)
  PROVE  IInv'
<1>1. Grows
  BY SameGrows DEF SolveRetryable
<1>2. WorkerInv'
  BY <1>1, ReturnInv DEF SolveRetryable, IInv
<1>3. faults' \in 0..MaxFaults
  BY FaultsType DEF SolveRetryable, IInv, ClientInv, ClientTypeOK
<1> QED
  BY <1>2, <1>3, CombineSame DEF SolveRetryable

\* A refused batch is to be dead-lettered.
LEMMA SolvePermanentInv ==
  ASSUME IInv, NEW w \in Workers, SolvePermanent(w)
  PROVE  IInv'
<1>1. Grows
  BY SameGrows DEF SolvePermanent
<1>2. WorkerTypeOK'
  BY DEF SolvePermanent, IInv, WorkerInv, WorkerTypeOK, Steps
<1>3. \A v \in Workers :
        /\ todo'[v] \subseteq batch[v] \cup todo[v]
        /\ pc'[v] = "unpend" => pc[v] = "unpend" /\ todo'[v] = todo[v]
  BY DEF SolvePermanent, IInv, WorkerInv, WorkerTypeOK
<1>4. WorkerInv'
  BY <1>1, <1>2, <1>3, WorkersShrink DEF SolvePermanent, IInv
<1>5. faults' \in 0..MaxFaults
  BY DEF SolvePermanent, IInv, ClientInv, ClientTypeOK
<1> QED
  BY <1>4, <1>5, CombineSame DEF SolvePermanent

\* The engine's matches are booked before anything is acked.
LEMMA SolveOkInv ==
  ASSUME IInv, NEW w \in Workers, SolveOk(w)
  PROVE  IInv'
<1>1. PICK m \in Matchings(RequestsOf(batch[w])) :
        /\ booked' = [r \in Requests |->
                        IF r \in DOMAIN m THEN booked[r] \cup {m[r]} ELSE booked[r]]
        /\ won' = [won EXCEPT ![w] = {i \in batch[w] : log[i].req \in DOMAIN m}]
        /\ todo' = [todo EXCEPT ![w] =
                      batch[w] \ {i \in batch[w] : log[i].req \in DOMAIN m}]
  BY DEF SolveOk
<1> DEFINE mine == {i \in batch[w] : log[i].req \in DOMAIN m}
<1>2. \A r \in DOMAIN m : m[r] \in Drivers
  BY DEF Matchings
<1>3. BookedGrows /\ booked' \in [Requests -> SUBSET Drivers]
  BY <1>1, <1>2 DEF BookedGrows, IInv, ClientInv, ClientTypeOK
<1>4. \A r \in Requests : r \in DOMAIN m => booked'[r] # {}
  BY <1>1
<1>5. QueueInv' /\ LogGrows
  <2>1. QueueTypeOK'
    BY DEF SolveOk, IInv, QueueInv, QueueTypeOK, queueVars
  <2> QED
    BY <1>3, <2>1, QueueSameInv DEF SolveOk, IInv, queueVars
<1>6. \A i \in 1..last : log[i].req \in Requests
  <2>1. \A i \in 1..last : log[i] \in Entry
    BY DEF IInv, QueueInv, QueueTypeOK
  <2> QED
    BY <2>1 DEF Entry
<1>7. mine \subseteq batch[w]
  OBVIOUS
<1>8. \A i \in mine : booked'[log[i].req] # {}
  BY <1>4, <1>6 DEF IInv, WorkerInv, HeldDelivered
<1> HIDE DEF mine
<1>9. /\ won' = [won EXCEPT ![w] = mine]
      /\ todo' = [todo EXCEPT ![w] = batch[w] \ mine]
  BY <1>1 DEF mine
<1>10. WorkerInv'
  <2>1. WorkerTypeOK'
    BY <1>7, <1>9 DEF SolveOk, IInv, WorkerInv, WorkerTypeOK, Steps
  <2>2. HeldDelivered'
    BY <1>5, <1>7, <1>9 DEF SolveOk, IInv, WorkerInv, WorkerTypeOK, HeldDelivered, LogGrows
  <2>3. WonMatched'
    <3> SUFFICES ASSUME NEW v \in Workers, NEW i \in won'[v]
                 PROVE  booked'[log[i].req] # {}
      BY DEF WonMatched, Matched, SolveOk, queueVars
    <3>1. CASE v = w
      BY <1>8, <1>9, <3>1 DEF IInv, WorkerInv, WorkerTypeOK
    <3>2. CASE v # w
      <4>1. i \in won[v]
        BY <1>9, <3>2 DEF IInv, WorkerInv, WorkerTypeOK
      <4>2. booked[log[i].req] # {} /\ i \in 1..last
        BY <4>1 DEF IInv, WorkerInv, WonMatched, Matched, HeldDelivered
      <4> QED
        BY <1>3, <1>6, <4>2 DEF BookedGrows
    <3> QED
      BY <3>1, <3>2
  <2>4. UnpendPublished'
    <3>1. \A v \in Workers : pc'[v] = "unpend" => pc[v] = "unpend" /\ todo'[v] = todo[v]
      BY <1>9 DEF SolveOk, IInv, WorkerInv, WorkerTypeOK
    <3>2. log' = log
      BY DEF SolveOk, queueVars
    <3> QED
      BY <3>1, <3>2 DEF IInv, WorkerInv, UnpendPublished, Superseded
  <2> QED
    BY <2>1, <2>2, <2>3, <2>4 DEF WorkerInv
<1>11. faults' \in 0..MaxFaults /\ stops' \in 0..MaxStops
  BY FaultsType DEF SolveOk, IInv, ClientInv, ClientTypeOK
<1>12. ClientInv'
  BY <1>3, <1>5, <1>11, ClientSameInv DEF SolveOk, IInv
<1> QED
  BY <1>5, <1>10, <1>12 DEF IInv

\* A dead-letter loop keeps the queue's part, whatever the outcome.
LEMMA SetAsideInv ==
  ASSUME IInv, BookedGrows, NEW w \in Workers, NEW i \in 1..last,
         NEW reason \in Reasons, SetAside(w, i, reason)
  PROVE  QueueInv' /\ LogGrows /\ faults' \in 0..MaxFaults
<1>1. faults' \in 0..MaxFaults
  BY FaultsType DEF SetAside, IInv, ClientInv, ClientTypeOK
<1>2. CASE \E whole \in BOOLEAN : DeadLetter(i, reason, whole)
  BY <1>1, <1>2, DeadLetterInv DEF IInv
<1>3. CASE UNCHANGED queueVars
  <2>1. QueueTypeOK'
    BY <1>3 DEF IInv, QueueInv, QueueTypeOK, queueVars
  <2> QED
    BY <1>1, <1>3, <2>1, QueueSameInv DEF IInv, queueVars
<1> QED
  BY <1>2, <1>3 DEF SetAside

\* The dead-letter loop of a refused batch.
LEMMA RejectInv ==
  ASSUME IInv, NEW w \in Workers, Reject(w)
  PROVE  IInv'
<1>1. PICK i \in todo[w] :
        /\ SetAside(w, i, "rejected")
        /\ IF todo[w] = {i} THEN Return(w) ELSE NextMessage(w, "reject", i)
  BY DEF Reject
<1>2. i \in 1..last
  BY DEF IInv, WorkerInv, HeldDelivered
<1>3. BookedGrows
  BY DEF Reject, BookedGrows
<1>4. QueueInv' /\ LogGrows /\ faults' \in 0..MaxFaults
  BY <1>1, <1>2, <1>3, SetAsideInv DEF Reasons
<1>5. WorkerInv'
  BY <1>1, <1>3, <1>4, ReturnInv, NextMessageInv DEF Grows, IInv, Steps
<1> QED
  BY <1>4, <1>5, Combine DEF Reject

\* A rider out of attempts is dead-lettered.
LEMMA ExhaustInv ==
  ASSUME IInv, NEW w \in Workers, Exhaust(w)
  PROVE  IInv'
<1>1. PICK i \in todo[w] :
        SetAside(w, i, "exhausted") /\ NextMessage(w, "settle", i)
  BY DEF Exhaust
<1>2. i \in 1..last
  BY DEF IInv, WorkerInv, HeldDelivered
<1>3. BookedGrows
  BY DEF Exhaust, BookedGrows
<1>4. QueueInv' /\ LogGrows /\ faults' \in 0..MaxFaults
  BY <1>1, <1>2, <1>3, SetAsideInv DEF Reasons
<1>5. WorkerInv'
  BY <1>1, <1>3, <1>4, NextMessageInv DEF Grows, IInv, Steps
<1> QED
  BY <1>4, <1>5, Combine DEF Exhaust

\* The first half of Republish supersedes the entry the second half acks.
LEMMA RepublishInv ==
  ASSUME MaxEntries <= MaxLen, IInv, NEW w \in Workers, Republish(w)
  PROVE  IInv'
<1>1. PICK i \in todo[w] :
        /\ IsFirst(i, todo[w])
        /\ \/ /\ XAdd(log[i].req, log[i].attempts + 1)
              /\ Succeeds(w)
              /\ GoTo(w, "unpend")
           \/ /\ XAdd(log[i].req, log[i].attempts + 1)
              /\ ReplyLost(w)
              /\ NextMessage(w, "settle", i)
           \/ Fails(w) /\ NextMessage(w, "settle", i) /\ UNCHANGED queueVars
  BY DEF Republish
<1>2. faults' \in 0..MaxFaults
  BY <1>1, FaultsType DEF IInv, ClientInv, ClientTypeOK
<1>3. i \in 1..last /\ i \in 1..Len(log) /\ Len(log) \in Nat
  BY DEF IInv, WorkerInv, HeldDelivered, QueueInv, QueueTypeOK
<1>4. log[i].req \in Requests /\ log[i].attempts + 1 \in Nat
  <2>1. log[i] \in Entry
    BY <1>3 DEF IInv, QueueInv, QueueTypeOK
  <2> QED
    BY <2>1 DEF Entry
<1>5. BookedGrows
  BY DEF Republish, BookedGrows
<1>6. CASE XAdd(log[i].req, log[i].attempts + 1)
  <2>1. /\ QueueInv'
        /\ LogGrows
        /\ \E j \in 1..Len(log') : j > Len(log) /\ log'[j].req = log[i].req
    BY <1>4, <1>5, <1>6, XAddInv DEF IInv
  <2>2. Grows
    BY <1>5, <2>1 DEF Grows
  <2>3. CASE NextMessage(w, "settle", i)
    <3>1. WorkerInv'
      BY <2>2, <2>3, NextMessageInv DEF IInv, Steps
    <3> QED
      BY <1>2, <2>1, <3>1, Combine DEF Republish
  <2>4. CASE GoTo(w, "unpend")
    <3>1. Superseded(i)'
      <4>1. log'[i] = log[i]
        BY <1>3, <2>1 DEF LogGrows
      <4>2. PICK j \in 1..Len(log') : j > Len(log) /\ log'[j].req = log[i].req
        BY <2>1
      <4>3. j > i
        BY <1>3, <4>2
      <4> QED
        BY <4>1, <4>2, <4>3 DEF Superseded
    <3>2. WorkerTypeOK'
      BY <2>4 DEF GoTo, IInv, WorkerInv, WorkerTypeOK, Steps
    <3>3. HeldDelivered'
      BY <2>1, <2>4 DEF GoTo, IInv, WorkerInv, HeldDelivered, LogGrows
    <3>4. WonMatched'
      <4>1. \A k \in 1..last : log'[k] = log[k]
        BY <2>1 DEF LogGrows, IInv, QueueInv, QueueTypeOK
      <4> QED
        BY <2>4, <4>1 DEF GoTo, IInv, WorkerInv, HeldDelivered, WonMatched, Matched, Republish
    <3>5. UnpendPublished'
      <4> SUFFICES ASSUME NEW v \in Workers, pc'[v] = "unpend",
                          NEW k \in todo[v], IsFirst(k, todo[v])
                   PROVE  Superseded(k)'
        BY <2>4 DEF UnpendPublished, IsFirst, GoTo
      <4>1. CASE v = w
        <5>1. k \in 1..last
          BY DEF IInv, WorkerInv, HeldDelivered
        <5>2. k = i
          BY <1>1, <1>3, <4>1, <5>1 DEF IsFirst, IInv, QueueInv, QueueTypeOK
        <5> QED
          BY <3>1, <5>2
      <4>2. CASE v # w
        <5>1. pc[v] = "unpend"
          BY <2>4, <4>2 DEF GoTo, IInv, WorkerInv, WorkerTypeOK
        <5>2. Superseded(k)
          BY <5>1 DEF IInv, WorkerInv, UnpendPublished
        <5>3. k \in 1..Len(log)
          BY DEF IInv, WorkerInv, HeldDelivered, QueueInv, QueueTypeOK
        <5> QED
          BY <2>2, <5>2, <5>3, SupersededStays DEF IInv, QueueInv
      <4> QED
        BY <4>1, <4>2
    <3>6. WorkerInv'
      BY <3>2, <3>3, <3>4, <3>5 DEF WorkerInv
    <3> QED
      BY <1>2, <2>1, <3>6, Combine DEF Republish
  <2> QED
    BY <1>1, <1>6, <2>3, <2>4 DEF queueVars, XAdd
<1>7. CASE NextMessage(w, "settle", i) /\ UNCHANGED queueVars
  <2>1. Grows
    BY <1>7, SameGrows DEF Republish
  <2>2. WorkerInv'
    BY <1>7, <2>1, NextMessageInv DEF IInv, Steps
  <2> QED
    BY <1>2, <1>7, <2>2, CombineSame DEF Republish
<1> QED
  BY <1>1, <1>6, <1>7

\* The second half of Republish acks a superseded entry.
LEMMA RepublishAckInv ==
  ASSUME IInv, NEW w \in Workers, RepublishAck(w)
  PROVE  IInv'
<1>1. PICK i \in todo[w] :
        /\ IsFirst(i, todo[w])
        /\ \/ XAck({i}) /\ (Succeeds(w) \/ ReplyLost(w))
           \/ Fails(w) /\ UNCHANGED queueVars
        /\ NextMessage(w, "settle", i)
  BY DEF RepublishAck
<1>2. faults' \in 0..MaxFaults
  BY <1>1, FaultsType DEF IInv, ClientInv, ClientTypeOK
<1>3. CASE XAck({i})
  <2>1. MayAck(i)
    BY <1>1 DEF RepublishAck, IInv, WorkerInv, UnpendPublished, MayAck
  <2>2. {i} \in SUBSET Ids /\ {i} \subseteq 1..last
    BY DEF IInv, WorkerInv, WorkerTypeOK, HeldDelivered
  <2>3. BookedGrows
    BY DEF RepublishAck, BookedGrows
  <2>4. QueueInv' /\ LogGrows
    BY <1>3, <2>1, <2>2, <2>3, XAckInv DEF IInv
  <2>5. WorkerInv'
    BY <1>1, <2>3, <2>4, NextMessageInv DEF Grows, IInv, Steps
  <2> QED
    BY <1>2, <2>4, <2>5, Combine DEF RepublishAck
<1>4. CASE UNCHANGED queueVars
  <2>1. Grows
    BY <1>4, SameGrows DEF RepublishAck
  <2>2. WorkerInv'
    BY <1>1, <2>1, NextMessageInv DEF IInv, Steps
  <2> QED
    BY <1>2, <1>4, <2>2, CombineSame DEF RepublishAck
<1> QED
  BY <1>1, <1>3, <1>4

\* The end of a batch acks matched messages only.
LEMMA AckMatchedInv ==
  ASSUME IInv, NEW w \in Workers, AckMatched(w)
  PROVE  IInv'
<1>1. faults' \in 0..MaxFaults
  BY FaultsType DEF AckMatched, IInv, ClientInv, ClientTypeOK
<1>2. CASE XAck(won[w])
  <2>1. \A i \in won[w] : MayAck(i)
    BY DEF IInv, WorkerInv, WonMatched, MayAck, Settled
  <2>2. won[w] \in SUBSET Ids /\ won[w] \subseteq 1..last
    BY DEF IInv, WorkerInv, WorkerTypeOK, HeldDelivered
  <2>3. BookedGrows
    BY DEF AckMatched, BookedGrows
  <2>4. QueueInv' /\ LogGrows
    BY <1>2, <2>1, <2>2, <2>3, XAckInv DEF IInv
  <2>5. WorkerInv'
    BY <2>3, <2>4, ReturnInv DEF AckMatched, Grows, IInv
  <2> QED
    BY <1>1, <2>4, <2>5, Combine DEF AckMatched
<1>3. CASE UNCHANGED queueVars
  <2>1. Grows
    BY <1>3, SameGrows DEF AckMatched
  <2>2. WorkerInv'
    BY <2>1, ReturnInv DEF AckMatched, IInv
  <2> QED
    BY <1>1, <1>3, <2>2, CombineSame DEF AckMatched
<1> QED
  BY <1>2, <1>3 DEF AckMatched

\* Crashes, shutdowns and restarts leave the queue and the clients alone.
LEMMA ProcessInv ==
  ASSUME IInv, NEW b \in Batchers, Crash(b) \/ Shutdown(b) \/ Restart(b)
  PROVE  IInv'
<1>1. UNCHANGED <<queueVars, client, booked, faults>>
  BY DEF Crash, Shutdown, Restart, Fresh
<1>2. stops' \in 0..MaxStops
  BY DispatchAssumption DEF Crash, Shutdown, Restart, SpendStop, IInv, ClientInv, ClientTypeOK
<1>3. Grows
  BY <1>1, SameGrows
<1>4. WorkerInv'
  <2>1. CASE Fresh(b)
    BY <1>3, <2>1, FreshInv DEF IInv
  <2>2. CASE Shutdown(b)
    <3>1. WorkerTypeOK'
      BY <2>2 DEF Shutdown, IInv, WorkerInv, WorkerTypeOK, Contexts
    <3> QED
      BY <1>3, <2>2, <3>1, WorkersShrink DEF Shutdown, IInv
  <2> QED
    BY <2>1, <2>2 DEF Crash, Restart
<1>5. QueueInv'
  <2>1. QueueTypeOK'
    BY <1>1 DEF IInv, QueueInv, QueueTypeOK, queueVars
  <2> QED
    BY <1>1, <1>3, <2>1, QueueSameInv DEF IInv, Grows, queueVars
<1>6. ClientInv'
  BY <1>1, <1>2, <1>3, ClientSameInv DEF IInv, ClientInv, ClientTypeOK, Grows
<1> QED
  BY <1>4, <1>5, <1>6 DEF IInv

\* Time only ages pending entries.
LEMMA AgeInv ==
  ASSUME IInv, NEW i \in Ids, Age(i)
  PROVE  IInv'
<1>1. BookedGrows
  BY DEF Age, BookedGrows
<1>2. QueueTypeOK'
  BY DEF Age, BecomeIdle, IInv, QueueInv, QueueTypeOK
<1>3. QueueInv' /\ LogGrows
  BY <1>1, <1>2, QueueSameInv DEF Age, BecomeIdle, IInv
<1>4. WorkerInv'
  BY <1>1, <1>3, WorkersSameInv DEF Age, Grows, IInv
<1>5. faults' \in 0..MaxFaults
  BY DEF Age, IInv, ClientInv, ClientTypeOK
<1> QED
  BY <1>3, <1>4, <1>5, Combine DEF Age

-----------------------------------------------------------------------------
(* The invariant holds *)

\* The initial state satisfies the invariant.
LEMMA InitInv == Init => IInv
<1> SUFFICES ASSUME Init PROVE IInv
  OBVIOUS
<1>1. QueueInv
  <2>1. log \in Seq(Entry) /\ Len(log) = 0
    BY DEF Init, QueueInit
  <2>2. QueueTypeOK
    BY <2>1, QueueAssumption DEF Init, QueueInit, QueueTypeOK
  <2> QED
    BY <2>2 DEF Init, QueueInit, QueueInv, Untrimmed, PendingDelivered, AckedMeansSettled
<1>2. WorkerInv
  <2>1. WorkerTypeOK
    BY DEF Init, WorkerTypeOK, Start, Steps, NoCounts, Contexts
  <2>2. \A w \in Workers : pc[w] # "unpend"
    BY DEF Init, Start
  <2> QED
    BY <2>1, <2>2 DEF Init, WorkerInv, HeldDelivered, WonMatched, UnpendPublished
<1>3. ClientInv
  <2>1. ClientTypeOK
    BY DispatchAssumption DEF Init, ClientTypeOK
  <2> QED
    BY <2>1 DEF Init, ClientInv, AcceptedPublished
<1> QED
  BY <1>1, <1>2, <1>3 DEF IInv

\* A step of a goroutine keeps the invariant.
LEMMA WorkerStepInv ==
  ASSUME MaxEntries <= MaxLen, IInv, NEW w \in Workers, WorkerStep(w)
  PROVE  IInv'
<1>1. CASE ProcessBatch(w)
  BY <1>1, LookupFailsInv, NoDriversInv, DriversFoundInv, SolveRetryableInv,
     SolvePermanentInv, SolveOkInv, RejectInv, ExhaustInv, RepublishInv,
     RepublishAckInv, AckMatchedInv DEF ProcessBatch
<1> QED
  BY <1>1, ConsumeInv, FlushInv, DrainInv, ListPendingInv, ClaimInv, PoisonInv,
     ReclaimedInv, StopReclaimerInv DEF WorkerStep

\* Every step keeps the invariant.
LEMMA NextInv ==
  ASSUME MaxEntries <= MaxLen, IInv, [Next]_vars
  PROVE  IInv'
<1>1. CASE Next
  BY <1>1, PostInv, WorkerStepInv, ProcessInv, AgeInv DEF Next
<1>2. CASE UNCHANGED vars
  <2>1. Grows
    BY <1>2, SameGrows DEF vars
  <2>2. WorkerInv'
    BY <1>2, <2>1, WorkersSameInv DEF vars, IInv
  <2>3. faults' \in 0..MaxFaults
    BY <1>2 DEF vars, IInv, ClientInv, ClientTypeOK
  <2> QED
    BY <1>2, <2>2, <2>3, CombineSame DEF vars
<1> QED
  BY <1>1, <1>2

\* The inductive invariant of a stream that MAXLEN does not trim.
THEOREM Invariance ==
  ASSUME MaxEntries <= MaxLen
  PROVE  Spec => []IInv
<1>1. IInv /\ [Next]_vars => IInv'
  BY NextInv
<1> QED
  BY <1>1, InitInv, PTL DEF Spec

\* An entry is acked only when its request was matched, was dead-lettered, or
\* has a later entry: Ack, Republish and DeadLetter never drop a request.
THEOREM AckSafety ==
  ASSUME MaxEntries <= MaxLen
  PROVE  Spec => []AckedMeansSettled
<1>1. IInv => AckedMeansSettled
  BY DEF IInv, QueueInv
<1> QED
  BY <1>1, Invariance, PTL

\* A request with an entry has a last one.
LEMMA LastEntry ==
  ASSUME QueueTypeOK, NEW r, NEW i \in 1..Len(log), log[i].req = r
  PROVE  \E k \in 1..Len(log) : log[k].req = r /\ ~Superseded(k)
<1> DEFINE n    == Len(log)
           Back == {m \in 0..n : log[n - m].req = r /\ n - m \in 1..n}
<1>1. n \in Nat
  BY DEF QueueTypeOK
<1>2. n - i \in Back
  <2>1. n - i \in 0..n /\ n - (n - i) = i
    BY <1>1
  <2> QED
    BY <2>1
<1>3. Back \subseteq Nat
  BY <1>1
<1>4. PICK m \in Back : \A y \in Back : ~(<<y, m>> \in OpToRel(<, Nat))
  <2> HIDE DEF Back
  <2> QED
    BY <1>2, <1>3, WFMin, NatLessThanWellFounded
<1>5. \A y \in Back : ~(y < m)
  BY <1>3, <1>4 DEF OpToRel
<1>6. n - m \in 1..n /\ log[n - m].req = r
  OBVIOUS
<1>7. ~Superseded(n - m)
  <2> SUFFICES ASSUME NEW j \in 1..n, j > n - m, log[j].req = r
               PROVE  FALSE
    BY <1>6 DEF Superseded
  <2>1. n - j \in 0..n /\ n - (n - j) = j /\ n - j < m
    BY <1>1, <1>3
  <2>2. n - j \in Back
    BY <2>1
  <2> QED
    BY <1>5, <2>1, <2>2
<1> QED
  BY <1>6, <1>7

\* A request with an entry still waits, or is settled: its last entry cannot
\* have been acked as superseded.
LEMMA WaitsOrSettled ==
  ASSUME IInv, NEW r, NEW i \in 1..Len(log), log[i].req = r
  PROVE  Queued(r) \/ Settled(r)
<1>1. PICK k \in 1..Len(log) : log[k].req = r /\ ~Superseded(k)
  BY LastEntry DEF IInv, QueueInv
<1>2. CASE k > last \/ k \in pel
  BY <1>1, <1>2 DEF Queued, IInv, QueueInv, Untrimmed
<1>3. CASE k \in 1..last /\ k \notin pel
  BY <1>1, <1>3 DEF IInv, QueueInv, AckedMeansSettled
<1>4. last \in Nat
  BY DEF IInv, QueueInv, QueueTypeOK
<1> QED
  BY <1>2, <1>3, <1>4

\* A request the API accepted is never lost, through any crash, failed call,
\* lost reply or race between goroutines: it is in the stream, pending,
\* matched or dead-lettered.
THEOREM NoLoss ==
  ASSUME MaxEntries <= MaxLen
  PROVE  Spec => []NoAcceptedRequestLost
<1>1. IInv => NoAcceptedRequestLost
  BY WaitsOrSettled DEF IInv, ClientInv, AcceptedPublished, NoAcceptedRequestLost
<1> QED
  BY <1>1, Invariance, PTL
=============================================================================
