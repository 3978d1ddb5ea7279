---------------------------- MODULE RequestQueue ----------------------------
(***************************************************************************)
(* The durable ride-request queue: internal/queue/redis_stream.go over one *)
(* Redis stream, its consumer group "batchers" and its dead-letter stream. *)
(*                                                                         *)
(* The module has one operator per Redis command that RedisStream issues;  *)
(* each is atomic at the server.  Commands of one Go method that are not   *)
(* atomic together (publish then ack, XPENDING then XCLAIM) are separate   *)
(* steps of the module that calls them (Dispatch).                         *)
(*                                                                         *)
(* A stream entry is named by its position in the log; entry ids are       *)
(* assigned by XADD in increasing order, so positions and ids are in the   *)
(* same order.  The consumer that owns a pending entry is left out: no     *)
(* command of the code selects on it (XACK and XPENDING are group-wide).   *)
(***************************************************************************)
EXTENDS Integers, Sequences, FiniteSets

CONSTANTS
  Requests,       \* RequestIDs
  MaxEntries,     \* bound of the model: entries ever appended to the stream
  MaxLen,         \* StreamOptions.MaxLen, the MAXLEN ~ of every XADD
  MaxDeliveries   \* StreamOptions.MaxDeliveries

\* NewRedisStream refuses a MaxLen or a MaxDeliveries that is not positive.
ASSUME QueueAssumption ==
  /\ MaxEntries \in Nat
  /\ MaxLen \in Nat \ {0}
  /\ MaxDeliveries \in Nat \ {0}

VARIABLES
  log,      \* every entry ever appended: request and MatchAttempts
  first,    \* the oldest entry MAXLEN trimming has left in the stream
  last,     \* the group's last-delivered entry (0: none)
  pel,      \* entries delivered and not acked (the Pending Entries List)
  count,    \* their delivery counts (XPENDING's RetryCount)
  idle,     \* pending entries untouched for at least ReclaimMinIdle
  dead      \* the dead-letter stream

queueVars == <<log, first, last, pel, count, idle, dead>>

Ids     == 1..MaxEntries
Reasons == {"poison", "rejected", "exhausted"}

Entry == [req : Requests, attempts : Nat]

QueueTypeOK ==
  /\ log \in Seq(Entry)
  /\ Len(log) <= MaxEntries
  /\ first \in 1..(MaxEntries + 1)
  /\ last \in 0..Len(log)
  /\ pel \subseteq Ids
  /\ count \in [Ids -> Nat]
  /\ idle \subseteq pel
  /\ dead \subseteq [id : Ids, req : Requests, reason : Reasons]

\* ensureGroup starts the group at "0": nothing counts as delivered.
QueueInit ==
  /\ log = <<>>
  /\ first = 1
  /\ last = 0
  /\ pel = {}
  /\ count = [i \in Ids |-> 0]
  /\ idle = {}
  /\ dead = {}

-----------------------------------------------------------------------------
\* Entries XREADGROUP ">" can still hand out.
Undelivered == {i \in 1..Len(log) : i > last /\ i >= first}

IsFirst(i, S) == i \in S /\ \A j \in S : i <= j

\* The first n elements of S (all of S when it has fewer): COUNT n.
FirstN(P, S, n) ==
  /\ P \subseteq S
  /\ Cardinality(P) <= n
  /\ \A i \in P, j \in S \ P : i < j
  /\ P # S => Cardinality(P) = n

-----------------------------------------------------------------------------
(* Commands *)

\* XADD MAXLEN ~ MaxLen: append, then trim whole nodes from the old end; how
\* much is trimmed is up to Redis as long as MaxLen entries are left.
XAdd(r, attempts) ==
  /\ Len(log) < MaxEntries
  /\ log' = Append(log, [req |-> r, attempts |-> attempts])
  /\ first' \in {f \in first..(Len(log) + 1) :
                   f = first \/ Len(log) + 2 - f >= MaxLen}
  /\ UNCHANGED <<last, pel, count, idle, dead>>

\* XREADGROUP ... ">" NOACK=false: the entries P, never delivered to anyone,
\* become pending with delivery count 1 and no idle time.
XReadGroup(P) ==
  /\ \E m \in P : (\A i \in P : i <= m) /\ last' = m
  /\ pel' = pel \cup P
  /\ count' = [i \in Ids |-> IF i \in P THEN 1 ELSE count[i]]
  /\ UNCHANGED <<log, first, idle, dead>>

\* XPENDING IDLE minIdle - + COUNT max: entries and delivery counts, as a
\* function that is 0 on the entries not listed.  Changes nothing.
XPending(P) == [i \in Ids |-> IF i \in P THEN count[i] ELSE 0]

\* Claiming without the second MinIdle test: what another reclaimer took in
\* the meantime is taken again.
XClaimedAnyIdle(S) == S \cap pel

\* Claiming with FORCE: an entry acked in the meantime is pending again.
XClaimedForce(S) == S

\* XCLAIM MinIdle: of the listed entries only those still pending, and still
\* idle, are handed over.
XClaimed(S) == S \cap pel \cap idle

\* XCLAIM counts a delivery and resets the idle time; an entry that trimming
\* has removed from the stream is dropped from the pending list instead.
XClaim(S) ==
  LET gone  == {i \in XClaimed(S) : i < first}
      taken == XClaimed(S) \ gone
  IN /\ pel' = (pel \cup taken) \ gone
     /\ idle' = idle \ XClaimed(S)
     /\ count' = [i \in Ids |-> IF i \in taken THEN count[i] + 1
                                ELSE IF i \in gone THEN 0 ELSE count[i]]
     /\ UNCHANGED <<log, first, last, dead>>

\* XACK: ids that are not pending are ignored.
XAck(S) ==
  /\ pel' = pel \ S
  /\ idle' = idle \ S
  /\ count' = [i \in Ids |-> IF i \in S THEN 0 ELSE count[i]]
  /\ UNCHANGED <<log, first, last, dead>>

\* The record written from a message that carries its ID only, as on the path
\* for entries that do not decode.
CorpseWithoutRequest(i, reason) == [id |-> i, req |-> 0, reason |-> reason]

\* DeadLetter's fields: the original id, the request, the reason.
Corpse(i, reason) == [id |-> i, req |-> log[i].req, reason |-> reason]

\* Acking in the pipeline before the write-aside: the half that survives a
\* broken connection is the ack.
DeadLetterAckFirst(i, reason, whole) ==
  /\ dead' = IF whole THEN dead \cup {Corpse(i, reason)} ELSE dead
  /\ pel' = pel \ {i}
  /\ idle' = idle \ {i}
  /\ count' = [count EXCEPT ![i] = 0]
  /\ UNCHANGED <<log, first, last>>

\* DeadLetter's pipeline: XADD to the dead stream, then XACK.  The two are
\* not atomic; whole = FALSE when the connection breaks between them.  The dead
\* stream is not trimmed here: its MAXLEN drops records no code reads back.
DeadLetter(i, reason, whole) ==
  /\ dead' = dead \cup {Corpse(i, reason)}
  /\ IF whole THEN /\ pel' = pel \ {i}
                   /\ idle' = idle \ {i}
                   /\ count' = [count EXCEPT ![i] = 0]
              ELSE UNCHANGED <<pel, idle, count>>
  /\ UNCHANGED <<log, first, last>>

\* A pending entry reaches ReclaimMinIdle of idle time.
BecomeIdle(i) ==
  /\ i \in pel \ idle
  /\ idle' = idle \cup {i}
  /\ UNCHANGED <<log, first, last, pel, count, dead>>

-----------------------------------------------------------------------------
(* What an entry's state says about its request *)

\* The entry's request has a later entry: it was republished or posted again.
Superseded(i) == \E j \in 1..Len(log) : j > i /\ log[j].req = log[i].req

\* The request still waits in the queue: an entry nobody has read yet, or one
\* that is pending and not trimmed.
Queued(r) == \E i \in 1..Len(log) :
               /\ log[i].req = r
               /\ i >= first
               /\ i > last \/ i \in pel

DeadLettered(r) == \E d \in dead : d.req = r
=============================================================================
