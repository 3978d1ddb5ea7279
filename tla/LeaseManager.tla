---------------------------- MODULE LeaseManager ----------------------------
(***************************************************************************)
(* Driver and partition leases over Redis: internal/locks/lease.go.        *)
(*                                                                         *)
(* A call travels to Redis, takes effect there in one atomic command (SET  *)
(* NX PX, or a Lua script), and its reply travels back.  The client may    *)
(* give up before the command runs, which then may still run late, or lose *)
(* the reply; holders crash.  Time is kept as durations that run down: the *)
(* time to live of a key, and what is left of the ExpiresAt a holder       *)
(* computed from its own clock when the reply arrived.                     *)
(***************************************************************************)
EXTENDS Integers, FiniteSets

CONSTANTS
  Holders,      \* goroutines that hold leases
  Drivers,      \* driver ids
  Partitions,   \* geohash partitions
  Tokens,       \* fencing tokens
  NoToken,      \* the key does not exist
  NoCall,       \* the holder has no call under way
  TTL,          \* Options.TTL, in ticks
  MaxReply,     \* bound on a reply's travel time (the client's ReadTimeout)
  MaxLate       \* bound of the model: commands that outlive their caller

\* NewManager refuses a TTL that is not positive; ReadTimeout is 1 s against a
\* default TTL of 10 s.  Tokens are 128 random bits: never the empty reply.
ASSUME LeaseAssumption ==
  /\ TTL \in Nat \ {0}
  /\ MaxReply \in Nat
  /\ MaxReply < TTL
  /\ MaxLate \in Nat
  /\ NoToken \notin Tokens

VARIABLES
  store,   \* Redis: token and remaining time to live of every lock key
  lease,   \* the leases each holder believes in
  call,    \* its call under way
  want,    \* drivers AcquireMany has still to try
  drop,    \* leases ReleaseMany has still to release
  late     \* commands still travelling whose caller has given up

vars == <<store, lease, call, want, drop, late>>

-----------------------------------------------------------------------------
Names == Drivers \cup Partitions
Keys  == {"driver", "partition"} \X Names

\* key: "lock:driver:<tenant>:<id>"
DriverKey(name) == <<"driver", name>>

\* PartitionKey: "lock:partition:<tenant>:<n>"
PartitionKey(p) == <<"partition", p>>

\* A Lease.  AcquirePartition stores "__partition_<n>" as its DriverID, which
\* is a name of its own: part says that the name has this form.
Lease == [name : Names, part : BOOLEAN, token : Tokens, left : 0..TTL]

\* The key the lease was granted on.
Locked(l) == IF l.part THEN PartitionKey(l.name) ELSE DriverKey(l.name)

\* A command on its way to Redis.
Command == [op : {"acquire", "release", "extend"}, key : Keys,
            name : Names, part : BOOLEAN, token : Tokens]

Call == [cmd : Command, done : BOOLEAN, ok : BOOLEAN, age : 0..MaxReply]

\* No call is not a call.
ASSUME NoCallAssumption == NoCall \notin Call

Slot == [token : Tokens \cup {NoToken}, ttl : 0..TTL]
Free == [token |-> NoToken, ttl |-> 0]

TypeOK ==
  /\ store \in [Keys -> Slot]
  /\ lease \in [Holders -> SUBSET Lease]
  /\ call \in [Holders -> Call \cup {NoCall}]
  /\ want \in [Holders -> SUBSET Drivers]
  /\ drop \in [Holders -> SUBSET Lease]
  /\ late \subseteq Command

Init ==
  /\ store = [k \in Keys |-> Free]
  /\ lease = [h \in Holders |-> {}]
  /\ call = [h \in Holders |-> NoCall]
  /\ want = [h \in Holders |-> {}]
  /\ drop = [h \in Holders |-> {}]
  /\ late = {}

\* newToken: 16 bytes of crypto/rand, different from every token around.
Fresh(t) ==
  /\ \A k \in Keys : store[k].token # t
  /\ \A h \in Holders : /\ \A l \in lease[h] \cup drop[h] : l.token # t
                        /\ call[h] # NoCall => call[h].cmd.token # t
  /\ \A q \in late : q.token # t

-----------------------------------------------------------------------------
(* Calls leave the holder *)

Idle(h) == call[h] = NoCall /\ want[h] = {} /\ drop[h] = {}

Send(h, op, key, name, part, token) ==
  call' = [call EXCEPT ![h] =
             [cmd |-> [op |-> op, key |-> key, name |-> name,
                       part |-> part, token |-> token],
              done |-> FALSE, ok |-> FALSE, age |-> 0]]

\* AcquireMany(driverIDs), or Acquire when there is only one.
AcquireMany(h, W) ==
  /\ Idle(h) /\ W # {}
  /\ want' = [want EXCEPT ![h] = W]
  /\ UNCHANGED <<store, lease, call, drop, late>>

\* One Acquire of the loop.
Acquire(h) ==
  /\ call[h] = NoCall
  /\ \E d \in want[h], t \in Tokens :
       /\ Fresh(t)
       /\ Send(h, "acquire", DriverKey(d), d, FALSE, t)
       /\ want' = [want EXCEPT ![h] = @ \ {d}]
  /\ UNCHANGED <<store, lease, drop, late>>

AcquirePartition(h, p) ==
  /\ Idle(h)
  /\ \E t \in Tokens : Fresh(t) /\ Send(h, "acquire", PartitionKey(p), p, TRUE, t)
  /\ UNCHANGED <<store, lease, want, drop, late>>

Extend(h, l) ==
  /\ Idle(h) /\ l \in lease[h]
  /\ Send(h, "extend", DriverKey(l.name), l.name, l.part, l.token)
  /\ UNCHANGED <<store, lease, want, drop, late>>

\* ReleaseMany(leases), or Release when there is only one.  The holder stops
\* using a lease when it decides to release it.
ReleaseMany(h, S) ==
  /\ Idle(h) /\ S # {} /\ S \subseteq lease[h]
  /\ lease' = [lease EXCEPT ![h] = @ \ S]
  /\ drop' = [drop EXCEPT ![h] = S]
  /\ UNCHANGED <<store, call, want, late>>

\* One Release of the loop.  It always addresses the driver key.
Release(h) ==
  /\ call[h] = NoCall
  /\ \E l \in drop[h] :
       /\ Send(h, "release", DriverKey(l.name), l.name, l.part, l.token)
       /\ drop' = [drop EXCEPT ![h] = @ \ {l}]
  /\ UNCHANGED <<store, lease, want, late>>

ReleasePartition(h, l) ==
  /\ Idle(h) /\ l \in lease[h] /\ l.part
  /\ Send(h, "release", PartitionKey(l.name), l.name, TRUE, l.token)
  /\ lease' = [lease EXCEPT ![h] = @ \ {l}]
  /\ UNCHANGED <<store, want, drop, late>>

-----------------------------------------------------------------------------
(* Redis *)

\* SET without NX: the second writer wins.
GrantedWithoutNX(q) ==
  IF q.op = "acquire" THEN TRUE ELSE store[q.key].token = q.token

\* DEL and PEXPIRE without the token test of the Lua scripts.
GrantedUnfenced(q) ==
  IF q.op = "acquire" THEN store[q.key] = Free ELSE store[q.key] # Free

\* SET NX succeeds on a free key; the scripts act when the token matches.
Granted(q) ==
  IF q.op = "acquire" THEN store[q.key].token = NoToken
  ELSE store[q.key].token = q.token

\* PEXPIRE given the TTL in the wrong unit.
SlotAfterWrongUnit(q) ==
  IF q.op = "release" THEN Free
  ELSE [token |-> q.token, ttl |-> IF q.op = "extend" THEN 2 * TTL ELSE TTL]

\* SET NX with an expiration of 0, which go-redis sends as no expiry.
SlotAfterNoExpiry(q) ==
  IF q.op = "release" THEN Free
  ELSE [token |-> q.token, ttl |-> IF q.op = "extend" THEN TTL ELSE 0]

\* What the command leaves in the key: DEL, or the token with a full TTL.
SlotAfter(q) ==
  IF q.op = "release" THEN Free ELSE [token |-> q.token, ttl |-> TTL]

Effect(q) ==
  store' = IF Granted(q) THEN [store EXCEPT ![q.key] = SlotAfter(q)] ELSE store

\* Redis runs the command of a caller who is still waiting.
Exec(h) ==
  /\ call[h] # NoCall /\ ~call[h].done
  /\ Effect(call[h].cmd)
  /\ call' = [call EXCEPT ![h] =
                [@ EXCEPT !.done = TRUE, !.ok = Granted(call[h].cmd)]]
  /\ UNCHANGED <<lease, want, drop, late>>

\* Redis runs a command whose caller has given up.
LateExec(q) ==
  /\ q \in late
  /\ Effect(q)
  /\ late' = late \ {q}
  /\ UNCHANGED <<lease, call, want, drop>>

-----------------------------------------------------------------------------
(* Calls come back *)

\* The lease as the caller gets it: ExpiresAt is the caller's clock plus the
\* TTL, read once the reply is in.
Granting(q) == [name |-> q.name, part |-> q.part, token |-> q.token, left |-> TTL]

\* The reply arrives.  Acquire returns a lease or ErrNotAcquired (the loop
\* goes on either way); Extend renews ExpiresAt if the lease was still ours.
Reply(h) ==
  /\ call[h] # NoCall /\ call[h].done
  /\ LET q == call[h].cmd IN
     lease' = IF q.op = "release" \/ ~call[h].ok THEN lease
              ELSE [lease EXCEPT ![h] =
                      {l \in @ : l.token # q.token} \cup {Granting(q)}]
  /\ call' = [call EXCEPT ![h] = NoCall]
  /\ UNCHANGED <<store, want, drop, late>>

\* The call returns an error: AcquireMany stops and returns the leases it has,
\* ReleaseMany goes on.
Errored(h) ==
  /\ call' = [call EXCEPT ![h] = NoCall]
  /\ want' = [want EXCEPT ![h] = {}]
  /\ UNCHANGED <<store, lease, drop>>

\* The reply is lost: the command took effect.
ReplyLost(h) ==
  /\ call[h] # NoCall /\ call[h].done
  /\ Errored(h)
  /\ UNCHANGED late

\* The caller gives up, by timeout or a cancelled context, before the command
\* has run: it is lost, or still under way.
GiveUp(h) ==
  /\ call[h] # NoCall /\ ~call[h].done
  /\ Errored(h)
  /\ \/ UNCHANGED late
     \/ Cardinality(late) < MaxLate /\ late' = late \cup {call[h].cmd}

\* A holder dies with its leases.
Crash(h) ==
  /\ lease' = [lease EXCEPT ![h] = {}]
  /\ call' = [call EXCEPT ![h] = NoCall]
  /\ want' = [want EXCEPT ![h] = {}]
  /\ drop' = [drop EXCEPT ![h] = {}]
  /\ UNCHANGED <<store, late>>

-----------------------------------------------------------------------------
(* Time *)

Down(n) == IF n > 0 THEN n - 1 ELSE 0

\* One tick: keys expire, unless they were set without an expiry (ttl 0), and
\* ExpiresAt comes closer.  A reply under way arrives, or is given up, within
\* MaxReply.
Tick ==
  /\ \A h \in Holders : call[h] # NoCall /\ call[h].done => call[h].age < MaxReply
  /\ store' = [k \in Keys |->
                 IF store[k].ttl = 1 THEN Free
                 ELSE [store[k] EXCEPT !.ttl = Down(@)]]
  /\ lease' = [h \in Holders |-> {[l EXCEPT !.left = Down(@)] : l \in lease[h]}]
  /\ drop' = [h \in Holders |-> {[l EXCEPT !.left = Down(@)] : l \in drop[h]}]
  /\ call' = [h \in Holders |->
                IF call[h] # NoCall /\ call[h].done
                THEN [call[h] EXCEPT !.age = @ + 1] ELSE call[h]]
  /\ UNCHANGED <<want, late>>

-----------------------------------------------------------------------------
HolderStep(h) ==
  \/ Acquire(h) \/ Release(h)
  \/ Exec(h) \/ Reply(h) \/ ReplyLost(h) \/ GiveUp(h)

Next ==
  \/ \E h \in Holders :
       \/ \E W \in SUBSET Drivers : AcquireMany(h, W)
       \/ \E p \in Partitions : AcquirePartition(h, p)
       \/ \E l \in lease[h] : Extend(h, l) \/ ReleasePartition(h, l)
       \/ \E S \in SUBSET lease[h] : ReleaseMany(h, S)
       \/ HolderStep(h)
       \/ Crash(h)
  \/ \E q \in late : LateExec(q)
  \/ Tick

Spec == Init /\ [][Next]_vars

\* Calls are answered or given up, and time passes.
FairSpec == Spec /\ WF_vars(Tick) /\ \A h \in Holders : WF_vars(HolderStep(h))

-----------------------------------------------------------------------------
(* Properties *)

\* A holder with more than MaxReply left until its ExpiresAt is safe.
Sure(l) == l.left > MaxReply

\* Two holders are never both sure of the same driver or partition, whatever
\* expires, crashes, arrives late or is retried: ExpiresAt lags behind Redis
\* by at most the time a reply travels.
SafeMargin ==
  \A g, h \in Holders : \A l \in lease[g], m \in lease[h] :
    Locked(l) = Locked(m) /\ Sure(l) /\ Sure(m) => g = h /\ l.token = m.token

\* A lease is taken out of Redis before its time only by a command that
\* carries its token: no stalled holder removes or replaces another's lease.
Fenced ==
  [][\A k \in Keys :
       store[k].ttl > 1 /\ store'[k].token # store[k].token =>
         \/ \E h \in Holders : call[h] # NoCall /\ call[h].cmd.token = store[k].token
         \/ \E q \in late : q.token = store[k].token]_vars

\* Nobody knows the token any more.
Forgotten(t) ==
  /\ \A h \in Holders : /\ \A l \in lease[h] : l.token # t
                        /\ call[h] # NoCall => call[h].cmd.token # t
  /\ \A q \in late : q.token # t

\* The lease of a crashed holder frees its driver.
ForgottenLeasesExpire ==
  \A k \in Keys, t \in Tokens :
    store[k].token = t /\ Forgotten(t) ~> store[k].token # t
=============================================================================
