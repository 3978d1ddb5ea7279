------------------------- MODULE LeaseManagerProofs -------------------------
(***************************************************************************)
(* Proofs about LeaseManager, for any number of holders, drivers,          *)
(* partitions and tokens, any TTL and any reply time shorter than it.      *)
(***************************************************************************)
EXTENDS LeaseManager, TLAPS

-----------------------------------------------------------------------------
(* The inductive invariant *)

Asks(h, op) == call[h] # NoCall /\ call[h].cmd.op = op

\* The key a command's lease is, or will be, granted on.
Target(q) == IF q.part THEN PartitionKey(q.name) ELSE DriverKey(q.name)

\* A lease that is sure of its lock has it, and Redis keeps it long enough.
SureOwned ==
  \A h \in Holders : \A l \in lease[h] : Sure(l) =>
    /\ store[Locked(l)].token = l.token
    /\ store[Locked(l)].ttl + MaxReply >= l.left

\* While a granting reply travels, the key has lost no more than its age.
GrantStands ==
  \A h \in Holders :
    call[h] # NoCall /\ call[h].done /\ call[h].ok /\ call[h].cmd.op # "release" =>
      /\ store[call[h].cmd.key].token = call[h].cmd.token
      /\ store[call[h].cmd.key].ttl + call[h].age >= TTL

\* A token names one lease.
OneLease ==
  \A g, h \in Holders : \A l \in lease[g], m \in lease[h] :
    l.token = m.token => g = h /\ l = m

\* What is being released is in nobody's hands.
DropApart ==
  \A g, h \in Holders : \A l \in lease[g], m \in drop[h] : l.token # m.token

\* A call that carries a lease's token is its holder's own renewal.
CallApart ==
  \A g, h \in Holders : \A l \in lease[g] :
    call[h] # NoCall /\ call[h].cmd.token = l.token =>
      /\ call[h].cmd.op = "extend"
      /\ g = h
      /\ call[h].cmd.name = l.name
      /\ call[h].cmd.part = l.part

\* A late command that carries a lease's token renews it.
LateApart ==
  \A g \in Holders : \A l \in lease[g], q \in late :
    q.token = l.token => q.op = "extend"

\* The token of an acquisition is new: nobody else has it.
AcquireFresh ==
  \A h \in Holders : Asks(h, "acquire") =>
    /\ call[h].cmd.key = Target(call[h].cmd)
    /\ \A k \in Keys : store[k].token = call[h].cmd.token => k = call[h].cmd.key
    /\ \A g \in Holders : /\ \A m \in drop[g] : m.token # call[h].cmd.token
                          /\ g # h /\ call[g] # NoCall =>
                               call[g].cmd.token # call[h].cmd.token
    /\ \A q \in late : q.token # call[h].cmd.token

\* A renewal is for a lease its sender has.
ExtendOwn ==
  \A h \in Holders : Asks(h, "extend") =>
    \E l \in lease[h] : l.token = call[h].cmd.token

\* A lease's token is in no other key.
OneKey ==
  \A g \in Holders : \A l \in lease[g], k \in Keys :
    store[k].token = l.token => k = Locked(l)

\* A free key has no time to live.
FreeSlots == \A k \in Keys : store[k].token = NoToken => store[k].ttl = 0

Apart ==
  /\ OneLease
  /\ DropApart
  /\ CallApart
  /\ LateApart
  /\ AcquireFresh
  /\ ExtendOwn
  /\ OneKey

IInv ==
  /\ TypeOK
  /\ Apart
  /\ FreeSlots
  /\ SureOwned
  /\ GrantStands

-----------------------------------------------------------------------------
(* Types *)

\* A call that was just sent is well typed.
LEMMA SendType ==
  ASSUME TypeOK, NEW h \in Holders, NEW op \in {"acquire", "release", "extend"},
         NEW key \in Keys, NEW name \in Names, NEW part \in BOOLEAN,
         NEW token \in Tokens, Send(h, op, key, name, part, token)
  PROVE  /\ call' \in [Holders -> Call \cup {NoCall}]
         /\ \A g \in Holders : g # h => call'[g] = call[g]
         /\ call'[h].cmd = [op |-> op, key |-> key, name |-> name,
                            part |-> part, token |-> token]
         /\ ~call'[h].done
<1> DEFINE c == [cmd |-> [op |-> op, key |-> key, name |-> name,
                          part |-> part, token |-> token],
                 done |-> FALSE, ok |-> FALSE, age |-> 0]
<1>1. c.cmd \in Command
  BY DEF Command
<1>2. 0 \in 0..MaxReply
  BY LeaseAssumption
<1>3. c \in Call
  BY <1>1, <1>2 DEF Call
<1>4. call' = [call EXCEPT ![h] = c]
  BY DEF Send
<1>5. call'[h] = c
  BY <1>4 DEF TypeOK
<1> QED
  BY <1>3, <1>4, <1>5 DEF TypeOK

\* The keys of names.
LEMMA KeysOfNames ==
  ASSUME NEW n \in Names
  PROVE  DriverKey(n) \in Keys /\ PartitionKey(n) \in Keys
BY DEF DriverKey, PartitionKey, Keys

\* The fields of a lease, and the key it locks.
LEMMA LeaseFields ==
  ASSUME NEW l \in Lease
  PROVE  /\ l.name \in Names /\ l.part \in BOOLEAN
         /\ l.token \in Tokens /\ l.left \in 0..TTL
         /\ Locked(l) \in Keys
<1>1. /\ l.name \in Names /\ l.part \in BOOLEAN
      /\ l.token \in Tokens /\ l.left \in 0..TTL
  BY DEF Lease
<1> QED
  BY <1>1, KeysOfNames DEF Locked

\* The fields of a command.
LEMMA CommandFields ==
  ASSUME NEW q \in Command
  PROVE  /\ q.op \in {"acquire", "release", "extend"}
         /\ q.key \in Keys /\ q.name \in Names
         /\ q.part \in BOOLEAN /\ q.token \in Tokens
BY DEF Command

\* A call under way is a call.
LEMMA CallFields ==
  ASSUME TypeOK, NEW h \in Holders, call[h] # NoCall
  PROVE  /\ call[h] \in Call
         /\ call[h].cmd \in Command
         /\ call[h].done \in BOOLEAN /\ call[h].ok \in BOOLEAN
         /\ call[h].age \in 0..MaxReply
<1>1. call[h] \in Call
  BY DEF TypeOK
<1> QED
  BY <1>1 DEF Call

-----------------------------------------------------------------------------
(* What a command does to Redis *)

\* A key is taken from nobody by SET NX, and only its own token deletes it; a
\* token that stays loses no time.
LEMMA EffectStep ==
  ASSUME TypeOK, NEW q \in Command, Effect(q)
  PROVE  /\ store' \in [Keys -> Slot]
         /\ \A k \in Keys :
              \/ /\ store'[k].token = store[k].token
                 /\ store'[k].token # NoToken => store'[k].ttl >= store[k].ttl
              \/ /\ q.op = "acquire" /\ k = q.key
                 /\ store[k].token = NoToken /\ store'[k].token = q.token
              \/ /\ q.op = "release" /\ k = q.key
                 /\ store[k].token = q.token /\ store'[k].token = NoToken
         /\ Granted(q) /\ q.op # "release" =>
              store'[q.key].token = q.token /\ store'[q.key].ttl = TTL
<1>1. q.key \in Keys /\ q.token \in Tokens
  BY CommandFields
<1>2. SlotAfter(q) \in Slot
  <2>1. TTL \in 0..TTL /\ 0 \in 0..TTL
    BY LeaseAssumption
  <2> QED
    BY <1>1, <2>1 DEF SlotAfter, Slot, Free
<1>3. store' \in [Keys -> Slot]
  BY <1>1, <1>2 DEF Effect, TypeOK
<1>4. CASE ~Granted(q)
  <2>1. \A k \in Keys : store'[k] = store[k] /\ store[k].ttl \in Nat
    BY <1>4 DEF Effect, TypeOK, Slot
  <2> QED
    BY <1>3, <1>4, <2>1
<1>5. CASE Granted(q)
  <2>1. /\ store'[q.key] = SlotAfter(q)
        /\ \A k \in Keys : k # q.key => store'[k] = store[k]
    BY <1>1, <1>5 DEF Effect, TypeOK
  <2>2. \A k \in Keys : store[k].ttl \in 0..TTL
    BY DEF TypeOK, Slot
  <2>3. CASE q.op = "release"
    BY <1>3, <1>5, <2>1, <2>2, <2>3 DEF SlotAfter, Free, Granted
  <2>4. CASE q.op # "release"
    <3>1. store'[q.key].token = q.token /\ store'[q.key].ttl = TTL
      BY <2>1, <2>4 DEF SlotAfter
    <3>2. q.op \in {"acquire", "extend"}
      BY <2>4, CommandFields
    <3>3. TTL >= store[q.key].ttl
      BY <1>1, <2>2, LeaseAssumption
    <3>4. CASE q.op = "acquire"
      BY <1>3, <1>5, <2>1, <2>2, <3>1, <3>4 DEF Granted
    <3>5. CASE q.op = "extend"
      BY <1>3, <1>5, <2>1, <2>2, <3>1, <3>3, <3>5 DEF Granted
    <3> QED
      BY <3>2, <3>4, <3>5
  <2> QED
    BY <2>3, <2>4
<1> QED
  BY <1>4, <1>5

\* A command leaves a lock alone whose token is not the one it removes.
LEMMA LockStays ==
  ASSUME TypeOK, NEW q \in Command, Effect(q),
         NEW k \in Keys, NEW t \in Tokens, store[k].token = t,
         q.op = "release" => q.token # t
  PROVE  store'[k].token = t /\ store'[k].ttl >= store[k].ttl
<1>1. t # NoToken
  BY LeaseAssumption
<1> QED
  BY <1>1, EffectStep

\* A command brings no token into a key but that of its acquisition.
LEMMA TokenStays ==
  ASSUME TypeOK, NEW q \in Command, Effect(q),
         NEW k \in Keys, NEW t \in Tokens, store'[k].token = t,
         q.op = "acquire" => q.token # t
  PROVE  store[k].token = t
<1>1. t # NoToken
  BY LeaseAssumption
<1> QED
  BY <1>1, EffectStep

-----------------------------------------------------------------------------
(* One lemma per action *)

\* Steps that change no more than want.
LEMMA WantInv ==
  ASSUME IInv, want' \in [Holders -> SUBSET Drivers],
         UNCHANGED <<store, lease, call, drop, late>>
  PROVE  IInv'
BY DEF IInv, TypeOK, Apart, OneLease, DropApart, CallApart, LateApart,
       AcquireFresh, Asks, ExtendOwn, OneKey, FreeSlots, SureOwned, GrantStands

\* An acquisition leaves with a new token.
LEMMA AcquireSent ==
  ASSUME IInv, NEW h \in Holders, call[h] = NoCall,
         NEW name \in Names, NEW part \in BOOLEAN, NEW key \in Keys,
         NEW t \in Tokens, Fresh(t), Send(h, "acquire", key, name, part, t),
         key = IF part THEN PartitionKey(name) ELSE DriverKey(name),
         want' \in [Holders -> SUBSET Drivers],
         UNCHANGED <<store, lease, drop, late>>
  PROVE  IInv'
<1>1. /\ call' \in [Holders -> Call \cup {NoCall}]
      /\ \A g \in Holders : g # h => call'[g] = call[g]
      /\ call'[h].cmd = [op |-> "acquire", key |-> key, name |-> name,
                         part |-> part, token |-> t]
      /\ ~call'[h].done
  BY SendType DEF IInv
<1>2. /\ call'[h].cmd.op = "acquire" /\ call'[h].cmd.key = key
      /\ call'[h].cmd.name = name /\ call'[h].cmd.part = part
      /\ call'[h].cmd.token = t
  BY <1>1
<1>3. TypeOK'
  BY <1>1 DEF IInv, TypeOK
<1>4. OneLease' /\ DropApart' /\ LateApart' /\ OneKey' /\ FreeSlots' /\ SureOwned'
  BY DEF IInv, Apart, OneLease, DropApart, LateApart, OneKey, FreeSlots, SureOwned
<1>5. CallApart'
  BY <1>1, <1>2 DEF IInv, Apart, CallApart, Fresh
<1>6. AcquireFresh'
  <2> SUFFICES ASSUME NEW g \in Holders, Asks(g, "acquire")'
               PROVE  /\ call'[g].cmd.key = Target(call'[g].cmd)
                      /\ \A k \in Keys : store[k].token = call'[g].cmd.token =>
                                           k = call'[g].cmd.key
                      /\ \A f \in Holders :
                           /\ \A m \in drop[f] : m.token # call'[g].cmd.token
                           /\ f # g /\ call'[f] # NoCall =>
                                call'[f].cmd.token # call'[g].cmd.token
                      /\ \A q \in late : q.token # call'[g].cmd.token
    BY DEF AcquireFresh
  <2>1. CASE g = h
    BY <1>1, <1>2, <2>1 DEF Fresh, Target
  <2>2. CASE g # h
    <3>1. call'[g] = call[g] /\ Asks(g, "acquire")
      BY <1>1, <2>2 DEF Asks
    <3>2. call[g].cmd.token # t
      BY <3>1 DEF Fresh, Asks
    <3> QED
      BY <1>1, <1>2, <3>1, <3>2 DEF IInv, Apart, AcquireFresh
  <2> QED
    BY <2>1, <2>2
<1>7. ExtendOwn'
  BY <1>1, <1>2 DEF IInv, Apart, ExtendOwn, Asks
<1>8. GrantStands'
  BY <1>1 DEF IInv, GrantStands
<1> QED
  BY <1>3, <1>4, <1>5, <1>6, <1>7, <1>8 DEF IInv, Apart

\* A renewal leaves for a lease the sender has.
LEMMA ExtendInv ==
  ASSUME IInv, NEW h \in Holders, NEW l \in lease[h], Extend(h, l)
  PROVE  IInv'
<1>1. l \in Lease /\ l.name \in Names /\ l.part \in BOOLEAN /\ l.token \in Tokens
  BY LeaseFields DEF IInv, TypeOK
<1>2. /\ call' \in [Holders -> Call \cup {NoCall}]
      /\ \A g \in Holders : g # h => call'[g] = call[g]
      /\ call'[h].cmd = [op |-> "extend", key |-> DriverKey(l.name), name |-> l.name,
                         part |-> l.part, token |-> l.token]
      /\ ~call'[h].done
  BY <1>1, SendType, KeysOfNames DEF Extend, IInv
<1>3. /\ call'[h].cmd.op = "extend"
      /\ call'[h].cmd.name = l.name /\ call'[h].cmd.part = l.part
      /\ call'[h].cmd.token = l.token
  BY <1>2
<1>4. UNCHANGED <<store, lease, want, drop, late>>
  BY DEF Extend
<1>5. TypeOK'
  BY <1>2, <1>4 DEF IInv, TypeOK
<1>6. OneLease' /\ DropApart' /\ LateApart' /\ OneKey' /\ FreeSlots' /\ SureOwned'
  BY <1>4 DEF IInv, Apart, OneLease, DropApart, LateApart, OneKey, FreeSlots, SureOwned
<1>7. CallApart'
  <2>1. \A g \in Holders : \A m \in lease[g] : m.token = l.token => g = h /\ m = l
    BY DEF IInv, Apart, OneLease
  <2> QED
    BY <1>2, <1>3, <1>4, <2>1 DEF IInv, Apart, CallApart
<1>8. AcquireFresh'
  <2>1. \A g \in Holders : Asks(g, "acquire") => call[g].cmd.token # l.token
    BY DEF IInv, Apart, CallApart, Asks
  <2> QED
    BY <1>2, <1>3, <1>4, <2>1 DEF IInv, Apart, AcquireFresh, Asks
<1>9. ExtendOwn'
  BY <1>2, <1>3, <1>4 DEF IInv, Apart, ExtendOwn, Asks
<1>10. GrantStands'
  BY <1>2, <1>4 DEF IInv, GrantStands
<1> QED
  BY <1>5, <1>6, <1>7, <1>8, <1>9, <1>10 DEF IInv, Apart

\* A holder gives leases up.
LEMMA ReleaseManyInv ==
  ASSUME IInv, NEW h \in Holders, NEW S \in SUBSET lease[h], ReleaseMany(h, S)
  PROVE  IInv'
<1>1. /\ lease' = [lease EXCEPT ![h] = @ \ S]
      /\ drop' = [drop EXCEPT ![h] = S]
      /\ UNCHANGED <<store, call, want, late>>
      /\ call[h] = NoCall
  BY DEF ReleaseMany, Idle
<1>2. \A g \in Holders :
        /\ lease'[g] \subseteq lease[g]
        /\ g # h => lease'[g] = lease[g] /\ drop'[g] = drop[g]
        /\ drop'[h] = S
        /\ lease'[h] = lease[h] \ S
  BY <1>1 DEF IInv, TypeOK
<1>3. TypeOK'
  BY <1>1 DEF IInv, TypeOK
<1>4. OneLease' /\ CallApart' /\ LateApart' /\ OneKey' /\ FreeSlots' /\ SureOwned'
  BY <1>1, <1>2 DEF IInv, Apart, OneLease, CallApart, LateApart, OneKey, FreeSlots, SureOwned
<1>5. DropApart'
  <2> SUFFICES ASSUME NEW f \in Holders, NEW g \in Holders,
                      NEW l \in lease'[f], NEW m \in drop'[g], l.token = m.token
               PROVE  FALSE
    BY DEF DropApart
  <2>1. CASE g # h
    BY <1>2, <2>1 DEF IInv, Apart, DropApart
  <2>2. CASE g = h
    <3>1. l \in lease[f] /\ m \in lease[h] /\ m \in S
      BY <1>2, <2>2
    <3>2. f = h /\ l = m
      BY <3>1 DEF IInv, Apart, OneLease
    <3> QED
      BY <1>2, <3>1, <3>2
  <2> QED
    BY <2>1, <2>2
<1>6. AcquireFresh'
  <2>1. \A g \in Holders : Asks(g, "acquire") => \A m \in S : m.token # call[g].cmd.token
    BY DEF IInv, Apart, CallApart, Asks
  <2> QED
    BY <1>1, <1>2, <2>1 DEF IInv, Apart, AcquireFresh, Asks
<1>7. ExtendOwn'
  BY <1>1, <1>2 DEF IInv, Apart, ExtendOwn, Asks
<1>8. GrantStands'
  BY <1>1 DEF IInv, GrantStands
<1> QED
  BY <1>3, <1>4, <1>5, <1>6, <1>7, <1>8 DEF IInv, Apart

\* A release leaves for a lease that is in nobody's hands.
LEMMA ReleaseSent ==
  ASSUME IInv, NEW h \in Holders, call[h] = NoCall, NEW l \in Lease,
         NEW key \in Keys, NEW part \in BOOLEAN,
         Send(h, "release", key, l.name, part, l.token), TypeOK',
         \A g \in Holders : /\ lease'[g] \subseteq lease[g]
                            /\ drop'[g] \subseteq drop[g]
                            /\ \A m \in lease'[g] : m.token # l.token
                            /\ g # h => lease'[g] = lease[g],
         \A g \in Holders : Asks(g, "acquire") => call[g].cmd.token # l.token,
         UNCHANGED <<store, late>>
  PROVE  IInv'
<1>1. l.name \in Names /\ l.token \in Tokens
  BY LeaseFields
<1>2. /\ \A g \in Holders : g # h => call'[g] = call[g]
      /\ call'[h].cmd = [op |-> "release", key |-> key, name |-> l.name,
                         part |-> part, token |-> l.token]
      /\ ~call'[h].done
  BY <1>1, SendType DEF IInv
<1>3. call'[h].cmd.op = "release" /\ call'[h].cmd.token = l.token
  BY <1>2
<1>4. OneLease' /\ DropApart' /\ LateApart' /\ OneKey' /\ FreeSlots' /\ SureOwned'
  BY DEF IInv, Apart, OneLease, DropApart, LateApart, OneKey, FreeSlots, SureOwned
<1>5. CallApart'
  BY <1>2, <1>3 DEF IInv, Apart, CallApart
<1>6. AcquireFresh'
  BY <1>2, <1>3 DEF IInv, Apart, AcquireFresh, Asks
<1>7. ExtendOwn'
  BY <1>2, <1>3 DEF IInv, Apart, ExtendOwn, Asks
<1>8. GrantStands'
  BY <1>2 DEF IInv, GrantStands
<1> QED
  BY <1>4, <1>5, <1>6, <1>7, <1>8 DEF IInv, Apart

\* One acquisition of AcquireMany.
LEMMA AcquireInv ==
  ASSUME IInv, NEW h \in Holders, Acquire(h)
  PROVE  IInv'
<1>1. PICK d \in want[h], t \in Tokens :
        /\ Fresh(t)
        /\ Send(h, "acquire", DriverKey(d), d, FALSE, t)
        /\ want' = [want EXCEPT ![h] = @ \ {d}]
  BY DEF Acquire
<1>2. d \in Names /\ DriverKey(d) \in Keys
  BY KeysOfNames DEF IInv, TypeOK, Names
<1>3. want' \in [Holders -> SUBSET Drivers]
  BY <1>1 DEF IInv, TypeOK
<1> QED
  BY <1>1, <1>2, <1>3, AcquireSent DEF Acquire

\* The acquisition of a partition.
LEMMA AcquirePartitionInv ==
  ASSUME IInv, NEW h \in Holders, NEW p \in Partitions, AcquirePartition(h, p)
  PROVE  IInv'
<1>1. PICK t \in Tokens :
        Fresh(t) /\ Send(h, "acquire", PartitionKey(p), p, TRUE, t)
  BY DEF AcquirePartition
<1>2. p \in Names /\ PartitionKey(p) \in Keys
  BY KeysOfNames DEF Names
<1>3. want' \in [Holders -> SUBSET Drivers] /\ call[h] = NoCall
  BY DEF IInv, TypeOK, AcquirePartition, Idle
<1> QED
  BY <1>1, <1>2, <1>3, AcquireSent DEF AcquirePartition

\* One release of ReleaseMany.
LEMMA ReleaseInv ==
  ASSUME IInv, NEW h \in Holders, Release(h)
  PROVE  IInv'
<1>1. PICK l \in drop[h] :
        /\ Send(h, "release", DriverKey(l.name), l.name, l.part, l.token)
        /\ drop' = [drop EXCEPT ![h] = @ \ {l}]
  BY DEF Release
<1>2. l \in Lease
  BY DEF IInv, TypeOK
<1>3. DriverKey(l.name) \in Keys /\ l.part \in BOOLEAN /\ l.name \in Names /\ l.token \in Tokens
  BY <1>2, LeaseFields, KeysOfNames
<1>4. call' \in [Holders -> Call \cup {NoCall}]
  BY <1>1, <1>3, SendType DEF IInv
<1>5. TypeOK'
  BY <1>1, <1>4 DEF IInv, TypeOK, Release
<1>6. \A g \in Holders : /\ lease'[g] \subseteq lease[g]
                         /\ drop'[g] \subseteq drop[g]
                         /\ \A m \in lease'[g] : m.token # l.token
                         /\ g # h => lease'[g] = lease[g]
  BY <1>1 DEF IInv, TypeOK, Release, Apart, DropApart
<1>7. \A g \in Holders : Asks(g, "acquire") => call[g].cmd.token # l.token
  BY DEF IInv, Apart, AcquireFresh
<1> QED
  BY <1>1, <1>2, <1>3, <1>5, <1>6, <1>7, ReleaseSent DEF Release

\* The release of a partition.
LEMMA ReleasePartitionInv ==
  ASSUME IInv, NEW h \in Holders, NEW l \in lease[h], ReleasePartition(h, l)
  PROVE  IInv'
<1>1. l \in Lease
  BY DEF IInv, TypeOK
<1>2. PartitionKey(l.name) \in Keys /\ l.name \in Names /\ l.token \in Tokens
  BY <1>1, LeaseFields, KeysOfNames
<1>3. /\ Send(h, "release", PartitionKey(l.name), l.name, TRUE, l.token)
      /\ lease' = [lease EXCEPT ![h] = @ \ {l}]
      /\ UNCHANGED <<store, want, drop, late>>
      /\ call[h] = NoCall
  BY DEF ReleasePartition, Idle
<1>4. call' \in [Holders -> Call \cup {NoCall}]
  BY <1>2, <1>3, SendType DEF IInv
<1>5. TypeOK'
  BY <1>3, <1>4 DEF IInv, TypeOK
<1>6. \A g \in Holders : \A m \in lease[g] : m.token = l.token => g = h /\ m = l
  BY DEF IInv, Apart, OneLease
<1>7. \A g \in Holders : /\ lease'[g] \subseteq lease[g]
                         /\ drop'[g] \subseteq drop[g]
                         /\ \A m \in lease'[g] : m.token # l.token
                         /\ g # h => lease'[g] = lease[g]
  BY <1>3, <1>6 DEF IInv, TypeOK
<1>8. \A g \in Holders : Asks(g, "acquire") => call[g].cmd.token # l.token
  BY DEF IInv, Apart, CallApart, Asks
<1> QED
  BY <1>1, <1>2, <1>3, <1>5, <1>7, <1>8, ReleaseSent

\* What a command at Redis leaves of the locks: leases that are sure keep
\* them, and no token spreads to a second key.
LEMMA EffectInv ==
  ASSUME IInv, NEW q \in Command, Effect(q), lease' = lease,
         \A g \in Holders : \A l \in lease[g] : q.token = l.token => q.op = "extend"
  PROVE  SureOwned' /\ OneKey' /\ FreeSlots'
<1>1. \A g \in Holders : \A l \in lease[g] :
        l \in Lease /\ l.token \in Tokens /\ Locked(l) \in Keys /\ l.left \in 0..TTL
  BY LeaseFields DEF IInv, TypeOK
<1>2. \A k \in Keys : store[k].ttl \in Nat /\ store'[k].ttl \in Nat
  <2>1. store' \in [Keys -> Slot]
    BY EffectStep DEF IInv
  <2> QED
    BY <2>1 DEF IInv, TypeOK, Slot
<1>3. SureOwned'
  <2> SUFFICES ASSUME NEW g \in Holders, NEW l \in lease[g], Sure(l)
               PROVE  /\ store'[Locked(l)].token = l.token
                      /\ store'[Locked(l)].ttl + MaxReply >= l.left
    BY DEF SureOwned, Sure, Locked, PartitionKey, DriverKey
  <2>1. /\ store[Locked(l)].token = l.token
        /\ store[Locked(l)].ttl + MaxReply >= l.left
    BY DEF IInv, SureOwned
  <2>2. /\ store'[Locked(l)].token = l.token
        /\ store'[Locked(l)].ttl >= store[Locked(l)].ttl
    BY <1>1, <2>1, LockStays DEF IInv
  <2> QED
    BY <1>1, <1>2, <2>1, <2>2, LeaseAssumption
<1>4. OneKey'
  <2> SUFFICES ASSUME NEW g \in Holders, NEW l \in lease[g], NEW k \in Keys,
                      store'[k].token = l.token
               PROVE  k = Locked(l)
    BY DEF OneKey, Locked, PartitionKey, DriverKey
  <2>1. store[k].token = l.token
    BY <1>1, TokenStays DEF IInv
  <2> QED
    BY <2>1 DEF IInv, Apart, OneKey
<1>5. FreeSlots'
  <2> SUFFICES ASSUME NEW k \in Keys, store'[k].token = NoToken
               PROVE  store'[k].ttl = 0
    BY DEF FreeSlots
  <2>1. CASE store'[k] = store[k]
    BY <2>1 DEF IInv, FreeSlots
  <2>2. CASE store'[k] = SlotAfter(q)
    <3>1. q.token # NoToken
      BY CommandFields, LeaseAssumption
    <3> QED
      BY <2>2, <3>1 DEF SlotAfter, Free
  <2> QED
    BY <2>1, <2>2 DEF Effect, IInv, TypeOK
<1> QED
  BY <1>3, <1>4, <1>5

\* A granting reply under way survives a command that does not remove it.
LEMMA GrantSurvives ==
  ASSUME IInv, NEW q \in Command, Effect(q), NEW g \in Holders,
         call[g] # NoCall, call[g].done, call[g].ok, call[g].cmd.op # "release",
         q.op = "release" => q.token # call[g].cmd.token
  PROVE  /\ store'[call[g].cmd.key].token = call[g].cmd.token
         /\ store'[call[g].cmd.key].ttl + call[g].age >= TTL
<1> DEFINE c == call[g].cmd
<1>1. c \in Command /\ call[g].age \in Nat
  BY CallFields DEF IInv
<1>2. c.key \in Keys /\ c.token \in Tokens
  BY <1>1, CommandFields
<1>3. store[c.key].token = c.token /\ store[c.key].ttl + call[g].age >= TTL
  BY DEF IInv, GrantStands
<1>4. store'[c.key].token = c.token /\ store'[c.key].ttl >= store[c.key].ttl
  BY <1>2, <1>3, LockStays DEF IInv
<1>5. store[c.key].ttl \in Nat /\ store'[c.key].ttl \in Nat
  <2>1. store' \in [Keys -> Slot]
    BY EffectStep DEF IInv
  <2> QED
    BY <1>2, <2>1 DEF IInv, TypeOK, Slot
<1> QED
  BY <1>1, <1>3, <1>4, <1>5, LeaseAssumption

\* Redis runs the command of a waiting caller.
LEMMA ExecInv ==
  ASSUME IInv, NEW h \in Holders, Exec(h)
  PROVE  IInv'
<1> DEFINE q == call[h].cmd
<1>1. /\ call[h] # NoCall /\ Effect(q)
      /\ call' = [call EXCEPT ![h] = [@ EXCEPT !.done = TRUE, !.ok = Granted(q)]]
      /\ UNCHANGED <<lease, want, drop, late>>
  BY DEF Exec
<1>2. q \in Command /\ call[h] \in Call /\ call[h].age \in 0..MaxReply
  BY <1>1, CallFields DEF IInv
<1>3. Granted(q) \in BOOLEAN
  BY DEF Granted
<1>4. /\ call' \in [Holders -> Call \cup {NoCall}]
      /\ \A g \in Holders : g # h => call'[g] = call[g]
      /\ call'[h].cmd = q /\ call'[h].ok = Granted(q)
      /\ call'[h].age = call[h].age
  <2>1. [call[h] EXCEPT !.done = TRUE, !.ok = Granted(q)] \in Call
    BY <1>2, <1>3 DEF Call
  <2> QED
    BY <1>1, <1>2, <2>1 DEF IInv, TypeOK, Call
<1>5. \A g \in Holders : call'[g] # NoCall => call[g] # NoCall /\ call'[g].cmd = call[g].cmd
  BY <1>1, <1>4
<1>6. SureOwned' /\ OneKey' /\ FreeSlots'
  BY <1>1, <1>2, EffectInv DEF IInv, Apart, CallApart
<1>7. TypeOK'
  BY <1>1, <1>2, <1>4, EffectStep DEF IInv, TypeOK
<1>8. OneLease' /\ DropApart' /\ CallApart' /\ LateApart' /\ ExtendOwn'
  BY <1>1, <1>5 DEF IInv, Apart, OneLease, DropApart, CallApart, LateApart, ExtendOwn, Asks
<1>9. AcquireFresh'
  <2> SUFFICES ASSUME NEW g \in Holders, Asks(g, "acquire"), NEW k \in Keys,
                      store'[k].token = call[g].cmd.token
               PROVE  k = call[g].cmd.key
    BY <1>1, <1>5 DEF IInv, Apart, AcquireFresh, Asks, Target, PartitionKey, DriverKey
  <2>1. call[g].cmd \in Command /\ call[g].cmd.token \in Tokens
    BY CallFields, CommandFields DEF IInv, Asks
  <2>2. store[k].token = call[g].cmd.token => k = call[g].cmd.key
    BY DEF IInv, Apart, AcquireFresh
  <2>3. CASE g = h
    BY <1>1, <1>2, <2>1, <2>2, <2>3, EffectStep, LeaseAssumption DEF IInv
  <2>4. CASE g # h
    <3>1. q.token # call[g].cmd.token
      BY <1>1, <2>4 DEF IInv, Apart, AcquireFresh
    <3>2. store[k].token = call[g].cmd.token
      BY <1>1, <1>2, <2>1, <3>1, TokenStays DEF IInv
    <3> QED
      BY <2>2, <3>2
  <2> QED
    BY <2>3, <2>4
<1>10. GrantStands'
  <2> SUFFICES ASSUME NEW g \in Holders, call'[g] # NoCall, call'[g].done,
                      call'[g].ok, call[g].cmd.op # "release"
               PROVE  /\ store'[call[g].cmd.key].token = call[g].cmd.token
                      /\ store'[call[g].cmd.key].ttl + call'[g].age >= TTL
    BY <1>5 DEF GrantStands
  <2>1. CASE g = h
    <3>1. Granted(q)
      BY <1>4, <2>1
    <3>2. store'[q.key].token = q.token /\ store'[q.key].ttl = TTL
      BY <1>1, <1>2, <2>1, <3>1, EffectStep DEF IInv
    <3> QED
      BY <1>2, <1>4, <2>1, <3>2, LeaseAssumption
  <2>2. CASE g # h
    <3>1. call'[g] = call[g]
      BY <1>4, <2>2
    <3>2. q.op = "release" => q.token # call[g].cmd.token
      <4>1. call[g].cmd.op \in {"acquire", "extend"}
        BY <3>1, CallFields, CommandFields DEF IInv
      <4>2. CASE call[g].cmd.op = "acquire"
        BY <1>1, <2>2, <3>1, <4>2 DEF IInv, Apart, AcquireFresh, Asks
      <4>3. CASE call[g].cmd.op = "extend"
        BY <1>1, <3>1, <4>3 DEF IInv, Apart, ExtendOwn, CallApart, Asks
      <4> QED
        BY <4>1, <4>2, <4>3
    <3> QED
      BY <1>1, <1>2, <3>1, <3>2, GrantSurvives
  <2> QED
    BY <2>1, <2>2
<1> QED
  BY <1>6, <1>7, <1>8, <1>9, <1>10 DEF IInv, Apart

\* Redis runs a command whose caller has given up.
LEMMA LateExecInv ==
  ASSUME IInv, NEW q \in late, LateExec(q)
  PROVE  IInv'
<1>1. Effect(q) /\ late' = late \ {q} /\ UNCHANGED <<lease, call, want, drop>>
  BY DEF LateExec
<1>2. q \in Command
  BY DEF IInv, TypeOK
<1>3. SureOwned' /\ OneKey' /\ FreeSlots'
  BY <1>1, <1>2, EffectInv DEF IInv, Apart, LateApart
<1>4. TypeOK'
  BY <1>1, <1>2, EffectStep DEF IInv, TypeOK
<1>5. OneLease' /\ DropApart' /\ CallApart' /\ LateApart' /\ ExtendOwn'
  BY <1>1 DEF IInv, Apart, OneLease, DropApart, CallApart, LateApart, ExtendOwn, Asks
<1>6. AcquireFresh'
  <2> SUFFICES ASSUME NEW g \in Holders, Asks(g, "acquire"), NEW k \in Keys,
                      store'[k].token = call[g].cmd.token
               PROVE  k = call[g].cmd.key
    BY <1>1 DEF IInv, Apart, AcquireFresh, Asks, Target, PartitionKey, DriverKey
  <2>1. call[g].cmd \in Command /\ call[g].cmd.token \in Tokens
    BY CallFields, CommandFields DEF IInv, Asks
  <2>2. q.token # call[g].cmd.token
    BY DEF IInv, Apart, AcquireFresh
  <2>3. store[k].token = call[g].cmd.token
    BY <1>1, <1>2, <2>1, <2>2, TokenStays DEF IInv
  <2> QED
    BY <2>3 DEF IInv, Apart, AcquireFresh
<1>7. GrantStands'
  <2> SUFFICES ASSUME NEW g \in Holders, call[g] # NoCall, call[g].done,
                      call[g].ok, call[g].cmd.op # "release"
               PROVE  /\ store'[call[g].cmd.key].token = call[g].cmd.token
                      /\ store'[call[g].cmd.key].ttl + call[g].age >= TTL
    BY <1>1 DEF GrantStands
  <2>1. q.op = "release" => q.token # call[g].cmd.token
    <3>1. call[g].cmd.op \in {"acquire", "extend"}
      BY CallFields, CommandFields DEF IInv
    <3>2. CASE call[g].cmd.op = "acquire"
      BY <3>2 DEF IInv, Apart, AcquireFresh, Asks
    <3>3. CASE call[g].cmd.op = "extend"
      BY <3>3 DEF IInv, Apart, ExtendOwn, LateApart, Asks
    <3> QED
      BY <3>1, <3>2, <3>3
  <2> QED
    BY <1>1, <1>2, <2>1, GrantSurvives
<1> QED
  BY <1>3, <1>4, <1>5, <1>6, <1>7 DEF IInv, Apart

\* Calls, leases and releases that are forgotten cost the others nothing.
LEMMA ForgetInv ==
  ASSUME IInv, TypeOK', NEW h \in Holders, store' = store,
         \A g \in Holders :
           /\ call'[g] # NoCall => call'[g] = call[g]
           /\ g # h => lease'[g] = lease[g] /\ drop'[g] = drop[g]
           /\ lease'[g] \subseteq lease[g]
           /\ drop'[g] \subseteq drop[g],
         call'[h] = NoCall,
         late' = late \/ (call[h] # NoCall /\ late' = late \cup {call[h].cmd})
  PROVE  IInv'
<1>1. OneLease' /\ DropApart' /\ CallApart' /\ OneKey' /\ FreeSlots' /\ SureOwned'
  BY DEF IInv, Apart, OneLease, DropApart, CallApart, OneKey, FreeSlots, SureOwned
<1>2. ExtendOwn' /\ GrantStands'
  BY DEF IInv, Apart, ExtendOwn, Asks, GrantStands
<1>3. LateApart'
  BY DEF IInv, Apart, LateApart, CallApart
<1>4. AcquireFresh'
  <2> SUFFICES ASSUME NEW g \in Holders, Asks(g, "acquire"), g # h, call'[g] = call[g]
               PROVE  /\ call[g].cmd.key = Target(call[g].cmd)
                      /\ \A k \in Keys : store[k].token = call[g].cmd.token =>
                                           k = call[g].cmd.key
                      /\ \A f \in Holders :
                           /\ \A m \in drop'[f] : m.token # call[g].cmd.token
                           /\ f # g /\ call'[f] # NoCall =>
                                call'[f].cmd.token # call[g].cmd.token
                      /\ \A q \in late' : q.token # call[g].cmd.token
    BY DEF AcquireFresh, Asks
  <2> QED
    BY DEF IInv, Apart, AcquireFresh
<1> QED
  BY <1>1, <1>2, <1>3, <1>4 DEF IInv, Apart

\* The caller sees an error: nothing is known of the call any more, or its
\* command is still travelling.
LEMMA ErroredInv ==
  ASSUME IInv, NEW h \in Holders, ReplyLost(h) \/ GiveUp(h)
  PROVE  IInv'
<1>1. /\ call[h] # NoCall
      /\ call' = [call EXCEPT ![h] = NoCall]
      /\ want' = [want EXCEPT ![h] = {}]
      /\ UNCHANGED <<store, lease, drop>>
      /\ late' = late \/ late' = late \cup {call[h].cmd}
  BY DEF ReplyLost, GiveUp, Errored
<1>2. call[h].cmd \in Command
  BY <1>1, CallFields DEF IInv
<1>3. TypeOK'
  BY <1>1, <1>2 DEF IInv, TypeOK
<1>4. \A g \in Holders : g # h => call'[g] = call[g]
  BY <1>1 DEF IInv, TypeOK
<1>5. call'[h] = NoCall
  BY <1>1 DEF IInv, TypeOK
<1> QED
  BY <1>1, <1>3, <1>4, <1>5, ForgetInv

\* A holder dies.
LEMMA CrashInv ==
  ASSUME IInv, NEW h \in Holders, Crash(h)
  PROVE  IInv'
<1>1. TypeOK'
  BY DEF Crash, IInv, TypeOK
<1>2. /\ \A g \in Holders :
           /\ g # h => /\ call'[g] = call[g]
                       /\ lease'[g] = lease[g]
                       /\ drop'[g] = drop[g]
           /\ lease'[g] \subseteq lease[g]
           /\ drop'[g] \subseteq drop[g]
      /\ call'[h] = NoCall
  BY DEF Crash, IInv, TypeOK
<1> QED
  BY <1>1, <1>2, ForgetInv DEF Crash

\* A reply that grants nothing only ends the call.
LEMMA ReplyEmptyInv ==
  ASSUME IInv, NEW h \in Holders, call[h] # NoCall,
         call' = [call EXCEPT ![h] = NoCall], UNCHANGED <<store, lease, want, drop, late>>
  PROVE  IInv'
<1>1. TypeOK'
  BY DEF IInv, TypeOK
<1>2. \A g \in Holders : g # h => call'[g] = call[g]
  BY DEF IInv, TypeOK
<1>3. call'[h] = NoCall
  BY DEF IInv, TypeOK
<1> QED
  BY <1>1, <1>2, <1>3, ForgetInv

\* The reply arrives.  A granting one is no older than MaxReply, so Redis
\* keeps the lock for all but MaxReply of the TTL the holder now counts on.
LEMMA ReplyInv ==
  ASSUME IInv, NEW h \in Holders, Reply(h)
  PROVE  IInv'
<1> DEFINE q == call[h].cmd
           n == Granting(q)
<1>1. /\ call[h] # NoCall /\ call[h].done
      /\ call' = [call EXCEPT ![h] = NoCall]
      /\ UNCHANGED <<store, want, drop, late>>
      /\ lease' = IF q.op = "release" \/ ~call[h].ok THEN lease
                  ELSE [lease EXCEPT ![h] = {l \in @ : l.token # q.token} \cup {n}]
  BY DEF Reply
<1>2. CASE q.op = "release" \/ ~call[h].ok
  BY <1>1, <1>2, ReplyEmptyInv
<1>3. CASE q.op # "release" /\ call[h].ok
  <2>1. q \in Command /\ call[h].age \in 0..MaxReply
    BY <1>1, CallFields DEF IInv
  <2>2. /\ q.op \in {"acquire", "extend"} /\ q.key \in Keys
        /\ q.name \in Names /\ q.part \in BOOLEAN /\ q.token \in Tokens
    BY <1>3, <2>1, CommandFields
  <2>3. /\ n \in Lease /\ n.token = q.token /\ n.left = TTL
        /\ n.name = q.name /\ n.part = q.part
    <3>1. TTL \in 0..TTL
      BY LeaseAssumption
    <3> QED
      BY <2>2, <3>1 DEF Granting, Lease
  <2>4. /\ call'[h] = NoCall
        /\ \A g \in Holders : g # h => call'[g] = call[g]
        /\ lease' = [lease EXCEPT ![h] = {l \in @ : l.token # q.token} \cup {n}]
    BY <1>1, <1>3 DEF IInv, TypeOK
  <2> HIDE DEF n
  <2>5. /\ \A g \in Holders : g # h => lease'[g] = lease[g]
        /\ lease'[h] = {l \in lease[h] : l.token # q.token} \cup {n}
    BY <2>4 DEF IInv, TypeOK
  <2>6. TypeOK'
    BY <1>1, <2>3, <2>4 DEF IInv, TypeOK
  \* The lock Redis has for the token is the one the lease is about.
  <2>7. q.key = Locked(n)
    <3>1. store[q.key].token = q.token
      BY <1>1, <1>3 DEF IInv, GrantStands
    <3>2. CASE q.op = "acquire"
      BY <1>1, <2>3, <3>2 DEF IInv, Apart, AcquireFresh, Asks, Target, Locked
    <3>3. CASE q.op = "extend"
      <4>1. PICK l \in lease[h] : l.token = q.token
        BY <1>1, <3>3 DEF IInv, Apart, ExtendOwn, Asks
      <4>2. q.name = l.name /\ q.part = l.part
        BY <1>1, <4>1 DEF IInv, Apart, CallApart
      <4>3. q.key = Locked(l)
        BY <2>2, <3>1, <4>1 DEF IInv, Apart, OneKey
      <4> QED
        BY <2>3, <4>2, <4>3 DEF Locked
    <3> QED
      BY <2>2, <3>2, <3>3
  \* Nobody else has the token.
  <2>8. \A g \in Holders : g # h => \A l \in lease[g] : l.token # q.token
    BY <1>1 DEF IInv, Apart, CallApart
  <2>9. /\ \A g \in Holders : \A m \in drop[g] : m.token # q.token
        /\ \A g \in Holders : g # h /\ call[g] # NoCall => call[g].cmd.token # q.token
        /\ \A p \in late : p.token = q.token => p.op = "extend"
        /\ \A k \in Keys : store[k].token = q.token => k = Locked(n)
    <3>1. CASE q.op = "acquire"
      BY <1>1, <2>7, <3>1 DEF IInv, Apart, AcquireFresh, Asks
    <3>2. CASE q.op = "extend"
      <4>1. PICK l \in lease[h] : l.token = q.token
        BY <1>1, <3>2 DEF IInv, Apart, ExtendOwn, Asks
      <4>2. q.name = l.name /\ q.part = l.part
        BY <1>1, <4>1 DEF IInv, Apart, CallApart
      <4>3. Locked(n) = Locked(l)
        BY <2>3, <4>2 DEF Locked
      <4>4. \A k \in Keys : store[k].token = q.token => k = Locked(n)
        BY <4>1, <4>3 DEF IInv, Apart, OneKey
      <4>5. \A g \in Holders : \A m \in drop[g] : m.token # q.token
        BY <4>1 DEF IInv, Apart, DropApart
      <4>6. \A g \in Holders : g # h /\ call[g] # NoCall => call[g].cmd.token # q.token
        BY <4>1 DEF IInv, Apart, CallApart
      <4>7. \A p \in late : p.token = q.token => p.op = "extend"
        BY <4>1 DEF IInv, Apart, LateApart
      <4> QED
        BY <4>4, <4>5, <4>6, <4>7
    <3> QED
      BY <2>2, <3>1, <3>2
  <2>10. \A g \in Holders : \A l \in lease'[g] :
           \/ l \in lease[g] /\ l.token # q.token
           \/ g = h /\ l = n
    <3> SUFFICES ASSUME NEW g \in Holders, NEW l \in lease'[g]
                 PROVE  \/ l \in lease[g] /\ l.token # q.token
                        \/ g = h /\ l = n
      OBVIOUS
    <3> HIDE DEF q
    <3>1. CASE g = h
      BY <2>5, <3>1
    <3>2. CASE g # h
      BY <2>5, <2>8, <3>2
    <3> QED
      BY <3>1, <3>2
  <2>11. OneLease' /\ DropApart'
    BY <1>1, <2>3, <2>9, <2>10 DEF IInv, Apart, OneLease, DropApart
  <2>12. CallApart' /\ LateApart'
    BY <1>1, <2>3, <2>4, <2>9, <2>10 DEF IInv, Apart, CallApart, LateApart
  <2>13. OneKey'
    <3>1. \A g \in Holders : \A l \in lease'[g], k \in Keys :
            store[k].token = l.token => k = Locked(l)
      BY <2>3, <2>9, <2>10 DEF IInv, Apart, OneKey
    <3> QED
      BY <1>1, <3>1 DEF OneKey, Locked, PartitionKey, DriverKey
  <2>14. AcquireFresh'
    <3> SUFFICES ASSUME NEW g \in Holders, Asks(g, "acquire")'
                 PROVE  /\ call'[g].cmd.key = Target(call'[g].cmd)
                        /\ \A k \in Keys : store[k].token = call'[g].cmd.token =>
                                             k = call'[g].cmd.key
                        /\ \A f \in Holders :
                             /\ \A m \in drop[f] : m.token # call'[g].cmd.token
                             /\ f # g /\ call'[f] # NoCall =>
                                  call'[f].cmd.token # call'[g].cmd.token
                        /\ \A p \in late : p.token # call'[g].cmd.token
      BY <1>1 DEF AcquireFresh
    <3>1. call'[g] = call[g] /\ Asks(g, "acquire")
      BY <2>4 DEF Asks
    <3>2. \A f \in Holders : call'[f] # NoCall => call'[f] = call[f]
      BY <2>4
    <3> QED
      BY <3>1, <3>2 DEF IInv, Apart, AcquireFresh
  <2>15. ExtendOwn'
    BY <2>4, <2>5 DEF IInv, Apart, ExtendOwn, Asks
  <2>16. FreeSlots' /\ GrantStands'
    BY <1>1, <2>4 DEF IInv, FreeSlots, GrantStands
  <2>17. SureOwned'
    <3>1. /\ store[Locked(n)].token = n.token
          /\ store[Locked(n)].ttl + MaxReply >= n.left
      <4>1. /\ store[q.key].token = q.token
            /\ store[q.key].ttl + call[h].age >= TTL
        BY <1>1, <1>3 DEF IInv, GrantStands
      <4>2. store[q.key].ttl \in Nat
        BY <2>2 DEF IInv, TypeOK, Slot
      <4>3. store[q.key].ttl + MaxReply >= TTL
        BY <2>1, <4>1, <4>2, LeaseAssumption
      <4> QED
        BY <2>3, <2>7, <4>1, <4>3
    <3>2. \A g \in Holders : \A l \in lease'[g] : Sure(l) =>
            /\ store[Locked(l)].token = l.token
            /\ store[Locked(l)].ttl + MaxReply >= l.left
      BY <2>10, <3>1 DEF IInv, SureOwned
    <3> QED
      BY <1>1, <3>2 DEF SureOwned, Sure, Locked, PartitionKey, DriverKey
  <2> QED
    BY <2>6, <2>11, <2>12, <2>13, <2>14, <2>15, <2>16, <2>17 DEF IInv, Apart
<1> QED
  BY <1>2, <1>3

\* Time passes.  A lease that is still sure afterwards, and a grant still
\* travelling, have more than one tick left in Redis.
LEMMA TickInv ==
  ASSUME IInv, Tick
  PROVE  IInv'
<1> DEFINE Older(l) == [l EXCEPT !.left = Down(@)]
<1>1. \A l \in Lease : /\ Older(l) \in Lease
                       /\ Older(l).name = l.name /\ Older(l).part = l.part
                       /\ Older(l).token = l.token /\ Older(l).left = Down(l.left)
                       /\ Locked(Older(l)) = Locked(l)
  <2> SUFFICES ASSUME NEW l \in Lease
               PROVE  /\ Older(l) \in Lease
                      /\ Older(l).name = l.name /\ Older(l).part = l.part
                      /\ Older(l).token = l.token /\ Older(l).left = Down(l.left)
                      /\ Locked(Older(l)) = Locked(l)
    OBVIOUS
  <2>1. l.left \in 0..TTL
    BY LeaseFields
  <2>2. Down(l.left) \in 0..TTL
    BY <2>1, LeaseAssumption DEF Down
  <2> QED
    BY <2>2 DEF Lease, Locked
<1>2. /\ lease' = [h \in Holders |-> {Older(l) : l \in lease[h]}]
      /\ drop' = [h \in Holders |-> {Older(l) : l \in drop[h]}]
      /\ want' = want /\ late' = late
  BY DEF Tick
<1> HIDE DEF Older
<1>3. \A h \in Holders : /\ lease[h] \subseteq Lease /\ drop[h] \subseteq Lease
                         /\ lease'[h] = {Older(l) : l \in lease[h]}
                         /\ drop'[h] = {Older(l) : l \in drop[h]}
  BY <1>2 DEF IInv, TypeOK
\* Every lease, and every lease on its way out, has the same lock as before.
<1>4. \A h \in Holders : \A m \in lease'[h] : \E l \in lease[h] :
        /\ m = Older(l) /\ l \in Lease /\ m \in Lease /\ m.name = l.name /\ m.part = l.part
        /\ m.token = l.token /\ m.left = Down(l.left) /\ Locked(m) = Locked(l)
  BY <1>1, <1>3
<1>5. \A h \in Holders : \A m \in drop'[h] : \E l \in drop[h] :
        m \in Lease /\ m.token = l.token
  BY <1>1, <1>3
<1>6. \A h \in Holders : \A l \in lease[h] : Older(l) \in lease'[h] /\ Older(l).token = l.token
  BY <1>1, <1>3
<1>7. /\ call' \in [Holders -> Call \cup {NoCall}]
      /\ \A h \in Holders :
           /\ call'[h] = NoCall <=> call[h] = NoCall
           /\ call[h] # NoCall =>
                /\ call'[h].cmd = call[h].cmd /\ call'[h].done = call[h].done
                /\ call'[h].ok = call[h].ok
                /\ call[h].done => call'[h].age = call[h].age + 1
  <2>1. ASSUME NEW h \in Holders
        PROVE  /\ call'[h] \in Call \cup {NoCall}
               /\ call'[h] = NoCall <=> call[h] = NoCall
               /\ call[h] # NoCall =>
                    /\ call'[h].cmd = call[h].cmd /\ call'[h].done = call[h].done
                    /\ call'[h].ok = call[h].ok
                    /\ call[h].done => call'[h].age = call[h].age + 1
    <3>1. CASE call[h] # NoCall /\ call[h].done
      <4>1. call'[h] = [call[h] EXCEPT !.age = @ + 1]
        BY <3>1 DEF Tick
      <4>2. call[h] \in Call /\ call[h].age \in 0..MaxReply
        BY <3>1, CallFields DEF IInv
      <4>3. call[h].age < MaxReply
        BY <3>1 DEF Tick
      <4>4. call[h].age + 1 \in 0..MaxReply
        BY <4>2, <4>3, LeaseAssumption
      <4>5. /\ call'[h] \in Call
            /\ call'[h].cmd = call[h].cmd /\ call'[h].done = call[h].done
            /\ call'[h].ok = call[h].ok /\ call'[h].age = call[h].age + 1
        BY <4>1, <4>2, <4>4 DEF Call
      <4> QED
        BY <3>1, <4>5, NoCallAssumption
    <3>2. CASE ~(call[h] # NoCall /\ call[h].done)
      <4>1. call'[h] = call[h]
        BY <3>2 DEF Tick
      <4> QED
        BY <3>2, <4>1 DEF IInv, TypeOK
    <3> QED
      BY <3>1, <3>2
  <2>2. call' = [h \in Holders |-> call'[h]]
    <3>1. call' = [h \in Holders |->
                IF call[h] # NoCall /\ call[h].done
                THEN [call[h] EXCEPT !.age = @ + 1] ELSE call[h]]
      BY DEF Tick
    <3> QED
      BY <3>1
  <2> QED
    BY <2>1, <2>2
<1>8. /\ store' \in [Keys -> Slot]
      /\ \A k \in Keys :
           IF store[k].ttl = 1 THEN store'[k].token = NoToken /\ store'[k].ttl = 0
           ELSE store'[k].token = store[k].token /\ store'[k].ttl = Down(store[k].ttl)
  <2>1. \A k \in Keys : /\ store[k] \in Slot
                        /\ store[k].ttl \in 0..TTL /\ store[k].token \in Tokens \cup {NoToken}
    BY DEF IInv, TypeOK, Slot
  <2>2. store' = [k \in Keys |->
                 IF store[k].ttl = 1 THEN Free
                 ELSE [store[k] EXCEPT !.ttl = Down(@)]]
    BY DEF Tick
  <2>3. ASSUME NEW k \in Keys
        PROVE  /\ store'[k] \in Slot
               /\ IF store[k].ttl = 1 THEN store'[k].token = NoToken /\ store'[k].ttl = 0
                  ELSE store'[k].token = store[k].token /\ store'[k].ttl = Down(store[k].ttl)
    <3>1. CASE store[k].ttl = 1
      <4>1. 0 \in 0..TTL
        BY LeaseAssumption
      <4> QED
        BY <2>2, <3>1, <4>1 DEF Free, Slot
    <3>2. CASE store[k].ttl # 1
      <4>1. Down(store[k].ttl) \in 0..TTL
        BY <2>1, LeaseAssumption DEF Down
      <4>2. store'[k] = [store[k] EXCEPT !.ttl = Down(store[k].ttl)]
        BY <2>2, <3>2
      <4> QED
        BY <2>1, <3>2, <4>1, <4>2 DEF Slot
    <3> QED
      BY <3>1, <3>2
  <2> QED
    BY <2>2, <2>3
<1>9. \A k \in Keys : store'[k].token = NoToken \/ store'[k].token = store[k].token
  BY <1>8
<1>10. TypeOK'
  BY <1>2, <1>3, <1>4, <1>5, <1>7, <1>8 DEF IInv, TypeOK
<1>11. OneLease'
  <2> SUFFICES ASSUME NEW g \in Holders, NEW h \in Holders,
                      NEW l \in lease'[g], NEW m \in lease'[h], l.token = m.token
               PROVE  g = h /\ l = m
    BY DEF OneLease
  <2>1. PICK l0 \in lease[g] : l = Older(l0) /\ l.token = l0.token
    BY <1>4
  <2>2. PICK m0 \in lease[h] : m = Older(m0) /\ m.token = m0.token
    BY <1>4
  <2> QED
    BY <2>1, <2>2 DEF IInv, Apart, OneLease
<1>12. DropApart'
  BY <1>4, <1>5 DEF IInv, Apart, DropApart
<1>13. CallApart'
  <2> SUFFICES ASSUME NEW g \in Holders, NEW h \in Holders, NEW m \in lease'[g],
                      call'[h] # NoCall, call'[h].cmd.token = m.token
               PROVE  /\ call'[h].cmd.op = "extend" /\ g = h
                      /\ call'[h].cmd.name = m.name /\ call'[h].cmd.part = m.part
    BY DEF CallApart
  <2>1. PICK l \in lease[g] : m.name = l.name /\ m.part = l.part /\ m.token = l.token
    BY <1>4
  <2>2. call[h] # NoCall /\ call'[h].cmd = call[h].cmd
    BY <1>7
  <2> QED
    BY <2>1, <2>2 DEF IInv, Apart, CallApart
<1>14. LateApart'
  BY <1>2, <1>4 DEF IInv, Apart, LateApart
<1>15. AcquireFresh'
  <2> SUFFICES ASSUME NEW g \in Holders, Asks(g, "acquire")'
               PROVE  /\ call'[g].cmd.key = Target(call'[g].cmd)
                      /\ \A k \in Keys : store'[k].token = call'[g].cmd.token =>
                                           k = call'[g].cmd.key
                      /\ \A f \in Holders :
                           /\ \A m \in drop'[f] : m.token # call'[g].cmd.token
                           /\ f # g /\ call'[f] # NoCall =>
                                call'[f].cmd.token # call'[g].cmd.token
                      /\ \A p \in late : p.token # call'[g].cmd.token
    BY <1>2 DEF AcquireFresh
  <2>1. call'[g].cmd = call[g].cmd /\ call[g] # NoCall /\ Asks(g, "acquire")
    BY <1>7 DEF Asks
  <2>2. call[g].cmd.token # NoToken
    BY <2>1, CallFields, CommandFields, LeaseAssumption DEF IInv
  <2>3. \A f \in Holders : call'[f] # NoCall => call[f] # NoCall /\ call'[f].cmd = call[f].cmd
    BY <1>7
  <2>4. \A k \in Keys : store'[k].token = call[g].cmd.token => store[k].token = call[g].cmd.token
    BY <1>9, <2>2
  <2>5. \A f \in Holders : \A m \in drop'[f] : \E l \in drop[f] : m.token = l.token
    BY <1>5
  <2> QED
    BY <2>1, <2>3, <2>4, <2>5 DEF IInv, Apart, AcquireFresh
<1>16. ExtendOwn'
  <2> SUFFICES ASSUME NEW h \in Holders, Asks(h, "extend")'
               PROVE  \E m \in lease'[h] : m.token = call'[h].cmd.token
    BY DEF ExtendOwn
  <2>1. Asks(h, "extend") /\ call'[h].cmd = call[h].cmd
    BY <1>7 DEF Asks
  <2>2. PICK l \in lease[h] : l.token = call[h].cmd.token
    BY <2>1 DEF IInv, Apart, ExtendOwn
  <2> QED
    BY <1>6, <2>1, <2>2
<1>17. OneKey'
  <2> SUFFICES ASSUME NEW g \in Holders, NEW m \in lease'[g], NEW k \in Keys,
                      store'[k].token = m.token
               PROVE  k = Locked(m)
    BY DEF OneKey, Locked, PartitionKey, DriverKey
  <2>1. PICK l \in lease[g] : l \in Lease /\ m.token = l.token /\ Locked(m) = Locked(l)
    BY <1>4
  <2>2. l.token # NoToken
    BY <2>1, LeaseFields, LeaseAssumption
  <2>3. store[k].token = l.token
    BY <1>9, <2>1, <2>2
  <2> QED
    BY <2>1, <2>3 DEF IInv, Apart, OneKey
<1>18. FreeSlots'
  <2>1. \A k \in Keys : store[k].ttl \in 0..TTL
    BY DEF IInv, TypeOK, Slot
  <2> QED
    BY <1>8, <2>1 DEF IInv, FreeSlots, Down
<1>19. SureOwned'
  <2> SUFFICES ASSUME NEW g \in Holders, NEW m \in lease'[g], Sure(m)
               PROVE  /\ store'[Locked(m)].token = m.token
                      /\ store'[Locked(m)].ttl + MaxReply >= m.left
    BY DEF SureOwned, Sure, Locked, PartitionKey, DriverKey
  <2>1. PICK l \in lease[g] : /\ l \in Lease /\ m.token = l.token
                              /\ m.left = Down(l.left) /\ Locked(m) = Locked(l)
    BY <1>4
  <2>2. l.left \in 0..TTL /\ Locked(l) \in Keys
    BY <2>1, LeaseFields
  <2>3. l.left > MaxReply + 1 /\ m.left = l.left - 1
    BY <2>1, <2>2, LeaseAssumption DEF Sure, Down
  <2>4. Sure(l)
    BY <2>2, <2>3, LeaseAssumption DEF Sure
  <2>5. store[Locked(l)].token = l.token /\ store[Locked(l)].ttl + MaxReply >= l.left
    BY <2>4 DEF IInv, SureOwned
  <2>6. store[Locked(l)].ttl \in 0..TTL
    BY <2>2 DEF IInv, TypeOK, Slot
  <2>7. store[Locked(l)].ttl > 1 /\ Down(store[Locked(l)].ttl) = store[Locked(l)].ttl - 1
    BY <2>2, <2>3, <2>5, <2>6, LeaseAssumption DEF Down
  <2>8. store'[Locked(l)].token = l.token /\ store'[Locked(l)].ttl = store[Locked(l)].ttl - 1
    BY <1>8, <2>2, <2>5, <2>6, <2>7
  <2>9. store'[Locked(l)].ttl + MaxReply >= l.left - 1
    BY <2>2, <2>5, <2>6, <2>8, LeaseAssumption
  <2> QED
    BY <2>1, <2>3, <2>8, <2>9
<1>20. GrantStands'
  <2> SUFFICES ASSUME NEW h \in Holders, call'[h] # NoCall, call'[h].done, call'[h].ok,
                      call'[h].cmd.op # "release"
               PROVE  /\ store'[call'[h].cmd.key].token = call'[h].cmd.token
                      /\ store'[call'[h].cmd.key].ttl + call'[h].age >= TTL
    BY DEF GrantStands
  <2>1. /\ call[h] # NoCall /\ call[h].done /\ call[h].ok /\ call'[h].cmd = call[h].cmd
        /\ call'[h].age = call[h].age + 1
    BY <1>7
  <2>2. call[h].age < MaxReply
    BY <2>1 DEF Tick
  <2>3. call[h].age \in 0..MaxReply /\ call[h].cmd.key \in Keys
    BY <2>1, CallFields, CommandFields DEF IInv
  <2> DEFINE k == call[h].cmd.key
  <2>4. store[k].token = call[h].cmd.token /\ store[k].ttl + call[h].age >= TTL
    BY <2>1 DEF IInv, GrantStands
  <2>5. store[k].ttl \in 0..TTL
    BY <2>3 DEF IInv, TypeOK, Slot
  <2>6. store[k].ttl > 1 /\ Down(store[k].ttl) = store[k].ttl - 1
    BY <2>2, <2>3, <2>4, <2>5, LeaseAssumption DEF Down
  <2>7. store'[k].token = store[k].token /\ store'[k].ttl = store[k].ttl - 1
    BY <1>8, <2>3, <2>5, <2>6
  <2>8. store'[k].ttl + (call[h].age + 1) >= TTL
    BY <2>3, <2>4, <2>5, <2>7, LeaseAssumption
  <2> QED
    BY <2>1, <2>4, <2>7, <2>8
<1> QED
  BY <1>10, <1>11, <1>12, <1>13, <1>14, <1>15, <1>16, <1>17, <1>18, <1>19, <1>20
     DEF IInv, Apart

-----------------------------------------------------------------------------
(* Theorems *)

\* Before the first call Redis has no locks and nobody has leases.
LEMMA InitInv == Init => IInv
<1> SUFFICES ASSUME Init PROVE IInv
  OBVIOUS
<1>1. Free \in Slot
  BY LeaseAssumption DEF Free, Slot
<1>2. TypeOK
  BY <1>1 DEF Init, TypeOK
<1>3. Apart
  BY DEF Init, Apart, OneLease, DropApart, CallApart, LateApart, AcquireFresh,
         ExtendOwn, OneKey, Asks
<1>4. FreeSlots /\ SureOwned /\ GrantStands
  BY DEF Init, FreeSlots, Free, SureOwned, GrantStands
<1> QED
  BY <1>2, <1>3, <1>4 DEF IInv

\* Every step preserves the invariant.
LEMMA NextInv == IInv /\ [Next]_vars => IInv'
<1> SUFFICES ASSUME IInv, [Next]_vars PROVE IInv'
  OBVIOUS
<1>1. ASSUME NEW h \in Holders, NEW W \in SUBSET Drivers, AcquireMany(h, W)
      PROVE  IInv'
  <2>1. want' \in [Holders -> SUBSET Drivers]
    BY <1>1 DEF AcquireMany, IInv, TypeOK
  <2> QED
    BY <1>1, <2>1, WantInv DEF AcquireMany
<1>2. ASSUME NEW h \in Holders, NEW p \in Partitions, AcquirePartition(h, p)
      PROVE  IInv'
  BY <1>2, AcquirePartitionInv
<1>3. ASSUME NEW h \in Holders, NEW l \in lease[h], Extend(h, l)
      PROVE  IInv'
  BY <1>3, ExtendInv
<1>4. ASSUME NEW h \in Holders, NEW l \in lease[h], ReleasePartition(h, l)
      PROVE  IInv'
  BY <1>4, ReleasePartitionInv
<1>5. ASSUME NEW h \in Holders, NEW S \in SUBSET lease[h], ReleaseMany(h, S)
      PROVE  IInv'
  BY <1>5, ReleaseManyInv
<1>6. ASSUME NEW h \in Holders, HolderStep(h)
      PROVE  IInv'
  BY <1>6, AcquireInv, ReleaseInv, ExecInv, ReplyInv, ErroredInv DEF HolderStep
<1>7. ASSUME NEW h \in Holders, Crash(h)
      PROVE  IInv'
  BY <1>7, CrashInv
<1>8. ASSUME NEW q \in late, LateExec(q)
      PROVE  IInv'
  BY <1>8, LateExecInv
<1>9. CASE Tick
  BY <1>9, TickInv
<1>10. CASE UNCHANGED vars
  <2>1. want' \in [Holders -> SUBSET Drivers]
    BY <1>10 DEF vars, IInv, TypeOK
  <2> QED
    BY <1>10, <2>1, WantInv DEF vars
<1> QED
  BY <1>1, <1>2, <1>3, <1>4, <1>5, <1>6, <1>7, <1>8, <1>9, <1>10 DEF Next

\* The inductive invariant holds in every reachable state.
THEOREM Invariance == Spec => []IInv
BY InitInv, NextInv, PTL DEF Spec

\* Locks, leases, calls and late commands always have their types: no key ever
\* has a longer time to live than the TTL it is granted for.
THEOREM LeaseTypes == Spec => []TypeOK
BY Invariance, PTL DEF IInv

\* Two holders are never both sure of one driver or partition, for any number
\* of holders and late commands, any TTL and any shorter reply time.
THEOREM MutualExclusion == Spec => []SafeMargin
<1>1. IInv => SafeMargin
  <2> SUFFICES ASSUME IInv, NEW g \in Holders, NEW h \in Holders,
                      NEW l \in lease[g], NEW m \in lease[h],
                      Locked(l) = Locked(m), Sure(l), Sure(m)
               PROVE  g = h /\ l.token = m.token
    BY DEF SafeMargin
  <2>1. l.token = m.token
    BY DEF IInv, SureOwned
  <2> QED
    BY <2>1 DEF IInv, Apart, OneLease
<1> QED
  BY <1>1, Invariance, PTL

\* No stalled or crashed holder's command removes or replaces the lock of
\* another: until it expires, only a command with its token takes it away.
THEOREM Fencing == Spec => Fenced
<1> DEFINE Kept(k) ==
      store[k].ttl > 1 /\ store'[k].token # store[k].token =>
        \/ \E h \in Holders : call[h] # NoCall /\ call[h].cmd.token = store[k].token
        \/ \E q \in late : q.token = store[k].token
<1>1. ASSUME TypeOK, NEW k \in Keys, NEW q \in Command, Effect(q), FreeSlots,
             store[k].ttl > 1, store'[k].token # store[k].token
      PROVE  q.token = store[k].token
  <2>1. store[k].token # NoToken
    BY <1>1 DEF FreeSlots
  <2> QED
    BY <1>1, <2>1, EffectStep
<1>2. IInv /\ [Next]_vars => [\A k \in Keys : Kept(k)]_vars
  <2> SUFFICES ASSUME IInv, Next, NEW k \in Keys, store[k].ttl > 1,
                      store'[k].token # store[k].token
               PROVE  \/ \E h \in Holders : call[h] # NoCall /\ call[h].cmd.token = store[k].token
                      \/ \E q \in late : q.token = store[k].token
    BY DEF vars
  <2>1. ASSUME NEW h \in Holders, Exec(h)
        PROVE  call[h] # NoCall /\ call[h].cmd.token = store[k].token
    <3>1. call[h] # NoCall /\ call[h].cmd \in Command /\ Effect(call[h].cmd)
      BY <2>1, CallFields DEF Exec, IInv
    <3> QED
      BY <1>1, <3>1 DEF IInv
  <2>2. ASSUME NEW q \in late, LateExec(q)
        PROVE  q.token = store[k].token
    <3>1. q \in Command /\ Effect(q)
      BY <2>2 DEF LateExec, IInv, TypeOK
    <3> QED
      BY <1>1, <3>1 DEF IInv
  <2>3. ~Tick
    <3>1. ASSUME Tick PROVE store'[k].token = store[k].token
      <4>1. store[k].ttl # 1 /\ store[k] \in Slot
        BY DEF IInv, TypeOK, Slot
      <4>2. store'[k] = [store[k] EXCEPT !.ttl = Down(store[k].ttl)]
        BY <3>1, <4>1 DEF Tick
      <4> QED
        BY <4>1, <4>2 DEF Slot
    <3> QED
      BY <3>1
  <2>4. store' # store
    OBVIOUS
  <2>5. \/ \E h \in Holders : Exec(h)
        \/ \E q \in late : LateExec(q)
    BY <2>3, <2>4 DEF Next, HolderStep, AcquireMany, AcquirePartition, Extend,
       ReleasePartition, ReleaseMany, Acquire, Release, Reply, ReplyLost, GiveUp,
       Errored, Crash
  <2> QED
    BY <2>1, <2>2, <2>5
<1> QED
  BY <1>2, Invariance, PTL DEF Spec, Fenced
=============================================================================
