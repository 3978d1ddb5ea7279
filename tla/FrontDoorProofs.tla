-------------------------- MODULE FrontDoorProofs --------------------------
(***************************************************************************)
(* Proofs about ApiKeys and FrontDoor, for any number of keys, operators   *)
(* and clients, any rate limit, window and overlap.                        *)
(***************************************************************************)
EXTENDS FrontDoor, FiniteSetTheorems, TLAPS

-----------------------------------------------------------------------------
(* Keys: the inductive invariant *)

Step ==
  [at : {"idle", "mint", "link", "retire", "revoke"}, key : KeyIds \cup {None},
   old : Records, ttl : Int, fresh : KeyIds \cup {None}, freshKey : Records]

KeyTypes ==
  /\ now \in 1..MaxTime
  /\ rec \in [KeyIds -> Records] /\ listed \subseteq KeyIds
  /\ command \in [Operators -> Step]
  /\ work \in 0..MaxWork /\ faults \in 0..MaxFaults
  /\ held \in [KeyIds -> Times] /\ killed \subseteq KeyIds
  /\ cut \subseteq KeyIds

\* An id that was never saved has no predecessor.
BlankRecords == \A k \in KeyIds : ~rec[k].exists => rec[k].from = None

Minting(o) == command[o].at \in {"link", "retire"}

\* What a rotation relies on while other commands run: its replacement is its
\* own, listed, not linked before it says so and to its old key after, and the
\* predecessor it read of the old key is still that key's.
RotationsOwn ==
  \A o \in Operators :
    /\ command[o].at # "idle" => command[o].key \in KeyIds
    /\ Minting(o) => command[o].fresh \in listed
    /\ command[o].at = "link" =>
         rec[command[o].fresh].from = None /\ command[o].freshKey.rev = 0
    /\ command[o].at = "retire" => rec[command[o].fresh].from = command[o].key
    /\ command[o].at # "idle" /\ command[o].old.from # None =>
         rec[command[o].key].from = command[o].old.from

FreshDistinct ==
  \A o, p \in Operators :
    o # p /\ Minting(o) /\ Minting(p) => command[o].fresh # command[p].fresh

\* A key with an end that nobody forced on it has a successor, in its holder's
\* hands for the overlap before that end.
Succeeds(f, k) == rec[f].from = k /\ held[f] # 0 /\ held[f] + Overlap <= rec[k].rev

OverlapAhead ==
  \A k \in KeyIds : k \notin cut /\ rec[k].rev # 0 => \E f \in KeyIds : Succeeds(f, k)

\* A revocation that was reported stays in the record, whatever is saved over it,
\* and is never put off by more than an overlap.
KilledRevoked == \A k \in killed : rec[k].rev # 0 /\ rec[k].rev <= now + Overlap

KInv ==
  /\ KeyTypes
  /\ BlankRecords
  /\ RotationsOwn
  /\ FreshDistinct
  /\ HeldListed
  /\ OverlapAhead
  /\ KilledRevoked

-----------------------------------------------------------------------------
(* Facts about sets and records *)

\* Adding a new element to a finite set adds one to its size.
LEMMA CountIn ==
  ASSUME NEW S, IsFiniteSet(S), NEW x, x \notin S
  PROVE  IsFiniteSet(S \cup {x}) /\ Cardinality(S \cup {x}) = Cardinality(S) + 1
BY FS_AddElement

\* Removing an element of a finite set takes one off its size.
LEMMA CountOut ==
  ASSUME NEW S, IsFiniteSet(S), NEW x \in S
  PROVE  IsFiniteSet(S \ {x}) /\ Cardinality(S \ {x}) = Cardinality(S) - 1
BY FS_RemoveElement

\* An absent key is a blank record, and a keyadmin that does nothing is idle.
LEMMA RecordTypes ==
  /\ NoRecord \in Records
  /\ Idle \in Step /\ Idle.at = "idle"
BY ApiKeysAssumption DEF NoRecord, Records, Idle, Step

\* A minted key is a record without revocation and predecessor.
LEMMA MintedType ==
  ASSUME KeyTypes, NEW ttl \in Int
  PROVE  Minted(ttl) \in Records /\ Minted(ttl).rev = 0 /\ Minted(ttl).from = None
BY DEF KeyTypes, Minted, Records

\* What save leaves of a record: a predecessor that is not given is kept, and so
\* is the time of revocation.
LEMMA SavedType ==
  ASSUME NEW stored \in Records, NEW key \in Records
  PROVE  /\ Saved(stored, key) \in Records
         /\ Saved(stored, key).exists
         /\ key.from = None \/ key.from = stored.from =>
              Saved(stored, key).from = stored.from
         /\ key.from # None => Saved(stored, key).from = key.from
         /\ key.rev = 0 => Saved(stored, key).rev = stored.rev
         /\ key.rev # 0 => Saved(stored, key).rev = key.rev
BY DEF Saved, Records

\* save, whatever way it ends.
LEMMA SaveEffect ==
  ASSUME KeyTypes, NEW k \in KeyIds, NEW key \in Records, NEW out \in Outcomes,
         save(k, key, out)
  PROVE  /\ rec' \in [KeyIds -> Records]
         /\ \A x \in KeyIds \ {k} : rec'[x] = rec[x]
         /\ out = "none" => rec' = rec
         /\ out # "none" => rec'[k] = Saved(rec[k], key)
         /\ listed' \subseteq KeyIds /\ listed \subseteq listed'
         /\ out = "done" => k \in listed'
         /\ faults' \in 0..MaxFaults /\ faults' \in {faults, faults + 1}
<1>1. Saved(rec[k], key) \in Records
  BY SavedType DEF KeyTypes
<1>2. rec' = IF out = "none" THEN rec ELSE [rec EXCEPT ![k] = Saved(rec[k], key)]
  BY DEF save
<1>3. listed' = IF out \in {"done", "lost"} THEN listed \cup {k} ELSE listed
  BY DEF save
<1>4. faults' \in 0..MaxFaults /\ faults' \in {faults, faults + 1}
  BY ApiKeysAssumption DEF save, MayFail, KeyTypes
<1> HIDE DEF save
<1>5. /\ rec' \in [KeyIds -> Records]
      /\ \A x \in KeyIds \ {k} : rec'[x] = rec[x]
      /\ out # "none" => rec'[k] = Saved(rec[k], key)
  BY <1>1, <1>2 DEF KeyTypes
<1> QED
  BY <1>2, <1>3, <1>4, <1>5 DEF KeyTypes

\* A command's step moves that operator's command alone.
LEMMA DoStep ==
  ASSUME KeyTypes, NEW o \in Operators, NEW s \in Step, Do(o, s)
  PROVE  /\ command' \in [Operators -> Step] /\ command'[o] = s
         /\ \A p \in Operators \ {o} : command'[p] = command[p]
BY DEF Do, KeyTypes

-----------------------------------------------------------------------------
(* Keys: the commands *)

\* What the requests see of a step of keyadmin.
KeyEffect ==
  /\ now' = now /\ work' \in {work, work + 1} /\ faults' \in {faults, faults + 1}
  /\ held' \in [KeyIds -> Times]

\* Start, and the bound on commands.
LEMMA StartEffect ==
  ASSUME KeyTypes, Start
  PROVE  work' = work + 1 /\ work' \in 0..MaxWork
BY ApiKeysAssumption DEF KeyTypes, Start

\* Create keeps the invariant of the keys, whatever becomes of its call.
LEMMA CreateInv ==
  ASSUME KInv, NEW o \in Operators, NEW k \in KeyIds, NEW ttl \in Lifetimes,
         NEW out \in Outcomes, Create(o, k, ttl, out)
  PROVE  KInv' /\ KeyEffect
<1>0. KeyTypes /\ ttl \in Int /\ save(k, Minted(ttl), out) /\ Unused(k)
      /\ UNCHANGED <<now, command, killed, cut>>
      /\ held' = IF out = "done" THEN [held EXCEPT ![k] = now] ELSE held
  BY ApiKeysAssumption DEF KInv, Create, Succeeded
<1>1. /\ Minted(ttl) \in Records /\ Minted(ttl).rev = 0 /\ Minted(ttl).from = None
  BY <1>0, MintedType
<1>2. /\ rec' \in [KeyIds -> Records]
      /\ \A x \in KeyIds \ {k} : rec'[x] = rec[x]
      /\ rec'[k] \in {rec[k], Saved(rec[k], Minted(ttl))}
      /\ listed' \subseteq KeyIds /\ listed \subseteq listed'
      /\ out = "done" => k \in listed'
      /\ faults' \in 0..MaxFaults /\ faults' \in {faults, faults + 1}
  BY <1>0, <1>1, SaveEffect
<1>3. \A x \in KeyIds : /\ rec'[x].from = rec[x].from /\ rec'[x].rev = rec[x].rev
                        /\ rec[x].exists => rec'[x].exists
  BY <1>0, <1>1, <1>2, SavedType DEF KeyTypes
<1>4. work' = work + 1 /\ work' \in 0..MaxWork
  BY <1>0, StartEffect DEF Create
<1>5. /\ ~rec[k].exists /\ rec[k].from = None
      /\ \A p \in Operators : command[p].fresh # k
  BY <1>0 DEF Unused, KInv, BlankRecords
<1>6. held' \in [KeyIds -> Times] /\ \A x \in KeyIds \ {k} : held'[x] = held[x]
  BY <1>0 DEF KeyTypes, Times
<1>7. KeyTypes'
  BY <1>0, <1>2, <1>4, <1>6 DEF KeyTypes
<1>8. BlankRecords' /\ KilledRevoked'
  BY <1>0, <1>2, <1>3 DEF KInv, BlankRecords, KilledRevoked, KeyTypes
<1>9. RotationsOwn' /\ FreshDistinct'
  BY <1>0, <1>2, <1>3 DEF KInv, RotationsOwn, FreshDistinct, Minting, KeyTypes
<1>10. HeldListed'
  BY <1>0, <1>2, <1>6 DEF KInv, HeldListed
<1>11. OverlapAhead'
  <2> SUFFICES ASSUME NEW x \in KeyIds, x \notin cut, rec[x].rev # 0
               PROVE  \E f \in KeyIds : Succeeds(f, x)'
    BY <1>0, <1>3 DEF OverlapAhead
  <2> PICK f \in KeyIds : Succeeds(f, x)
    BY DEF KInv, OverlapAhead
  <2>1. f # k
    BY <1>5, ApiKeysAssumption DEF Succeeds
  <2> QED
    BY <1>3, <1>6, <2>1 DEF Succeeds
<1> QED
  BY <1>0, <1>2, <1>3, <1>4, <1>6, <1>7, <1>8, <1>9, <1>10, <1>11
  DEF KInv, KeyEffect, KeyTypes

\* Rotate's and Revoke's first call: a command starts that has only read.
LEMMA BeginInv ==
  ASSUME KInv, NEW o \in Operators, NEW k \in KeyIds,
         RotateLookup(o, k) \/ RevokeExists(o, k)
  PROVE  KInv' /\ KeyEffect
<1>0. KeyTypes /\ command[o] = Idle /\ UNCHANGED <<now, rec, listed, faults, held, killed, cut>>
  BY DEF KInv, RotateLookup, RevokeExists
<1>1. work' = work + 1 /\ work' \in 0..MaxWork
  BY <1>0, StartEffect DEF RotateLookup, RevokeExists
<1>2. PICK s \in Step : /\ Do(o, s) /\ s.at \in {"mint", "revoke"} /\ s.key = k
                         /\ s.old \in {NoRecord, rec[k]}
  <2>1. CASE RotateLookup(o, k)
    <3> DEFINE old == Fetched(k)
               ttl == IF Fetched(k).exp # 0 THEN Fetched(k).exp - now ELSE 0
               s == [Idle EXCEPT !.at = "mint", !.key = k, !.old = old, !.ttl = ttl]
    <3>0. old = rec[k] /\ old \in Records /\ ttl \in Int
      BY <1>0 DEF KeyTypes, Records, Fetched
    <3>1. s \in Step /\ s.at = "mint" /\ s.key = k /\ s.old = rec[k]
      <4> HIDE DEF old, ttl
      <4> QED
        BY <3>0, RecordTypes DEF Step
    <3>2. Do(o, s)
      BY <2>1 DEF RotateLookup
    <3> HIDE DEF s
    <3> QED
      BY <3>1, <3>2
  <2>2. CASE RevokeExists(o, k)
    <3> DEFINE s == [Idle EXCEPT !.at = "revoke", !.key = k]
    <3>1. s \in Step /\ s.at = "revoke" /\ s.key = k /\ s.old = NoRecord
      BY <1>0, RecordTypes DEF Idle, Step
    <3>2. Do(o, s)
      BY <2>2 DEF RevokeExists
    <3> HIDE DEF s
    <3> QED
      BY <3>1, <3>2
  <2> QED
    BY <2>1, <2>2
<1>3. /\ command' \in [Operators -> Step] /\ command'[o] = s
      /\ \A p \in Operators \ {o} : command'[p] = command[p]
  BY <1>0, <1>2, DoStep, RecordTypes
<1>4. KeyTypes'
  BY <1>0, <1>1, <1>3 DEF KeyTypes
<1>5. BlankRecords' /\ KilledRevoked' /\ HeldListed'
  BY <1>0 DEF KInv, BlankRecords, KilledRevoked, HeldListed
<1>6. RotationsOwn'
  <2> SUFFICES ASSUME NEW p \in Operators
               PROVE  /\ command'[p].at # "idle" => command'[p].key \in KeyIds
                      /\ Minting(p)' => command'[p].fresh \in listed
                      /\ command'[p].at = "link" => rec[command'[p].fresh].from = None
                                                    /\ command'[p].freshKey.rev = 0
                      /\ command'[p].at = "retire" =>
                           rec[command'[p].fresh].from = command'[p].key
                      /\ command'[p].at # "idle" /\ command'[p].old.from # None =>
                           rec[command'[p].key].from = command'[p].old.from
    BY <1>0 DEF RotationsOwn
  <2>1. CASE p = o
    BY <1>2, <1>3, <2>1 DEF Minting, NoRecord
  <2>2. CASE p # o
    BY <1>3, <2>2 DEF KInv, RotationsOwn, Minting
  <2> QED
    BY <2>1, <2>2
<1>7. FreshDistinct'
  BY <1>2, <1>3 DEF KInv, FreshDistinct, Minting
<1>8. OverlapAhead'
  BY <1>0 DEF KInv, OverlapAhead, Succeeds
<1> QED
  BY <1>0, <1>1, <1>4, <1>5, <1>6, <1>7, <1>8 DEF KInv, KeyEffect, KeyTypes

\* The first save of Rotate, of the replacement, keeps the invariant.
LEMMA RotateMintInv ==
  ASSUME KInv, NEW o \in Operators, NEW f \in KeyIds, NEW out \in Outcomes,
         RotateMint(o, f, out)
  PROVE  KInv' /\ KeyEffect
<1> DEFINE key == Minted(command[o].ttl)
           s   == IF out = "done"
                  THEN [command[o] EXCEPT !.at = "link", !.fresh = f, !.freshKey = key]
                  ELSE Idle
<1>0. /\ KeyTypes /\ command[o] \in Step /\ command[o].at = "mint"
      /\ save(f, key, out) /\ Unused(f) /\ Do(o, s)
      /\ UNCHANGED <<now, work, held, killed, cut>>
  BY DEF KInv, KeyTypes, RotateMint, Succeeded
<1>1. key \in Records /\ key.rev = 0 /\ key.from = None
  <2>1. command[o].ttl \in Int
    BY <1>0 DEF Step
  <2> QED
    BY <1>0, <2>1, MintedType
<1>2. /\ s \in Step /\ s.at = (IF out = "done" THEN "link" ELSE "idle")
      /\ out = "done" => /\ s.fresh = f /\ s.freshKey = key
                         /\ s.key = command[o].key /\ s.old = command[o].old
  <2> HIDE DEF key
  <2> QED
    BY <1>0, <1>1, RecordTypes DEF Step
<1> HIDE DEF key, s
<1>3. /\ rec' \in [KeyIds -> Records]
      /\ \A x \in KeyIds \ {f} : rec'[x] = rec[x]
      /\ rec'[f] \in {rec[f], Saved(rec[f], key)}
      /\ listed' \subseteq KeyIds /\ listed \subseteq listed'
      /\ out = "done" => f \in listed'
      /\ faults' \in 0..MaxFaults /\ faults' \in {faults, faults + 1}
  BY <1>0, <1>1, SaveEffect
<1>4. \A x \in KeyIds : /\ rec'[x].from = rec[x].from /\ rec'[x].rev = rec[x].rev
                        /\ rec[x].exists => rec'[x].exists
  BY <1>0, <1>1, <1>3, SavedType DEF KeyTypes
<1>5. /\ command' \in [Operators -> Step] /\ command'[o] = s
      /\ \A p \in Operators \ {o} : command'[p] = command[p]
  BY <1>0, <1>2, DoStep
<1>6. rec[f].from = None /\ \A p \in Operators : command[p].fresh # f
  BY <1>0 DEF Unused, KInv, BlankRecords
<1>7. KeyTypes'
  BY <1>0, <1>3, <1>5 DEF KeyTypes
<1>8. BlankRecords' /\ KilledRevoked'
  BY <1>0, <1>3, <1>4 DEF KInv, BlankRecords, KilledRevoked, KeyTypes
<1>9. HeldListed'
  BY <1>0, <1>3 DEF KInv, HeldListed
<1>10. RotationsOwn'
  <2> SUFFICES ASSUME NEW p \in Operators
               PROVE  /\ command'[p].at # "idle" => command'[p].key \in KeyIds
                      /\ Minting(p)' => command'[p].fresh \in listed'
                      /\ command'[p].at = "link" => rec'[command'[p].fresh].from = None
                                                    /\ command'[p].freshKey.rev = 0
                      /\ command'[p].at = "retire" =>
                           rec'[command'[p].fresh].from = command'[p].key
                      /\ command'[p].at # "idle" /\ command'[p].old.from # None =>
                           rec'[command'[p].key].from = command'[p].old.from
    BY DEF RotationsOwn
  <2>1. CASE p = o
    BY <1>0, <1>1, <1>2, <1>3, <1>4, <1>5, <1>6, <2>1 DEF Minting, KInv, RotationsOwn
  <2>2. CASE p # o
    <3>1. command'[p] = command[p] /\ (Minting(p) => command[p].fresh \in KeyIds)
      BY <1>0, <1>5, <2>2 DEF KInv, RotationsOwn, KeyTypes
    <3> QED
      BY <1>3, <1>4, <3>1 DEF KInv, RotationsOwn, Minting
  <2> QED
    BY <2>1, <2>2
<1>11. FreshDistinct'
  BY <1>2, <1>5, <1>6 DEF KInv, FreshDistinct, Minting
<1>12. OverlapAhead'
  BY <1>0, <1>4 DEF KInv, OverlapAhead, Succeeds
<1> QED
  BY <1>0, <1>3, <1>4, <1>7, <1>8, <1>9, <1>10, <1>11, <1>12
  DEF KInv, KeyEffect, KeyTypes

\* So does the second, which links the replacement to the old key.
LEMMA RotateLinkInv ==
  ASSUME KInv, NEW o \in Operators, NEW out \in Outcomes, RotateLink(o, out)
  PROVE  KInv' /\ KeyEffect
<1> DEFINE f   == command[o].fresh
           k   == command[o].key
           key == [command[o].freshKey EXCEPT !.from = k]
           s   == IF out = "done" THEN [command[o] EXCEPT !.at = "retire"] ELSE Idle
<1>0. /\ KeyTypes /\ command[o] \in Step /\ command[o].at = "link"
      /\ save(f, key, out) /\ Do(o, s)
      /\ UNCHANGED <<now, work, held, killed, cut>>
  BY DEF KInv, KeyTypes, RotateLink, Succeeded
<1>1. /\ f \in KeyIds /\ f \in listed /\ rec[f].from = None
      /\ k \in KeyIds /\ k # None /\ command[o].freshKey.rev = 0
  BY <1>0, ApiKeysAssumption DEF KInv, RotationsOwn, Minting, KeyTypes
<1>2. key \in Records /\ key.rev = 0 /\ key.from = k
  BY <1>0, <1>1 DEF Step, Records
<1>3. /\ s \in Step /\ s.at = (IF out = "done" THEN "retire" ELSE "idle")
      /\ out = "done" => s.fresh = f /\ s.key = k /\ s.old = command[o].old
  BY <1>0, RecordTypes DEF Step
<1> HIDE DEF key, s
<1>4. /\ rec' \in [KeyIds -> Records]
      /\ \A x \in KeyIds \ {f} : rec'[x] = rec[x]
      /\ out = "done" => rec'[f] = Saved(rec[f], key)
      /\ rec'[f] \in {rec[f], Saved(rec[f], key)}
      /\ listed' \subseteq KeyIds /\ listed \subseteq listed'
      /\ faults' \in 0..MaxFaults /\ faults' \in {faults, faults + 1}
  <2> HIDE DEF f, k
  <2> QED
    BY <1>0, <1>1, <1>2, SaveEffect
<1>5. \A x \in KeyIds : /\ x # f => rec'[x].from = rec[x].from
                        /\ rec[x].from # None => rec'[x].from = rec[x].from
                        /\ rec'[x].rev = rec[x].rev
                        /\ rec[x].exists => rec'[x].exists
                        /\ ~rec'[x].exists => rec'[x].from = rec[x].from
  <2> HIDE DEF f, k
  <2> QED
    BY <1>0, <1>1, <1>2, <1>4, SavedType DEF KeyTypes
<1>6. out = "done" => rec'[f].from = k
  BY <1>0, <1>1, <1>2, <1>4, SavedType DEF KeyTypes
<1>7. /\ command' \in [Operators -> Step] /\ command'[o] = s
      /\ \A p \in Operators \ {o} : command'[p] = command[p]
  BY <1>0, <1>3, DoStep
<1>8. KeyTypes'
  BY <1>0, <1>4, <1>7 DEF KeyTypes
<1>9. BlankRecords' /\ KilledRevoked'
  BY <1>0, <1>4, <1>5 DEF KInv, BlankRecords, KilledRevoked, KeyTypes
<1>10. HeldListed'
  BY <1>0, <1>4 DEF KInv, HeldListed
<1>11. RotationsOwn'
  <2> SUFFICES ASSUME NEW p \in Operators
               PROVE  /\ command'[p].at # "idle" => command'[p].key \in KeyIds
                      /\ Minting(p)' => command'[p].fresh \in listed'
                      /\ command'[p].at = "link" => rec'[command'[p].fresh].from = None
                                                    /\ command'[p].freshKey.rev = 0
                      /\ command'[p].at = "retire" =>
                           rec'[command'[p].fresh].from = command'[p].key
                      /\ command'[p].at # "idle" /\ command'[p].old.from # None =>
                           rec'[command'[p].key].from = command'[p].old.from
    BY DEF RotationsOwn
  <2>1. CASE p = o
    BY <1>0, <1>1, <1>3, <1>4, <1>5, <1>6, <1>7, <2>1 DEF Minting, KInv, RotationsOwn
  <2>2. CASE p # o
    <3>1. /\ command'[p] = command[p]
          /\ Minting(p) => command[p].fresh \in KeyIds /\ command[p].fresh # f
      BY <1>0, <1>7, <2>2 DEF KInv, RotationsOwn, FreshDistinct, Minting, KeyTypes
    <3> HIDE DEF f, k
    <3> QED
      BY <1>4, <1>5, <3>1 DEF KInv, RotationsOwn, Minting
  <2> QED
    BY <2>1, <2>2
<1>12. FreshDistinct'
  BY <1>0, <1>3, <1>7 DEF KInv, FreshDistinct, Minting
<1>13. OverlapAhead'
  <2> SUFFICES ASSUME NEW x \in KeyIds, x \notin cut, rec[x].rev # 0
               PROVE  \E g \in KeyIds : Succeeds(g, x)'
    BY <1>0, <1>5 DEF OverlapAhead
  <2> PICK g \in KeyIds : Succeeds(g, x)
    BY DEF KInv, OverlapAhead
  <2>1. rec[g].from # None
    BY ApiKeysAssumption DEF Succeeds
  <2> QED
    BY <1>0, <1>5, <2>1 DEF Succeeds
<1> QED
  BY <1>0, <1>4, <1>5, <1>8, <1>9, <1>10, <1>11, <1>12, <1>13
  DEF KInv, KeyEffect, KeyTypes

\* Rotate's end: a new time of revocation, and a key that has had its successor
\* shown, or is cut.
LEMMA RotateRetireInv ==
  ASSUME KInv, NEW o \in Operators, NEW out \in Outcomes, RotateRetire(o, out)
  PROVE  KInv' /\ KeyEffect
<1> DEFINE f   == command[o].fresh
           k   == command[o].key
           key == Retired(command[o].old)
<1>0. /\ KeyTypes /\ command[o] \in Step /\ command[o].at = "retire"
      /\ save(k, key, out) /\ Do(o, Idle) /\ UNCHANGED <<now, work, killed>>
      /\ held' = IF out = "done" THEN [held EXCEPT ![f] = now] ELSE held
      /\ cut' = IF out = "done" \/ out = "none" THEN cut ELSE cut \cup {k}
  BY DEF KInv, KeyTypes, RotateRetire, Succeeded
<1>1. /\ f \in KeyIds /\ f \in listed /\ rec[f].from = k /\ k \in KeyIds
      /\ command[o].old.from # None => rec[k].from = command[o].old.from
  BY <1>0 DEF KInv, RotationsOwn, Minting, KeyTypes
<1>2. /\ key \in Records /\ key.rev = now + Overlap /\ key.rev # 0
      /\ key.from = None \/ key.from = rec[k].from
  BY <1>0, <1>1, ApiKeysAssumption DEF Step, Records, Retired, KeyTypes
<1> HIDE DEF key
<1>3. /\ rec' \in [KeyIds -> Records]
      /\ \A x \in KeyIds \ {k} : rec'[x] = rec[x]
      /\ out = "none" => rec' = rec
      /\ out # "none" => rec'[k] = Saved(rec[k], key)
      /\ listed' \subseteq KeyIds /\ listed \subseteq listed'
      /\ faults' \in 0..MaxFaults /\ faults' \in {faults, faults + 1}
  <2> HIDE DEF f, k
  <2> QED
    BY <1>0, <1>1, <1>2, SaveEffect
<1> HIDE DEF f, k
<1>4. /\ \A x \in KeyIds : /\ rec'[x].from = rec[x].from
                           /\ rec[x].exists => rec'[x].exists
                           /\ x # k => rec'[x].rev = rec[x].rev
      /\ out # "none" => rec'[k].rev = now + Overlap
  BY <1>0, <1>1, <1>2, <1>3, SavedType DEF KeyTypes
<1>5. /\ command' \in [Operators -> Step] /\ command'[o] = Idle
      /\ \A p \in Operators \ {o} : command'[p] = command[p]
  BY <1>0, DoStep, RecordTypes
<1>6. /\ held' \in [KeyIds -> Times] /\ \A x \in KeyIds \ {f} : held'[x] = held[x]
      /\ out = "done" => held'[f] = now
      /\ out # "done" => held' = held
  BY <1>0, <1>1 DEF KeyTypes, Times
<1>7. KeyTypes'
  BY <1>0, <1>1, <1>3, <1>5, <1>6 DEF KeyTypes
<1>8. BlankRecords' /\ KilledRevoked'
  BY <1>0, <1>3, <1>4, ApiKeysAssumption DEF KInv, BlankRecords, KilledRevoked, KeyTypes
<1>9. HeldListed'
  BY <1>1, <1>3, <1>6 DEF KInv, HeldListed
<1>10. RotationsOwn' /\ FreshDistinct'
  <2>1. \A p \in Operators : Minting(p)' => p # o /\ Minting(p)
    BY <1>5, RecordTypes DEF Minting
  <2>2. FreshDistinct'
    BY <1>5, <2>1 DEF KInv, FreshDistinct
  <2>3. RotationsOwn'
    <3> SUFFICES ASSUME NEW p \in Operators, command'[p].at # "idle"
                 PROVE  /\ command'[p].key \in KeyIds
                        /\ Minting(p)' => command'[p].fresh \in listed'
                        /\ command'[p].at = "link" => rec'[command'[p].fresh].from = None
                                                      /\ command'[p].freshKey.rev = 0
                        /\ command'[p].at = "retire" =>
                             rec'[command'[p].fresh].from = command'[p].key
                        /\ command'[p].old.from # None =>
                             rec'[command'[p].key].from = command'[p].old.from
      BY DEF RotationsOwn, Minting
    <3>1. /\ command'[p] = command[p] /\ command[p].key \in KeyIds
          /\ Minting(p) => command[p].fresh \in KeyIds
      BY <1>0, <1>5, RecordTypes DEF KInv, RotationsOwn, KeyTypes
    <3> QED
      BY <1>3, <1>4, <3>1 DEF KInv, RotationsOwn, Minting
  <2> QED
    BY <2>2, <2>3
<1>11. OverlapAhead'
  <2> SUFFICES ASSUME NEW x \in KeyIds, x \notin cut', rec'[x].rev # 0
               PROVE  \E g \in KeyIds : Succeeds(g, x)'
    BY DEF OverlapAhead
  <2>1. CASE out = "done" /\ x = k
    <3>1. rec'[f].from = k /\ held'[f] = now /\ rec'[k].rev = now + Overlap
      BY <1>1, <1>4, <1>6, <2>1
    <3>2. held'[f] # 0 /\ held'[f] + Overlap <= rec'[k].rev
      BY <1>0, <3>1, ApiKeysAssumption DEF KeyTypes
    <3> QED
      BY <1>1, <2>1, <3>1, <3>2 DEF Succeeds
  <2>2. CASE x # k \/ out = "none"
    <3>1. x \notin cut /\ rec'[x].rev = rec[x].rev
      BY <1>0, <1>3, <1>4, <2>2
    <3> PICK g \in KeyIds : Succeeds(g, x)
      BY <3>1 DEF KInv, OverlapAhead
    <3>2. g # f \/ out # "done"
      BY <1>1, <2>2 DEF Succeeds
    <3>3. held'[g] = held[g] /\ rec'[g].from = rec[g].from
      BY <1>4, <1>6, <3>2
    <3> QED
      BY <3>1, <3>3 DEF Succeeds
  <2> QED
    BY <1>0, <2>1, <2>2 DEF Outcomes
<1> QED
  BY <1>0, <1>3, <1>4, <1>6, <1>7, <1>8, <1>9, <1>10, <1>11
  DEF KInv, KeyEffect, KeyTypes

\* So does the write of Revoke.
LEMMA RevokeSetInv ==
  ASSUME KInv, NEW o \in Operators, NEW out \in Outcomes, RevokeSet(o, out)
  PROVE  KInv' /\ KeyEffect
<1> DEFINE k == command[o].key
<1>0. /\ KeyTypes /\ command[o] \in Step /\ command[o].at = "revoke"
      /\ Do(o, Idle) /\ UNCHANGED <<now, listed, work, held>> /\ MayFail(out)
      /\ rec' = IF out = "none" THEN rec ELSE [rec EXCEPT ![k].rev = now]
      /\ killed' = IF out = "done" THEN killed \cup {k} ELSE killed
      /\ cut' = IF out = "none" THEN cut ELSE cut \cup {k}
  BY DEF KInv, KeyTypes, RevokeSet, Succeeded
<1>1. k \in KeyIds
  BY <1>0 DEF KInv, RotationsOwn
<1> HIDE DEF k
<1>2. /\ rec' \in [KeyIds -> Records]
      /\ \A x \in KeyIds : /\ rec'[x].from = rec[x].from
                           /\ rec'[x].exists = rec[x].exists
                           /\ x # k => rec'[x] = rec[x]
      /\ out = "none" => rec' = rec
      /\ out # "none" => rec'[k].rev = now
  BY <1>0, <1>1 DEF KeyTypes, Records
<1>3. faults' \in 0..MaxFaults /\ faults' \in {faults, faults + 1}
  BY <1>0, ApiKeysAssumption DEF MayFail, KeyTypes
<1>4. /\ command' \in [Operators -> Step] /\ command'[o] = Idle
      /\ \A p \in Operators \ {o} : command'[p] = command[p]
  BY <1>0, DoStep, RecordTypes
<1>5. KeyTypes'
  BY <1>0, <1>1, <1>2, <1>3, <1>4 DEF KeyTypes
<1>6. BlankRecords' /\ HeldListed'
  BY <1>0, <1>2 DEF KInv, BlankRecords, HeldListed
<1>7. KilledRevoked'
  BY <1>0, <1>1, <1>2, ApiKeysAssumption DEF KInv, KilledRevoked, KeyTypes
<1>8. FreshDistinct'
  <2>1. \A p \in Operators : Minting(p)' => p # o /\ Minting(p)
    BY <1>4, RecordTypes DEF Minting
  <2> QED
    BY <1>4, <2>1 DEF KInv, FreshDistinct
<1>9. RotationsOwn'
  <2> SUFFICES ASSUME NEW p \in Operators, command'[p].at # "idle"
               PROVE  /\ command'[p].key \in KeyIds
                      /\ Minting(p)' => command'[p].fresh \in listed'
                      /\ command'[p].at = "link" => rec'[command'[p].fresh].from = None
                                                    /\ command'[p].freshKey.rev = 0
                      /\ command'[p].at = "retire" =>
                           rec'[command'[p].fresh].from = command'[p].key
                      /\ command'[p].old.from # None =>
                           rec'[command'[p].key].from = command'[p].old.from
    BY DEF RotationsOwn, Minting
  <2>1. /\ command'[p] = command[p] /\ command[p].key \in KeyIds
        /\ Minting(p) => command[p].fresh \in KeyIds
    BY <1>0, <1>4, RecordTypes DEF KInv, RotationsOwn, KeyTypes
  <2> QED
    BY <1>0, <1>2, <2>1 DEF KInv, RotationsOwn, Minting
<1>10. OverlapAhead'
  BY <1>0, <1>2 DEF KInv, OverlapAhead, Succeeds
<1> QED
  BY <1>0, <1>2, <1>3, <1>5, <1>6, <1>7, <1>8, <1>9, <1>10
  DEF KInv, KeyEffect, KeyTypes

\* So does every call of keyadmin.
LEMMA KeyadminInv ==
  ASSUME KInv, NEW o \in Operators, keyadmin(o)
  PROVE  KInv' /\ KeyEffect
BY CreateInv, BeginInv, RotateMintInv, RotateLinkInv, RotateRetireInv, RevokeSetInv
   DEF keyadmin

\* Requests do not write keys.
LEMMA KeysStandby ==
  ASSUME KInv, UNCHANGED keyVars,
         now' \in {now, now + 1}, now' \in 1..MaxTime,
         work' \in {work, work + 1}, work' \in 0..MaxWork, faults' \in 0..MaxFaults
  PROVE  KInv'
<1>1. UNCHANGED <<rec, listed, command, held, killed, cut>>
  BY DEF keyVars
<1>2. KeyTypes'
  BY <1>1 DEF KInv, KeyTypes
<1>3. BlankRecords' /\ RotationsOwn' /\ FreshDistinct' /\ HeldListed'
  BY <1>1 DEF KInv, BlankRecords, RotationsOwn, FreshDistinct, HeldListed, Minting
<1>4. OverlapAhead'
  BY <1>1 DEF KInv, OverlapAhead, Succeeds
<1>5. KilledRevoked'
  BY <1>1, ApiKeysAssumption DEF KInv, KilledRevoked, KeyTypes, Records
<1> QED
  BY <1>2, <1>3, <1>4, <1>5 DEF KInv

-----------------------------------------------------------------------------
(* Requests: the inductive invariant *)

Request ==
  [at : {"none", "lookup", "count", "handle"}, key : KeyIds \cup {None},
   clock : Times, dead : BOOLEAN]

Counter == [n : Nat, expires : Nat]

DoorTypes ==
  /\ req \in [Clients -> Request]
  /\ counter \in [KeyIds -> [Windows -> Counter]]
  /\ queued \in [KeyIds -> [Windows -> Nat]]
  /\ server \in {"starting", "up", "shutdown", "down"} /\ expired \in BOOLEAN

\* Requests in the server, before Allow, and past it for one key and window.
Inside == {c \in Clients : req[c].at # "none"}
Uncounted == {c \in Clients : req[c].at \in {"lookup", "count"}}
Passing(q, k, w) ==
  {c \in Clients : q[c].at = "handle" /\ q[c].key = k /\ WindowOf(q[c].clock) = w}
Through(k, w) == Passing(req, k, w)

\* Every request counts itself once and is queued once.
WorkBounded ==
  \A k \in KeyIds, w \in Windows :
    /\ counter[k][w].n + Cardinality(Uncounted) <= work
    /\ queued[k][w] + Cardinality(Inside) <= work

\* While main waits, open is the number of requests in the server.
OpenCounted ==
  /\ open \in 0..Cardinality(Clients)
  /\ server # "down" => open = Cardinality(Inside)
  /\ server \in {"starting", "down"} => Inside = {}
  /\ server = "down" /\ ~expired => open = 0

\* A request that is past Verify has a key, and Allow's clock is fresh.
Admissible(r) ==
  /\ r.at \in {"count", "handle"} => r.key \in KeyIds
  /\ r.at = "count" => r.clock <= now /\ now <= r.clock + 1

AllAdmissible == \A c \in Clients : Admissible(req[c])

\* The first instant after a window.
WindowEnd(w) == w * Window + Window

\* A counter outlives its window.
CountersLast ==
  \A k \in KeyIds, w \in Windows :
    /\ counter[k][w].n = 0 => counter[k][w].expires = 0
    /\ counter[k][w].n # 0 => counter[k][w].expires > WindowEnd(w)

\* Who is past Allow was counted, or its call failed.
Passed(k, w) == queued[k][w] + Cardinality(Through(k, w))

PassedCounted ==
  \A k \in KeyIds, w \in Windows :
    Passed(k, w) <= counter[k][w].n + faults /\ Passed(k, w) <= RateLimit + faults

DInv ==
  /\ DoorTypes
  /\ WorkBounded
  /\ OpenCounted
  /\ AllAdmissible
  /\ CountersLast
  /\ PassedCounted

-----------------------------------------------------------------------------
(* Requests: facts *)

\* Division, as the windows use it.
LEMMA WindowBounds ==
  ASSUME NEW t \in Nat
  PROVE  /\ WindowOf(t) \in Nat
         /\ WindowOf(t) * Window <= t /\ t < WindowEnd(WindowOf(t))
<1> DEFINE W == Window
<1>1. W \in Nat \ {0}
  BY FrontDoorAssumption
<1> HIDE DEF W
<1>2. t \div W \in Nat
  BY <1>1, SMT
<1>3. (t \div W) * W <= t
  BY <1>1, SMT
<1>4. t < (t \div W) * W + W
  BY <1>1, SMT
<1> QED
  BY <1>2, <1>3, <1>4 DEF W, WindowOf, WindowEnd

\* The rate window of every instant is one of Windows.
LEMMA WindowInWindows ==
  ASSUME NEW t \in Times
  PROVE  WindowOf(t) \in Windows
BY DEF WindowOf, Windows

\* A rate window ends at an instant.
LEMMA WindowEndType == \A w \in Windows : WindowEnd(w) \in Nat
<1> SUFFICES ASSUME NEW t \in Times PROVE WindowEnd(WindowOf(t)) \in Nat
  BY DEF Windows, WindowOf
<1>1. WindowOf(t) \in Nat
  BY WindowBounds, ApiKeysAssumption DEF Times
<1>2. \A w \in Nat : WindowEnd(w) \in Nat
  BY FrontDoorAssumption DEF WindowEnd
<1> QED
  BY <1>1, <1>2

\* A set that changes at one element only.
LEMMA SetMove ==
  ASSUME NEW S, NEW T, NEW x, IsFiniteSet(S), S \ {x} = T \ {x}
  PROVE  /\ IsFiniteSet(T) /\ Cardinality(S) \in Nat /\ Cardinality(T) \in Nat
         /\ Cardinality(T) = (Cardinality(S) - (IF x \in S THEN 1 ELSE 0))
                             + (IF x \in T THEN 1 ELSE 0)
<1>1. Cardinality(S) \in Nat
  BY FS_CardinalityType
<1>2. CASE x \in S /\ x \in T
  <2>1. S = T
    BY <1>2
  <2> QED
    BY <1>1, <1>2, <2>1
<1>3. CASE x \in S /\ x \notin T
  <2>1. T = S \ {x}
    BY <1>3
  <2>2. IsFiniteSet(T) /\ Cardinality(T) = Cardinality(S) - 1
    BY <1>3, <2>1, CountOut
  <2> QED
    BY <1>1, <1>3, <2>2, FS_CardinalityType
<1>4. CASE x \notin S /\ x \in T
  <2>1. T = S \cup {x}
    BY <1>4
  <2>2. IsFiniteSet(T) /\ Cardinality(T) = Cardinality(S) + 1
    BY <1>4, <2>1, CountIn
  <2> QED
    BY <1>1, <1>4, <2>2
<1>5. CASE x \notin S /\ x \notin T
  <2>1. S = T
    BY <1>5
  <2> QED
    BY <1>1, <1>5, <2>1
<1> QED
  BY <1>2, <1>3, <1>4, <1>5

\* Any set of clients can be counted.
LEMMA ClientSetsFinite ==
  ASSUME NEW S \in SUBSET Clients
  PROVE  IsFiniteSet(S) /\ Cardinality(S) \in 0..Cardinality(Clients)
BY FS_Subset, FS_CardinalityType, FrontDoorAssumption

\* How the counts of requests move with one of them.
LEMMA RequestCounts ==
  ASSUME DoorTypes, NEW c \in Clients, NEW r \in Request, req' = [req EXCEPT ![c] = r]
  PROVE  /\ req' \in [Clients -> Request] /\ req'[c] = r
         /\ \A d \in Clients \ {c} : req'[d] = req[d]
         /\ Cardinality(Inside) \in Nat
         /\ Cardinality(Inside') \in 0..Cardinality(Clients)
         /\ Cardinality(Inside') =
              (Cardinality(Inside) - (IF req[c].at # "none" THEN 1 ELSE 0))
              + (IF r.at # "none" THEN 1 ELSE 0)
         /\ Cardinality(Uncounted) \in Nat
         /\ Cardinality(Uncounted') =
              (Cardinality(Uncounted) - (IF req[c].at \in {"lookup", "count"} THEN 1 ELSE 0))
              + (IF r.at \in {"lookup", "count"} THEN 1 ELSE 0)
<1>1. /\ req' \in [Clients -> Request] /\ req'[c] = r
      /\ \A d \in Clients \ {c} : req'[d] = req[d]
  BY DEF DoorTypes
<1>2. /\ Cardinality(Inside) \in Nat
      /\ Cardinality(Inside') \in 0..Cardinality(Clients)
      /\ Cardinality(Inside') =
           (Cardinality(Inside) - (IF req[c].at # "none" THEN 1 ELSE 0))
           + (IF r.at # "none" THEN 1 ELSE 0)
  <2>1. Inside \subseteq Clients /\ Inside' \subseteq Clients /\ Inside \ {c} = Inside' \ {c}
    BY <1>1 DEF Inside
  <2>2. (c \in Inside <=> req[c].at # "none") /\ (c \in Inside' <=> r.at # "none")
    BY <1>1 DEF Inside
  <2> HIDE DEF Inside
  <2>3. IsFiniteSet(Inside) /\ Cardinality(Inside') \in 0..Cardinality(Clients)
    BY <2>1, ClientSetsFinite
  <2> QED
    BY <2>1, <2>2, <2>3, SetMove
<1>3. /\ Cardinality(Uncounted) \in Nat
      /\ Cardinality(Uncounted') =
           (Cardinality(Uncounted) - (IF req[c].at \in {"lookup", "count"} THEN 1 ELSE 0))
           + (IF r.at \in {"lookup", "count"} THEN 1 ELSE 0)
  <2>1. Uncounted \subseteq Clients /\ Uncounted \ {c} = Uncounted' \ {c}
    BY <1>1 DEF Uncounted
  <2>2. (c \in Uncounted <=> req[c].at \in {"lookup", "count"})
        /\ (c \in Uncounted' <=> r.at \in {"lookup", "count"})
    BY <1>1 DEF Uncounted
  <2> HIDE DEF Uncounted
  <2>3. IsFiniteSet(Uncounted)
    BY <2>1, ClientSetsFinite
  <2> QED
    BY <2>1, <2>2, <2>3, SetMove
<1> QED
  BY <1>1, <1>2, <1>3

\* How many are past the limiter for a key and a window, when one request moves.
LEMMA ThroughCount ==
  ASSUME NEW q \in [Clients -> Request], NEW c \in Clients, NEW r \in Request,
         NEW p \in [Clients -> Request], p[c] = r, \A d \in Clients \ {c} : p[d] = q[d],
         NEW k, NEW w
  PROVE  /\ Cardinality(Passing(q, k, w)) \in Nat
         /\ Cardinality(Passing(p, k, w)) =
              (Cardinality(Passing(q, k, w)) - (IF c \in Passing(q, k, w) THEN 1 ELSE 0))
              + (IF r.at = "handle" /\ r.key = k /\ WindowOf(r.clock) = w THEN 1 ELSE 0)
<1> DEFINE S == Passing(q, k, w)
           T == Passing(p, k, w)
<1>1. S \subseteq Clients /\ S \ {c} = T \ {c}
  BY DEF Passing
<1>2. c \in T <=> r.at = "handle" /\ r.key = k /\ WindowOf(r.clock) = w
  BY DEF Passing
<1> HIDE DEF S, T
<1>3. IsFiniteSet(S)
  BY <1>1, ClientSetsFinite
<1>4. /\ Cardinality(S) \in Nat
      /\ Cardinality(T) = (Cardinality(S) - (IF c \in S THEN 1 ELSE 0))
                          + (IF c \in T THEN 1 ELSE 0)
  BY <1>1, <1>3, SetMove
<1> QED
  BY <1>2, <1>4 DEF S, T

\* rateLimitScript counts on, and never starts a second counter for a window
\* that requests are still counted in.
LEMMA IncrEffect ==
  ASSUME KInv, DInv, NEW k \in KeyIds, NEW t \in Times, t <= now, now <= t + 1
  PROVE  LET w == WindowOf(t)
             cnt == Incr(counter[k][w])
         IN  /\ w \in Windows
             /\ cnt \in Counter /\ cnt.n = counter[k][w].n + 1
             /\ cnt.expires > WindowEnd(w)
<1> DEFINE w == WindowOf(t)
           old == counter[k][w]
<1>1. now \in Nat /\ now >= 1 /\ t \in Nat
  BY ApiKeysAssumption DEF KInv, KeyTypes, Times
<1>2. w \in Windows /\ w * Window \in Int /\ w * Window <= t /\ t < w * Window + Window
  <2>1. w \in Nat /\ w \in Windows
    BY <1>1, WindowBounds, WindowInWindows
  <2>2. w * Window \in Int
    BY <2>1, FrontDoorAssumption
  <2> QED
    BY <1>1, <2>1, <2>2, WindowBounds DEF WindowEnd
<1>3. old \in Counter
  BY <1>2 DEF DInv, DoorTypes
<1>4. /\ old.n = 0 => old.expires = 0
      /\ old.n # 0 => old.expires > WindowEnd(w)
  BY <1>2 DEF DInv, CountersLast
<1>5. WindowEnd(w) = w * Window + Window
  BY DEF WindowEnd
<1> DEFINE e == w * Window
<1> HIDE DEF w, old, e
<1>6. /\ Incr(old) \in Counter /\ Incr(old).n = old.n + 1
      /\ Incr(old).expires > WindowEnd(w)
  <2>1. e \in Int /\ e <= t /\ t < e + Window /\ WindowEnd(w) = e + Window
    BY <1>2, <1>5 DEF e
  <2>2. CASE old.expires > now
    <3>1. Incr(old) = [old EXCEPT !.n = @ + 1]
      BY <2>2 DEF Incr
    <3>2. old.n # 0
      BY <1>1, <1>4, <2>2
    <3> QED
      BY <1>3, <1>4, <3>1, <3>2 DEF Counter
  <2>3. CASE ~(old.expires > now)
    <3>1. Incr(old) = [n |-> 1, expires |-> now + CounterTTL]
      BY <2>3 DEF Incr
    <3>2. old.n = 0
      BY <1>1, <1>3, <1>4, <2>1, <2>3, FrontDoorAssumption DEF Counter
    <3>3. now + CounterTTL \in Nat /\ now + CounterTTL > WindowEnd(w)
      BY <1>1, <2>1, FrontDoorAssumption
    <3> QED
      BY <3>1, <3>2, <3>3 DEF Counter
  <2> QED
    BY <2>2, <2>3
<1> QED
  BY <1>2, <1>6 DEF w, old

-----------------------------------------------------------------------------
(* Requests: the steps *)

\* An answered request is no longer in the server.
LEMMA AnsweredType == Answered \in Request /\ Answered.at = "none" /\ Admissible(Answered)
BY ApiKeysAssumption DEF Answered, Request, Times, Admissible

\* Every step of a request that moves open along.
LEMMA MoveInv ==
  ASSUME KInv, DInv, NEW c \in Clients, NEW r \in Request,
         req' = [req EXCEPT ![c] = r], UNCHANGED <<now, keyVars, server, expired>>,
         open' = (open - (IF req[c].at # "none" THEN 1 ELSE 0))
                 + (IF r.at # "none" THEN 1 ELSE 0),
         req[c].at # "none" \/ server = "up", Admissible(r)
  PROVE  OpenCounted' /\ AllAdmissible'
<1>1. UNCHANGED <<now, rec, server, expired>>
  BY DEF keyVars
<1>2. /\ req'[c] = r /\ \A d \in Clients \ {c} : req'[d] = req[d]
      /\ Cardinality(Inside') \in 0..Cardinality(Clients)
      /\ Cardinality(Inside') =
           (Cardinality(Inside) - (IF req[c].at # "none" THEN 1 ELSE 0))
           + (IF r.at # "none" THEN 1 ELSE 0)
  BY RequestCounts DEF DInv
<1>3. AllAdmissible'
  BY <1>1, <1>2 DEF DInv, AllAdmissible, Admissible
<1>4. server \notin {"starting", "down"}
  BY DEF DInv, OpenCounted, Inside
<1>5. open = Cardinality(Inside)
  BY <1>4 DEF DInv, OpenCounted
<1>6. OpenCounted'
  BY <1>1, <1>2, <1>4, <1>5 DEF OpenCounted
<1> QED
  BY <1>3, <1>6

\* A step that neither counts a request nor queues it.
LEMMA QuietInv ==
  ASSUME KInv, DInv, NEW c \in Clients, NEW r \in Request,
         req' = [req EXCEPT ![c] = r],
         UNCHANGED <<now, keyVars, counter, queued, server, expired>>,
         work' = work + (IF req[c].at = "none" THEN 1 ELSE 0),
         faults' \in {faults, faults + 1},
         open' = (open - (IF req[c].at # "none" THEN 1 ELSE 0))
                 + (IF r.at # "none" THEN 1 ELSE 0),
         req[c].at # "none" \/ server = "up", Admissible(r), r.at # "handle",
         r.at \in {"lookup", "count"} => req[c].at \in {"none", "lookup", "count"}
  PROVE  DInv'
<1>1. OpenCounted' /\ AllAdmissible'
  BY MoveInv
<1>2. DoorTypes
  BY DEF DInv
<1>3. /\ req' \in [Clients -> Request]
      /\ Cardinality(Inside) \in Nat
      /\ Cardinality(Inside') =
           (Cardinality(Inside) - (IF req[c].at # "none" THEN 1 ELSE 0))
           + (IF r.at # "none" THEN 1 ELSE 0)
      /\ Cardinality(Uncounted) \in Nat
      /\ Cardinality(Uncounted') =
           (Cardinality(Uncounted) - (IF req[c].at \in {"lookup", "count"} THEN 1 ELSE 0))
           + (IF r.at \in {"lookup", "count"} THEN 1 ELSE 0)
  BY <1>2, RequestCounts
<1>4. \A k \in KeyIds, w \in Windows :
        /\ Cardinality(Through(k, w)) \in Nat
        /\ Cardinality(Through(k, w)') =
             Cardinality(Through(k, w)) - (IF c \in Through(k, w) THEN 1 ELSE 0)
  <2> SUFFICES ASSUME NEW k \in KeyIds, NEW w \in Windows
               PROVE  /\ Cardinality(Through(k, w)) \in Nat
                      /\ Cardinality(Through(k, w)') =
                           Cardinality(Through(k, w)) - (IF c \in Through(k, w) THEN 1 ELSE 0)
    OBVIOUS
  <2>1. /\ Cardinality(Through(k, w)) \in Nat
        /\ Cardinality(Through(k, w)') =
             (Cardinality(Through(k, w)) - (IF c \in Through(k, w) THEN 1 ELSE 0))
             + (IF r.at = "handle" /\ r.key = k /\ WindowOf(r.clock) = w THEN 1 ELSE 0)
    <3> DEFINE q == req
               p == req'
    <3>1. q \in [Clients -> Request] /\ p \in [Clients -> Request] /\ p[c] = r
          /\ \A d \in Clients \ {c} : p[d] = q[d]
      BY <1>2, RequestCounts DEF DoorTypes
    <3>2. /\ Passing(q, k, w) = Through(k, w)
          /\ Passing(p, k, w) = Through(k, w)'
      BY DEF Through
    <3> HIDE DEF q, p
    <3>3. /\ Cardinality(Passing(q, k, w)) \in Nat
          /\ Cardinality(Passing(p, k, w)) =
               (Cardinality(Passing(q, k, w)) - (IF c \in Passing(q, k, w) THEN 1 ELSE 0))
               + (IF r.at = "handle" /\ r.key = k /\ WindowOf(r.clock) = w THEN 1 ELSE 0)
      BY <3>1, ThroughCount
    <3> QED
      BY <3>2, <3>3
  <2> QED
    BY <2>1
<1>5. DoorTypes'
  BY <1>2, <1>3 DEF DoorTypes
<1>6. WorkBounded'
  <2>1. work \in Nat
    BY DEF KInv, KeyTypes
  <2>2. /\ Cardinality(Inside') <= Cardinality(Inside) + (work' - work)
        /\ Cardinality(Uncounted') <= Cardinality(Uncounted) + (work' - work)
        /\ Cardinality(Inside') \in Int /\ Cardinality(Uncounted') \in Int
        /\ work' \in Int
    BY <1>3, <2>1
  <2>3. ASSUME NEW k \in KeyIds, NEW w \in Windows
        PROVE  /\ counter[k][w].n + Cardinality(Uncounted') <= work'
               /\ queued[k][w] + Cardinality(Inside') <= work'
    <3>1. counter[k][w].n \in Nat /\ queued[k][w] \in Nat
      BY <1>2 DEF DoorTypes, Counter
    <3>2. /\ counter[k][w].n + Cardinality(Uncounted) <= work
          /\ queued[k][w] + Cardinality(Inside) <= work
      BY DEF DInv, WorkBounded
    <3> QED
      BY <1>3, <2>1, <2>2, <3>1, <3>2
  <2> QED
    BY <2>3 DEF WorkBounded
<1>7. CountersLast'
  BY DEF DInv, CountersLast, WindowEnd
<1>8. PassedCounted'
  <2> SUFFICES ASSUME NEW k \in KeyIds, NEW w \in Windows
               PROVE  /\ Passed(k, w)' <= counter[k][w].n + faults'
                      /\ Passed(k, w)' <= RateLimit + faults'
    BY DEF PassedCounted
  <2>1. counter[k][w].n \in Nat /\ queued[k][w] \in Nat /\ faults \in Nat
    BY <1>2 DEF DoorTypes, Counter, KInv, KeyTypes
  <2>2. /\ queued[k][w] + Cardinality(Through(k, w)) <= counter[k][w].n + faults
        /\ queued[k][w] + Cardinality(Through(k, w)) <= RateLimit + faults
    BY DEF DInv, PassedCounted, Passed
  <2>3. Passed(k, w)' = queued[k][w] + Cardinality(Through(k, w)')
    BY DEF Passed
  <2> QED
    BY <1>4, <2>1, <2>2, <2>3, FrontDoorAssumption
<1> QED
  BY <1>1, <1>5, <1>6, <1>7, <1>8 DEF DInv

\* The arrival of a request keeps both invariants.
LEMMA ArriveInv ==
  ASSUME KInv, DInv, NEW c \in Clients, NEW k \in presentedKey, Arrive(c, k)
  PROVE  KInv' /\ DInv'
<1> DEFINE r == [at |-> "lookup", key |-> k, clock |-> now, dead |-> k \in killed]
<1>1. KeyTypes /\ k \in KeyIds \cup {None}
  BY DEF KInv, KeyTypes, presentedKey
<1>2. r \in Request
  <2>1. now \in Times
    BY <1>1 DEF KeyTypes, Times
  <2> QED
    BY <1>1, <2>1 DEF Request
<1>3. Admissible(r)
  BY DEF Admissible
<1>4. r.at = "lookup"
  OBVIOUS
<1>5. /\ req' = [req EXCEPT ![c] = r] /\ open' = open + 1 /\ server = "up"
      /\ req[c].at = "none" /\ UNCHANGED <<now, faults, keyVars, counter, queued, server, expired>>
  BY DEF Arrive, Running
<1>6. work' = work + 1 /\ work' \in 0..MaxWork
  BY <1>1, StartEffect DEF Arrive
<1> HIDE DEF r
<1>7. open \in Nat
  BY FS_CardinalityType, FrontDoorAssumption DEF DInv, OpenCounted
<1>8. open' = (open - 0) + 1
  BY <1>5, <1>7
<1>9. DInv'
  BY <1>2, <1>3, <1>4, <1>5, <1>6, <1>8, QuietInv
<1>10. KInv'
  BY <1>1, <1>5, <1>6, KeysStandby DEF KeyTypes
<1> QED
  BY <1>9, <1>10

\* The answers that follow from the request and the record alone, and the way
\* on from Verify to Allow.
LEMMA VerifyInv ==
  ASSUME KInv, DInv, NEW c \in Clients,
         Probe(c) \/ Lookup(c) \/ LookupFails(c) \/ Reject(c)
  PROVE  KInv' /\ DInv'
<1>1. /\ UNCHANGED <<now, work, keyVars, counter, queued, server, expired>>
      /\ faults' \in {faults, faults + 1} /\ faults' \in 0..MaxFaults
      /\ req[c].at # "none"
  BY ApiKeysAssumption DEF Probe, Lookup, LookupFails, Reject, Fault, KInv, KeyTypes
<1>2. open \in Nat /\ work \in Nat
  BY FS_CardinalityType, FrontDoorAssumption DEF DInv, OpenCounted, KInv, KeyTypes
<1>3. KInv'
  BY <1>1, KeysStandby DEF KInv, KeyTypes
<1>4. CASE Answer(c)
  <2>1. /\ req' = [req EXCEPT ![c] = Answered] /\ work' = work + 0
        /\ open' = (open - 1) + 0
    BY <1>1, <1>2, <1>4 DEF Answer
  <2>2. Answered \in Request /\ Answered.at = "none" /\ Admissible(Answered)
    BY AnsweredType
  <2> HIDE DEF Answered
  <2> QED
    BY <1>1, <1>3, <2>1, <2>2, QuietInv
<1>5. CASE Lookup(c) /\ ~Answer(c)
  <2> DEFINE k == req[c].key
             r == [req[c] EXCEPT !.at = "count", !.clock = now]
  <2>1. /\ req[c] \in Request /\ req[c].at = "lookup"
        /\ k # None /\ Active(rec[k], req[c].clock)
        /\ req' = [req EXCEPT ![c] = r] /\ open' = open
    BY <1>5 DEF Lookup, Fetched, DInv, DoorTypes
  <2>2. /\ r \in Request /\ r.at = "count" /\ r.key = k /\ r.clock = now
        /\ k \in KeyIds
    <3>1. now \in Times
      BY DEF KInv, KeyTypes, Times
    <3>2. k \in KeyIds
      BY <2>1 DEF Request
    <3> QED
      BY <2>1, <3>1, <3>2 DEF Request
  <2>3. Admissible(r)
    <3>1. now \in Nat
      BY DEF KInv, KeyTypes
    <3> HIDE DEF r, k
    <3> QED
      BY <2>2, <3>1 DEF Admissible
  <2>4. open' = (open - 1) + 1 /\ work' = work + 0
    BY <1>1, <1>2, <2>1
  <2> HIDE DEF r, k
  <2> QED
    BY <1>1, <1>3, <2>1, <2>2, <2>3, <2>4, QuietInv
<1> QED
  BY <1>4, <1>5 DEF Probe, Lookup, LookupFails, Reject

\* A change of one key's count in one window.
LEMMA Cell ==
  ASSUME NEW V, NEW f \in [KeyIds -> [Windows -> V]], NEW k \in KeyIds, NEW w \in Windows,
         NEW v \in V, NEW g, g = [f EXCEPT ![k][w] = v]
  PROVE  /\ g \in [KeyIds -> [Windows -> V]] /\ g[k][w] = v
         /\ \A l \in KeyIds, x \in Windows : l # k \/ x # w => g[l][x] = f[l][x]
OBVIOUS

\* Allow: a request is counted, or its call fails; it goes on or is answered.
LEMMA AllowInv ==
  ASSUME KInv, DInv, NEW c \in Clients,
         Count(c) \/ \E effect \in BOOLEAN : CountFails(c, effect)
  PROVE  KInv' /\ DInv'
<1> DEFINE k == req[c].key
           t == req[c].clock
           w == WindowOf(t)
           cnt == Incr(counter[k][w])
           on == [req[c] EXCEPT !.at = "handle"]
<1>1. /\ req[c] \in Request /\ req[c].at = "count" /\ DoorTypes
      /\ k \in KeyIds /\ t \in Times /\ t <= now /\ now <= t + 1
  BY DEF Count, CountFails, DInv, DoorTypes, AllAdmissible, Admissible, Request
<1>2. /\ w \in Windows /\ cnt \in Counter /\ cnt.n = counter[k][w].n + 1
      /\ cnt.expires > WindowEnd(w)
  BY <1>1, IncrEffect
<1>3. /\ on \in Request /\ on.at = "handle" /\ on.key = k /\ on.clock = t
  BY <1>1 DEF Request
<1>4. Admissible(on)
  <2> HIDE DEF on, k
  <2> QED
    BY <1>1, <1>3 DEF Admissible
<1>5. Answered \in Request /\ Answered.at = "none" /\ Admissible(Answered)
  BY AnsweredType
\* Either way: what happened to the counter, the request and the faults.
<1>6. /\ UNCHANGED <<now, work, keyVars, queued, server, expired>>
      /\ faults' \in {faults, faults + 1} /\ faults' \in 0..MaxFaults
      /\ counter' \in {counter, [counter EXCEPT ![k][w] = cnt]}
      /\ counter' = counter => faults' = faults + 1 \/ counter = [counter EXCEPT ![k][w] = cnt]
      /\ \/ req' = [req EXCEPT ![c] = on] /\ open' = open
            /\ (faults' = faults + 1 \/ cnt.n <= RateLimit)
         \/ req' = [req EXCEPT ![c] = Answered] /\ open' = open - 1
  <2>1. CASE Count(c)
    <3>1. /\ UNCHANGED <<now, work, faults, keyVars, queued, server, expired>>
          /\ counter' = [counter EXCEPT ![k][w] = cnt]
          /\ IF cnt.n <= RateLimit THEN GoOn(c, "handle") ELSE Answer(c)
      BY <2>1 DEF Count
    <3>2. faults \in 0..MaxFaults
      BY DEF KInv, KeyTypes
    <3> HIDE DEF cnt, w
    <3> QED
      BY <3>1, <3>2 DEF GoOn, Answer
  <2>2. CASE \E effect \in BOOLEAN : CountFails(c, effect)
    <3>1. /\ UNCHANGED <<now, work, keyVars, queued, server, expired>> /\ Fault
          /\ counter' \in {counter, [counter EXCEPT ![k][w] = cnt]}
          /\ GoOn(c, "handle")
      BY <2>2 DEF CountFails
    <3>2. faults' = faults + 1 /\ faults' \in 0..MaxFaults
      BY <3>1, ApiKeysAssumption DEF Fault, KInv, KeyTypes
    <3> HIDE DEF cnt, w
    <3> QED
      BY <3>1, <3>2 DEF GoOn
  <2> QED
    BY <2>1, <2>2
<1> HIDE DEF k, t, w, cnt, on
<1>7. KInv'
  BY <1>6, KeysStandby DEF KInv, KeyTypes
<1>8. open \in Nat /\ work \in Nat /\ faults \in Nat /\ RateLimit \in Nat
  BY FS_CardinalityType, FrontDoorAssumption DEF DInv, OpenCounted, KInv, KeyTypes
<1>9. PICK r \in {on, Answered} :
        /\ req' = [req EXCEPT ![c] = r]
        /\ open' = (open - 1) + (IF r.at # "none" THEN 1 ELSE 0)
        /\ r = on => faults' = faults + 1 \/ cnt.n <= RateLimit
  BY <1>3, <1>5, <1>6, <1>8
<1>10. /\ r \in Request /\ Admissible(r) /\ r.at \notin {"lookup", "count"}
       /\ r.at = "handle" => r = on /\ r.key = k /\ WindowOf(r.clock) = w
  BY <1>3, <1>4, <1>5 DEF w
<1>11. OpenCounted' /\ AllAdmissible'
  <2> HIDE DEF Answered
  <2> QED
    BY <1>1, <1>6, <1>9, <1>10, MoveInv
<1>12. /\ req' \in [Clients -> Request]
       /\ Cardinality(Inside) \in Nat /\ Cardinality(Uncounted) \in Nat
       /\ Cardinality(Inside') = (Cardinality(Inside) - 1) + (IF r.at # "none" THEN 1 ELSE 0)
       /\ Cardinality(Uncounted') = (Cardinality(Uncounted) - 1) + 0
  BY <1>1, <1>9, <1>10, RequestCounts
<1>13. \A l \in KeyIds, x \in Windows :
         /\ Cardinality(Through(l, x)) \in Nat
         /\ Cardinality(Through(l, x)') = Cardinality(Through(l, x))
              + (IF r.at = "handle" /\ l = k /\ x = w THEN 1 ELSE 0)
  <2> SUFFICES ASSUME NEW l \in KeyIds, NEW x \in Windows
               PROVE  /\ Cardinality(Through(l, x)) \in Nat
                      /\ Cardinality(Through(l, x)') = Cardinality(Through(l, x))
                           + (IF r.at = "handle" /\ l = k /\ x = w THEN 1 ELSE 0)
    OBVIOUS
  <2>1. c \notin Through(l, x)
    BY <1>1 DEF Through, Passing
  <2>2. /\ Cardinality(Through(l, x)) \in Nat
        /\ Cardinality(Through(l, x)') =
             (Cardinality(Through(l, x)) - (IF c \in Through(l, x) THEN 1 ELSE 0))
             + (IF r.at = "handle" /\ r.key = l /\ WindowOf(r.clock) = x THEN 1 ELSE 0)
    <3> DEFINE q == req
               p == req'
    <3>1. q \in [Clients -> Request] /\ p \in [Clients -> Request] /\ p[c] = r
          /\ \A d \in Clients \ {c} : p[d] = q[d]
      BY <1>1, <1>9, <1>10, RequestCounts DEF DoorTypes
    <3>2. /\ Passing(q, l, x) = Through(l, x)
          /\ Passing(p, l, x) = Through(l, x)'
      BY DEF Through
    <3> HIDE DEF q, p
    <3>3. /\ Cardinality(Passing(q, l, x)) \in Nat
          /\ Cardinality(Passing(p, l, x)) =
               (Cardinality(Passing(q, l, x)) - (IF c \in Passing(q, l, x) THEN 1 ELSE 0))
               + (IF r.at = "handle" /\ r.key = l /\ WindowOf(r.clock) = x THEN 1 ELSE 0)
      BY <3>1, <1>10, ThroughCount
    <3> QED
      BY <3>2, <3>3
  <2> QED
    BY <1>10, <2>1, <2>2
\* The counter: one more for this key and window, unless the call had no effect.
<1>14. /\ counter' \in [KeyIds -> [Windows -> Counter]]
       /\ \A l \in KeyIds, x \in Windows : l # k \/ x # w => counter'[l][x] = counter[l][x]
       /\ counter'[k][w] \in {counter[k][w], cnt}
       /\ faults' = faults => counter'[k][w] = cnt
  <2>1. CASE counter' = [counter EXCEPT ![k][w] = cnt]
    BY <1>1, <1>2, <2>1, Cell DEF DoorTypes
  <2>2. CASE counter' = counter /\ faults' = faults + 1
    BY <1>1, <1>8, <2>2 DEF DoorTypes
  <2> QED
    BY <1>6, <2>1, <2>2
<1>15. DoorTypes'
  BY <1>1, <1>6, <1>12, <1>14 DEF DoorTypes
<1>16. \A l \in KeyIds, x \in Windows :
         /\ counter[l][x].n \in Nat /\ queued[l][x] \in Nat
         /\ counter'[l][x].n \in {counter[l][x].n, counter[l][x].n + 1}
  BY <1>1, <1>2, <1>14 DEF DoorTypes, Counter
<1>17. WorkBounded'
  <2> SUFFICES ASSUME NEW l \in KeyIds, NEW x \in Windows
               PROVE  /\ counter'[l][x].n + Cardinality(Uncounted') <= work
                      /\ queued[l][x] + Cardinality(Inside') <= work
    BY <1>6 DEF WorkBounded
  <2>1. /\ counter[l][x].n + Cardinality(Uncounted) <= work
        /\ queued[l][x] + Cardinality(Inside) <= work
    BY DEF DInv, WorkBounded
  <2>2. /\ counter[l][x].n \in Nat /\ queued[l][x] \in Nat
        /\ counter'[l][x].n \in {counter[l][x].n, counter[l][x].n + 1}
    BY <1>16
  <2> QED
    BY <1>8, <1>12, <2>1, <2>2
<1>18. CountersLast'
  <2> SUFFICES ASSUME NEW l \in KeyIds, NEW x \in Windows
               PROVE  /\ counter'[l][x].n = 0 => counter'[l][x].expires = 0
                      /\ counter'[l][x].n # 0 => counter'[l][x].expires > WindowEnd(x)
    BY DEF CountersLast, WindowEnd
  <2>1. /\ counter[l][x].n = 0 => counter[l][x].expires = 0
        /\ counter[l][x].n # 0 => counter[l][x].expires > WindowEnd(x)
    BY DEF DInv, CountersLast
  <2>2. CASE l = k /\ x = w /\ counter'[k][w] = cnt
    <3>1. cnt.n # 0
      BY <1>1, <1>2, <1>16
    <3> QED
      BY <1>2, <2>2, <3>1
  <2>3. CASE counter'[l][x] = counter[l][x]
    BY <2>1, <2>3
  <2> QED
    BY <1>14, <2>2, <2>3
<1>19. PassedCounted'
  <2> SUFFICES ASSUME NEW l \in KeyIds, NEW x \in Windows
               PROVE  /\ Passed(l, x)' <= counter'[l][x].n + faults'
                      /\ Passed(l, x)' <= RateLimit + faults'
    BY DEF PassedCounted
  <2> DEFINE h == Cardinality(Through(l, x))
             q == queued[l][x]
             n == counter[l][x].n
  <2>1. h \in Nat /\ q \in Nat /\ n \in Nat /\ counter'[l][x].n \in {n, n + 1}
    BY <1>13, <1>16
  <2>2. q + h <= n + faults /\ q + h <= RateLimit + faults
    BY DEF DInv, PassedCounted, Passed
  <2>3. Passed(l, x)' = q + Cardinality(Through(l, x)')
    BY <1>6 DEF Passed
  <2> HIDE DEF h, q, n
  <2>4. CASE r.at = "handle" /\ l = k /\ x = w
    <3>1. Cardinality(Through(l, x)') = h + 1
      BY <1>13, <2>4 DEF h
    <3>2. faults' = faults => n + 1 <= RateLimit /\ counter'[l][x].n = n + 1
      BY <1>2, <1>8, <1>9, <1>10, <1>14, <2>4 DEF n
    <3> QED
      BY <1>6, <1>8, <2>1, <2>2, <2>3, <3>1, <3>2
  <2>5. CASE ~(r.at = "handle" /\ l = k /\ x = w)
    <3>1. Cardinality(Through(l, x)') = h
      BY <1>13, <2>1, <2>5 DEF h
    <3> QED
      BY <1>6, <1>8, <2>1, <2>2, <2>3, <3>1
  <2> QED
    BY <2>4, <2>5
<1> QED
  BY <1>7, <1>11, <1>15, <1>17, <1>18, <1>19 DEF DInv

\* A ride request is queued, or its publish fails with or without an entry; it
\* is answered either way.
LEMMA PublishInv ==
  ASSUME KInv, DInv, NEW c \in Clients,
         Publish(c) \/ \E effect \in BOOLEAN : PublishFails(c, effect)
  PROVE  KInv' /\ DInv'
<1> DEFINE k == req[c].key
           w == WindowOf(req[c].clock)
           r == Answered
<1>1. /\ req[c] \in Request /\ req[c].at = "handle" /\ DoorTypes
      /\ k \in KeyIds /\ w \in Windows
  <2>1. req[c] \in Request /\ req[c].at = "handle" /\ DoorTypes /\ k \in KeyIds
    BY DEF Publish, PublishFails, DInv, DoorTypes, AllAdmissible, Admissible
  <2>2. req[c].clock \in Times
    BY <2>1 DEF Request
  <2> QED
    BY <2>1, <2>2, WindowInWindows
<1>2. r \in Request /\ r.at = "none" /\ Admissible(r)
  BY AnsweredType
<1>3. /\ UNCHANGED <<now, work, keyVars, counter, server, expired>>
      /\ req' = [req EXCEPT ![c] = r] /\ open' = open - 1
      /\ faults' \in {faults, faults + 1} /\ faults' \in 0..MaxFaults
      /\ queued' \in {queued, [queued EXCEPT ![k][w] = queued[k][w] + 1]}
  BY ApiKeysAssumption DEF Publish, PublishFails, Enqueued, Answer, Fault, KInv, KeyTypes
<1> HIDE DEF r
<1>4. KInv'
  BY <1>3, KeysStandby DEF KInv, KeyTypes
<1>5. open \in Nat /\ work \in Nat /\ faults \in Nat /\ RateLimit \in Nat
  BY FS_CardinalityType, FrontDoorAssumption DEF DInv, OpenCounted, KInv, KeyTypes
<1>6. OpenCounted' /\ AllAdmissible'
  <2>1. open' = (open - 1) + 0
    BY <1>3, <1>5
  <2> QED
    BY <1>1, <1>2, <1>3, <2>1, MoveInv
<1>7. /\ req' \in [Clients -> Request] /\ req'[c] = r
      /\ \A d \in Clients \ {c} : req'[d] = req[d]
      /\ Cardinality(Inside) \in Nat /\ Cardinality(Uncounted) \in Nat
      /\ Cardinality(Inside') = (Cardinality(Inside) - 1) + 0
      /\ Cardinality(Uncounted') = (Cardinality(Uncounted) - 0) + 0
  BY <1>1, <1>2, <1>3, RequestCounts
<1>8. /\ queued' \in [KeyIds -> [Windows -> Nat]]
      /\ \A l \in KeyIds, x \in Windows :
           /\ l # k \/ x # w => queued'[l][x] = queued[l][x]
           /\ queued'[l][x] \in {queued[l][x], queued[l][x] + 1}
  <2>1. queued[k][w] + 1 \in Nat
    BY <1>1 DEF DoorTypes
  <2>2. CASE queued' = [queued EXCEPT ![k][w] = queued[k][w] + 1]
    <3> HIDE DEF k, w
    <3> QED
      BY <1>1, <2>1, <2>2, Cell DEF DoorTypes
  <2>3. CASE queued' = queued
    BY <1>1, <2>3 DEF DoorTypes
  <2> QED
    BY <1>3, <2>2, <2>3
<1>9. DoorTypes'
  BY <1>1, <1>3, <1>7, <1>8 DEF DoorTypes
<1>10. WorkBounded'
  <2> SUFFICES ASSUME NEW l \in KeyIds, NEW x \in Windows
               PROVE  /\ counter[l][x].n + Cardinality(Uncounted') <= work
                      /\ queued'[l][x] + Cardinality(Inside') <= work
    BY <1>3 DEF WorkBounded
  <2>1. /\ counter[l][x].n + Cardinality(Uncounted) <= work
        /\ queued[l][x] + Cardinality(Inside) <= work
    BY DEF DInv, WorkBounded
  <2>2. counter[l][x].n \in Nat /\ queued[l][x] \in Nat
    BY <1>1 DEF DoorTypes, Counter
  <2> QED
    BY <1>5, <1>7, <1>8, <2>1, <2>2
<1>11. CountersLast'
  BY <1>3 DEF DInv, CountersLast, WindowEnd
<1>12. PassedCounted'
  <2> SUFFICES ASSUME NEW l \in KeyIds, NEW x \in Windows
               PROVE  /\ Passed(l, x)' <= counter[l][x].n + faults'
                      /\ Passed(l, x)' <= RateLimit + faults'
    BY <1>3 DEF PassedCounted
  <2> DEFINE q == req
             p == req'
             h == Cardinality(Through(l, x))
  <2>1. q \in [Clients -> Request] /\ p \in [Clients -> Request] /\ p[c] = r
        /\ \A d \in Clients \ {c} : p[d] = q[d]
    BY <1>1, <1>7 DEF DoorTypes
  <2>2. /\ Passing(q, l, x) = Through(l, x) /\ Passing(p, l, x) = Through(l, x)'
        /\ c \in Passing(q, l, x) <=> l = k /\ x = w
    BY <1>1 DEF Through, Passing
  <2> HIDE DEF q, p, k, w
  <2>3. /\ Cardinality(Passing(q, l, x)) \in Nat
        /\ Cardinality(Passing(p, l, x)) =
             (Cardinality(Passing(q, l, x)) - (IF c \in Passing(q, l, x) THEN 1 ELSE 0))
             + (IF r.at = "handle" /\ r.key = l /\ WindowOf(r.clock) = x THEN 1 ELSE 0)
    BY <1>2, <2>1, ThroughCount
  <2>4. h \in Nat /\ Cardinality(Through(l, x)') = h - (IF l = k /\ x = w THEN 1 ELSE 0)
    BY <1>2, <2>2, <2>3
  <2>5. queued[l][x] + h <= counter[l][x].n + faults /\ queued[l][x] + h <= RateLimit + faults
    BY DEF DInv, PassedCounted, Passed
  <2>6. Passed(l, x)' = queued'[l][x] + Cardinality(Through(l, x)')
    BY DEF Passed
  <2>7. counter[l][x].n \in Nat /\ queued[l][x] \in Nat
    BY <1>1 DEF DoorTypes, Counter
  <2> HIDE DEF h
  <2>8. Passed(l, x)' <= queued[l][x] + h /\ Passed(l, x)' \in Int
    BY <1>8, <2>4, <2>6, <2>7
  <2> QED
    BY <1>3, <1>5, <2>4, <2>5, <2>7, <2>8
<1> QED
  BY <1>4, <1>6, <1>9, <1>10, <1>11, <1>12 DEF DInv

\* Every step of a request in the server keeps both invariants.
LEMMA ServeInv ==
  ASSUME KInv, DInv, NEW c \in Clients, Serve(c)
  PROVE  KInv' /\ DInv'
BY ArriveInv, VerifyInv, AllowInv, PublishInv DEF Serve

-----------------------------------------------------------------------------
(* main, the clock and the operators *)

\* What is left of the requests when main has returned.
LEMMA NobodyInside ==
  ASSUME req = [c \in Clients |-> Answered]
  PROVE  /\ req \in [Clients -> Request]
         /\ Inside = {} /\ Uncounted = {} /\ \A k, w : Through(k, w) = {}
         /\ AllAdmissible
<1>1. Answered \in Request /\ Answered.at = "none" /\ Admissible(Answered)
  BY AnsweredType
<1> HIDE DEF Answered
<1> QED
  BY <1>1 DEF Inside, Uncounted, Through, Passing, AllAdmissible

\* Boot and the signal.
LEMMA PhaseInv ==
  ASSUME KInv, DInv, Boot \/ Signal
  PROVE  KInv' /\ DInv'
<1>1. /\ UNCHANGED <<now, work, keyVars, req, counter, queued, open, expired>>
      /\ faults' \in {faults, faults + 1} /\ faults' \in 0..MaxFaults
      /\ \/ server = "starting" /\ server' \in {"up", "down"}
         \/ server = "up" /\ server' = "shutdown"
  <2>1. faults \in 0..MaxFaults
    BY DEF KInv, KeyTypes
  <2>2. \/ UNCHANGED faults
        \/ faults < MaxFaults /\ faults' = faults + 1
    BY DEF Boot, Signal, Open, Fault
  <2>3. faults' \in {faults, faults + 1} /\ faults' \in 0..MaxFaults
    BY <2>1, <2>2, ApiKeysAssumption
  <2> QED
    BY <2>3 DEF Boot, Signal, Open
<1>2. KInv'
  BY <1>1, KeysStandby DEF KInv, KeyTypes
<1>3. Inside' = Inside /\ Uncounted' = Uncounted
  BY <1>1 DEF Inside, Uncounted
<1>4. DoorTypes' /\ WorkBounded'
  BY <1>1, <1>3 DEF DInv, DoorTypes, WorkBounded
<1>5. AllAdmissible' /\ CountersLast'
  BY <1>1 DEF DInv, AllAdmissible, Admissible, CountersLast, WindowEnd, keyVars
<1>6. OpenCounted'
  BY <1>1, <1>3, FS_EmptySet DEF DInv, OpenCounted
<1>7. PassedCounted'
  <2> SUFFICES ASSUME NEW k \in KeyIds, NEW w \in Windows
               PROVE  /\ Passed(k, w)' <= counter[k][w].n + faults'
                      /\ Passed(k, w)' <= RateLimit + faults'
    BY <1>1 DEF PassedCounted
  <2>1. Passed(k, w)' = Passed(k, w)
    BY <1>1 DEF Passed, Through, Passing
  <2>2. Passed(k, w) <= counter[k][w].n + faults /\ Passed(k, w) <= RateLimit + faults
    BY DEF DInv, PassedCounted
  <2>3. counter[k][w].n \in Nat /\ faults \in Nat /\ Passed(k, w) \in Nat
    <3>1. Through(k, w) \subseteq Clients
      BY DEF Through, Passing
    <3>2. Cardinality(Through(k, w)) \in Nat
      BY <3>1, ClientSetsFinite
    <3> QED
      BY <3>2 DEF DInv, DoorTypes, Counter, KInv, KeyTypes, Passed
  <2> QED
    BY <1>1, <2>1, <2>2, <2>3, FrontDoorAssumption
<1> QED
  BY <1>2, <1>4, <1>5, <1>6, <1>7 DEF DInv

\* The return of httpSrv.Shutdown, in time or not, keeps both invariants.
LEMMA ReturnInv ==
  ASSUME KInv, DInv, Return \/ ReturnExpired
  PROVE  KInv' /\ DInv'
<1>1. /\ UNCHANGED <<now, work, keyVars, counter, queued, open>>
      /\ faults' \in {faults, faults + 1} /\ faults' \in 0..MaxFaults
      /\ server = "shutdown" /\ server' = "down" /\ expired' \in BOOLEAN
      /\ req' = [c \in Clients |-> Answered]
      /\ ~expired' => Drained
  <2>1. faults \in 0..MaxFaults /\ expired \in BOOLEAN
    BY DEF KInv, KeyTypes, DInv, DoorTypes
  <2>2. CASE Return
    <3>1. /\ UNCHANGED <<now, work, faults, keyVars, counter, queued, open, expired>> /\ Drained
          /\ server = "shutdown" /\ server' = "down" /\ req' = [c \in Clients |-> Answered]
      BY <2>2 DEF Return
    <3> QED
      BY <2>1, <3>1
  <2>3. CASE ReturnExpired
    <3>1. /\ UNCHANGED <<now, work, keyVars, counter, queued, open>> /\ expired' = TRUE
          /\ server = "shutdown" /\ server' = "down" /\ req' = [c \in Clients |-> Answered]
      BY <2>3 DEF ReturnExpired
    <3>2. faults' = faults + 1 /\ faults' \in 0..MaxFaults
      BY <2>1, <2>3, ApiKeysAssumption DEF ReturnExpired, Fault
    <3> QED
      BY <3>1, <3>2
  <2> QED
    BY <2>2, <2>3
<1>2. KInv'
  BY <1>1, KeysStandby DEF KInv, KeyTypes
<1>3. /\ req' \in [Clients -> Request] /\ AllAdmissible'
      /\ Inside' = {} /\ Uncounted' = {}
  <2>1. Answered \in Request /\ Answered.at = "none"
    BY AnsweredType
  <2>2. \A c \in Clients : Admissible(req[c])'
    BY <1>1 DEF Answered, Admissible
  <2> HIDE DEF Answered
  <2> QED
    BY <1>1, <2>1, <2>2 DEF Inside, Uncounted, AllAdmissible
<1>4. Cardinality({}) = 0
  BY FS_EmptySet
<1>5. DoorTypes'
  BY <1>1, <1>3 DEF DInv, DoorTypes
<1>6. Cardinality(Inside) \in Nat /\ Cardinality(Uncounted) \in Nat
  <2>1. Inside \subseteq Clients /\ Uncounted \subseteq Clients
    BY DEF Inside, Uncounted
  <2> HIDE DEF Inside, Uncounted
  <2> QED
    BY <2>1, ClientSetsFinite
<1>7. WorkBounded'
  <2> SUFFICES ASSUME NEW k \in KeyIds, NEW w \in Windows
               PROVE  counter[k][w].n + 0 <= work /\ queued[k][w] + 0 <= work
    BY <1>1, <1>3, <1>4 DEF WorkBounded
  <2>1. /\ counter[k][w].n + Cardinality(Uncounted) <= work
        /\ queued[k][w] + Cardinality(Inside) <= work
    BY DEF DInv, WorkBounded
  <2>2. counter[k][w].n \in Nat /\ queued[k][w] \in Nat /\ work \in Nat
    BY DEF DInv, DoorTypes, Counter, KInv, KeyTypes
  <2> QED
    BY <1>6, <2>1, <2>2
<1>8. OpenCounted'
  <2>1. open \in 0..Cardinality(Clients) /\ open = Cardinality(Inside)
    BY <1>1 DEF DInv, OpenCounted
  <2>2. ~expired' => Inside = {}
    BY <1>1 DEF Drained, Running, Inside
  <2>3. ~expired' => open = 0
    BY <1>4, <2>1, <2>2
  <2> QED
    BY <1>1, <1>3, <2>1, <2>3 DEF OpenCounted
<1>9. CountersLast'
  BY <1>1 DEF DInv, CountersLast, WindowEnd
<1>10. PassedCounted'
  <2> SUFFICES ASSUME NEW k \in KeyIds, NEW w \in Windows
               PROVE  /\ Passed(k, w)' <= counter[k][w].n + faults'
                      /\ Passed(k, w)' <= RateLimit + faults'
    BY <1>1 DEF PassedCounted
  <2>1. Through(k, w)' = {}
    <3>1. Answered.at = "none"
      BY AnsweredType
    <3> HIDE DEF Answered
    <3> QED
      BY <1>1, <3>1 DEF Through, Passing
  <2>2. Passed(k, w)' = queued[k][w] + 0
    BY <1>1, <1>4, <2>1 DEF Passed
  <2>3. /\ queued[k][w] + Cardinality(Through(k, w)) <= counter[k][w].n + faults
        /\ queued[k][w] + Cardinality(Through(k, w)) <= RateLimit + faults
    BY DEF DInv, PassedCounted, Passed
  <2>4. Through(k, w) \subseteq Clients
    BY DEF Through, Passing
  <2>5. Cardinality(Through(k, w)) \in Nat
    BY <2>4, ClientSetsFinite
  <2>6. counter[k][w].n \in Nat /\ queued[k][w] \in Nat /\ faults \in Nat
    BY DEF DInv, DoorTypes, Counter, KInv, KeyTypes
  <2> QED
    BY <1>1, <2>2, <2>3, <2>5, <2>6, FrontDoorAssumption
<1> QED
  BY <1>2, <1>3, <1>5, <1>7, <1>8, <1>9, <1>10 DEF DInv

\* Requests while the clock ticks or the operators work: nothing moves but the
\* clock, the records, and the numbers of calls and commands.
LEMMA StandbyInv ==
  ASSUME KInv, DInv, KInv', UNCHANGED doorVars,
         now' \in {now, now + 1}, work' \in {work, work + 1}, faults' \in {faults, faults + 1},
         now' # now => \A c \in Clients : req[c].at = "count" => req[c].clock = now
  PROVE  DInv'
<1>1. UNCHANGED <<req, counter, queued, open, server, expired>>
  BY DEF doorVars
<1>2. Inside' = Inside /\ Uncounted' = Uncounted
  BY <1>1 DEF Inside, Uncounted
<1>3. /\ Inside \subseteq Clients /\ Uncounted \subseteq Clients
      /\ \A k, w : Through(k, w) \subseteq Clients
  BY DEF Inside, Uncounted, Through, Passing
<1>4. /\ Cardinality(Inside) \in Nat /\ Cardinality(Uncounted) \in Nat
      /\ \A k, w : Cardinality(Through(k, w)) \in Nat
  <2> HIDE DEF Inside, Uncounted, Through
  <2> QED
    BY <1>3, ClientSetsFinite
<1>5. work \in Nat /\ faults \in Nat /\ now \in Nat
  BY DEF KInv, KeyTypes
<1>6. \A k \in KeyIds, w \in Windows :
        counter[k][w].n \in Nat /\ queued[k][w] \in Nat
  BY DEF DInv, DoorTypes, Counter
<1>7. DoorTypes' /\ OpenCounted'
  BY <1>1, <1>2 DEF DInv, DoorTypes, OpenCounted
<1>8. WorkBounded'
  <2> SUFFICES ASSUME NEW k \in KeyIds, NEW w \in Windows
               PROVE  /\ counter[k][w].n + Cardinality(Uncounted) <= work'
                      /\ queued[k][w] + Cardinality(Inside) <= work'
    BY <1>1, <1>2 DEF WorkBounded
  <2>1. /\ counter[k][w].n + Cardinality(Uncounted) <= work
        /\ queued[k][w] + Cardinality(Inside) <= work
    BY DEF DInv, WorkBounded
  <2> QED
    BY <1>4, <1>5, <1>6, <2>1
<1>9. AllAdmissible'
  <2> SUFFICES ASSUME NEW c \in Clients PROVE Admissible(req[c])'
    BY DEF AllAdmissible
  <2>1. Admissible(req[c]) /\ req[c] \in Request /\ req'[c] = req[c]
    BY <1>1 DEF DInv, AllAdmissible, DoorTypes
  <2>2. req[c].clock \in Nat
    BY <2>1 DEF Request, Times
  <2> QED
    BY <1>1, <1>5, <2>1, <2>2 DEF Admissible
<1>10. CountersLast'
  BY <1>1 DEF DInv, CountersLast, WindowEnd
<1>11. PassedCounted'
  <2> SUFFICES ASSUME NEW k \in KeyIds, NEW w \in Windows
               PROVE  /\ Passed(k, w)' <= counter[k][w].n + faults'
                      /\ Passed(k, w)' <= RateLimit + faults'
    BY <1>1 DEF PassedCounted
  <2>1. Passed(k, w)' = Passed(k, w)
    BY <1>1 DEF Passed, Through, Passing
  <2>2. Passed(k, w) <= counter[k][w].n + faults /\ Passed(k, w) <= RateLimit + faults
    BY DEF DInv, PassedCounted
  <2>3. Passed(k, w) \in Nat
    BY <1>4, <1>6 DEF Passed
  <2> QED
    BY <1>5, <1>6, <2>1, <2>2, <2>3, FrontDoorAssumption
<1> QED
  BY <1>7, <1>8, <1>9, <1>10, <1>11 DEF DInv

\* Every step of the front door keeps both invariants.
LEMMA StepInv ==
  ASSUME KInv, DInv, [Next]_vars
  PROVE  KInv' /\ DInv'
<1>1. now \in Nat /\ work \in Nat /\ faults \in Nat
  BY DEF KInv, KeyTypes
<1>2. CASE \E o \in Operators : keyadmin(o) /\ UNCHANGED doorVars
  BY <1>2, KeyadminInv, StandbyInv DEF KeyEffect
<1>3. CASE \E c \in Clients : Serve(c)
  BY <1>3, ServeInv
<1>4. CASE Boot \/ Signal \/ Return \/ ReturnExpired
  BY <1>4, PhaseInv, ReturnInv
<1>5. CASE Tick
  <2>1. /\ UNCHANGED <<work, faults, keyVars, doorVars>>
        /\ now' = now + 1 /\ now' \in 1..MaxTime
    BY <1>5, ApiKeysAssumption DEF Tick, KInv, KeyTypes
  <2>2. KInv'
    BY <2>1, KeysStandby DEF KInv, KeyTypes
  <2> QED
    BY <1>1, <1>5, <2>1, <2>2, StandbyInv DEF Tick, keyVars
<1>6. CASE UNCHANGED vars
  <2>1. UNCHANGED <<now, work, faults, keyVars, doorVars>>
    BY <1>6 DEF vars
  <2>2. KInv'
    BY <2>1, KeysStandby DEF KInv, KeyTypes
  <2> QED
    BY <1>1, <2>1, <2>2, StandbyInv DEF keyVars
<1> QED
  BY <1>2, <1>3, <1>4, <1>5, <1>6 DEF Next

-----------------------------------------------------------------------------
(* Theorems *)

\* Both invariants hold at first.
LEMMA InitInv == Init => KInv /\ DInv
<1> SUFFICES ASSUME Init PROVE KInv /\ DInv
  OBVIOUS
<1>1. NoRecord \in Records /\ Idle \in Step /\ Idle.at = "idle"
      /\ NoRecord.rev = 0 /\ NoRecord.from = None
  BY RecordTypes DEF NoRecord
<1>2. Cardinality({}) = 0
  BY FS_EmptySet
<1>3. KeyTypes
  <2> HIDE DEF NoRecord, Idle
  <2>1. 0 \in Times
    BY ApiKeysAssumption DEF Times
  <2> QED
    BY <1>1, <2>1, ApiKeysAssumption DEF Init, KeysInit, KeyTypes
<1>4. KInv
  <2> HIDE DEF NoRecord, Idle
  <2>3. BlankRecords /\ HeldListed /\ OverlapAhead /\ KilledRevoked
    BY <1>1 DEF Init, KeysInit, BlankRecords, HeldListed, OverlapAhead, KilledRevoked
  <2>4. RotationsOwn /\ FreshDistinct
    BY <1>1 DEF Init, KeysInit, RotationsOwn, FreshDistinct, Minting
  <2> QED
    BY <1>3, <2>3, <2>4 DEF KInv
<1>5. /\ req \in [Clients -> Request] /\ Inside = {} /\ Uncounted = {}
      /\ (\A k, w : Through(k, w) = {}) /\ AllAdmissible
  BY NobodyInside DEF Init
<1>6. DoorTypes
  <2>1. NoCounter \in Counter
    BY DEF NoCounter, Counter
  <2> HIDE DEF NoCounter
  <2> QED
    BY <1>5, <2>1 DEF Init, DoorTypes
<1>7. WorkBounded /\ CountersLast /\ PassedCounted
  <2>1. \A k \in KeyIds, w \in Windows : counter[k][w] = NoCounter /\ queued[k][w] = 0
    BY DEF Init
  <2>2. NoCounter.n = 0 /\ NoCounter.expires = 0
    BY DEF NoCounter
  <2>3. work = 0 /\ faults = 0
    BY DEF Init, KeysInit
  <2> HIDE DEF NoCounter
  <2>4. WorkBounded
    BY <1>2, <1>5, <2>1, <2>2, <2>3 DEF WorkBounded
  <2>5. CountersLast
    BY <2>1, <2>2 DEF CountersLast
  <2>6. ASSUME NEW k \in KeyIds, NEW w \in Windows PROVE Passed(k, w) = 0
    <3>1. Through(k, w) = {} /\ queued[k][w] = 0
      BY <1>5, <2>1
    <3> QED
      BY <1>2, <3>1 DEF Passed
  <2>7. PassedCounted
    BY <2>1, <2>2, <2>3, <2>6, FrontDoorAssumption DEF PassedCounted
  <2> QED
    BY <2>4, <2>5, <2>7
<1>8. OpenCounted
  BY <1>2, <1>5, FS_CardinalityType, FrontDoorAssumption DEF Init, OpenCounted
<1> QED
  BY <1>4, <1>5, <1>6, <1>7, <1>8 DEF DInv

\* Both invariants hold always.
LEMMA FrontDoorInvariant == Spec => [](KInv /\ DInv)
<1>1. (KInv /\ DInv) /\ [Next]_vars => (KInv /\ DInv)'
  BY StepInv
<1> QED
  BY InitInv, <1>1, PTL DEF Spec

\* Every variable of requestd and of keyadmin keeps its type; a request counts
\* itself and is queued at most once.
THEOREM FrontDoorTypeCorrect == Spec => []TypeOK
<1>1. KInv /\ DInv => TypeOK
  <2> SUFFICES ASSUME KInv, DInv PROVE TypeOK
    OBVIOUS
  <2>1. KeysTypeOK
    <3>2. now \in Times
      BY DEF KInv, KeyTypes, Times
    <3> QED
      BY <3>2 DEF KInv, KeyTypes, KeysTypeOK, Step
  <2>2. Inside \subseteq Clients /\ Uncounted \subseteq Clients
    BY DEF Inside, Uncounted
  <2>3. Cardinality(Inside) \in Nat /\ Cardinality(Uncounted) \in Nat
    <3> HIDE DEF Inside, Uncounted
    <3> QED
      BY <2>2, ClientSetsFinite
  <2>4. \A k \in KeyIds, w \in Windows :
          counter[k][w] \in [n : 0..work, expires : Nat] /\ queued[k][w] \in 0..work
    <3> SUFFICES ASSUME NEW k \in KeyIds, NEW w \in Windows
                 PROVE  counter[k][w] \in [n : 0..work, expires : Nat] /\ queued[k][w] \in 0..work
      OBVIOUS
    <3>1. counter[k][w] \in [n : Nat, expires : Nat] /\ queued[k][w] \in Nat /\ work \in Nat
      BY DEF DInv, DoorTypes, Counter, KInv, KeyTypes
    <3>2. counter[k][w].n <= work /\ queued[k][w] <= work
      BY <2>3, <3>1 DEF DInv, WorkBounded
    <3> QED
      BY <3>1, <3>2
  <2>5. counter \in [KeyIds -> [Windows -> [n : 0..work, expires : Nat]]]
    BY <2>4 DEF DInv, DoorTypes
  <2>6. queued \in [KeyIds -> [Windows -> 0..work]]
    BY <2>4 DEF DInv, DoorTypes
  <2> QED
    BY <2>1, <2>5, <2>6 DEF DInv, DoorTypes, OpenCounted, Request, TypeOK
<1> QED
  BY <1>1, FrontDoorInvariant, PTL

\* Every key that was shown is listed, through half-done saves and commands that
\* die between two calls.
THEOREM KeysListed == Spec => []HeldListed
BY FrontDoorInvariant, PTL DEF KInv

\* A key that nobody revoked stops working only after its holder has had its
\* successor for the whole overlap, however rotations of one key interleave.
THEOREM KeysOverlap == Spec => []OverlapKept
<1>1. KInv => OverlapKept
  <2> SUFFICES ASSUME KInv, NEW k \in KeyIds, k \notin cut,
                      ~Active(rec[k], now), ~Expired(rec[k])
               PROVE  \E f \in KeyIds :
                        rec[f].from = k /\ held[f] # 0 /\ held[f] + Overlap <= now
    BY DEF OverlapKept
  <2>1. rec[k] \in Records /\ now \in Nat
    BY DEF KInv, KeyTypes
  <2>2. rec[k].rev # 0 /\ rec[k].rev <= now /\ rec[k].rev \in Nat
    BY <2>1 DEF Active, Expired, Records
  <2> PICK f \in KeyIds : Succeeds(f, k)
    BY <2>2 DEF KInv, OverlapAhead
  <2>3. held[f] \in Nat
    BY DEF KInv, KeyTypes, Times
  <2> QED
    BY <2>1, <2>2, <2>3, ApiKeysAssumption DEF Succeeds
<1> QED
  BY <1>1, FrontDoorInvariant, PTL

\* At most RateLimit requests of a key reach the queue in a window, and one more
\* for each call that failed: the counter is never started twice in a window.
THEOREM RateLimited == Spec => []RateBound
<1>1. KInv /\ DInv => RateBound
  <2> SUFFICES ASSUME KInv, DInv, NEW k \in KeyIds, NEW w \in Windows
               PROVE  queued[k][w] <= RateLimit + faults
    BY DEF RateBound
  <2>1. Through(k, w) \subseteq Clients
    BY DEF Through, Passing
  <2>2. Cardinality(Through(k, w)) \in Nat
    BY <2>1, ClientSetsFinite
  <2>3. queued[k][w] + Cardinality(Through(k, w)) <= RateLimit + faults
    BY DEF DInv, PassedCounted, Passed
  <2>4. queued[k][w] \in Nat /\ faults \in Nat
    BY DEF DInv, DoorTypes, KInv, KeyTypes
  <2> QED
    BY <2>2, <2>3, <2>4, FrontDoorAssumption
<1> QED
  BY <1>1, FrontDoorInvariant, PTL

\* A key that was reported revoked is out, or will be within an overlap: no copy
\* that a Rotate took earlier brings it back for good.
THEOREM RevocationKept == Spec => []RevocationLasts
<1>1. KInv => RevocationLasts
  <2> SUFFICES ASSUME KInv, NEW k \in killed
               PROVE  ~Active(rec[k], now + Overlap)
    BY DEF RevocationLasts
  <2>1. rec[k] \in Records /\ now \in Nat /\ Overlap \in Nat
    BY ApiKeysAssumption DEF KInv, KeyTypes
  <2>2. rec[k].rev # 0 /\ rec[k].rev <= now + Overlap /\ rec[k].rev \in Nat
    BY <2>1 DEF KInv, KilledRevoked, Records
  <2> QED
    BY <2>1, <2>2 DEF Active
<1> QED
  BY <1>1, FrontDoorInvariant, PTL

\* A shutdown within its fifteen seconds answers every request that arrived.
THEOREM NobodyDropped == Spec => []NobodyCutOff
<1>1. DInv => NobodyCutOff
  BY DEF DInv, OpenCounted, NobodyCutOff
<1> QED
  BY <1>1, FrontDoorInvariant, PTL
=============================================================================
