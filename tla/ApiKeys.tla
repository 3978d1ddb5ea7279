------------------------------ MODULE ApiKeys ------------------------------
(***************************************************************************)
(* API keys in Redis (internal/auth/redis_store.go) and the operators who  *)
(* create, rotate and revoke them with cmd/keyadmin.                       *)
(*                                                                         *)
(* A keyadmin command is a sequence of Redis calls that other commands, and *)
(* the requests of FrontDoor, fall between: Rotate reads a record and       *)
(* writes it back three calls later.  A call that fails may have had its    *)
(* effect, or half of it; a command killed or out of its ten seconds        *)
(* between two calls is one whose next call fails without effect.           *)
(*                                                                         *)
(* A time of 0 is Go's zero time: no expiry, not revoked.                   *)
(***************************************************************************)
EXTENDS Integers, FiniteSets

CONSTANTS
  KeyIds,       \* what GenerateKey returns, never the same id twice
  Operators,    \* concurrent runs of keyadmin
  Lifetimes,    \* values of --ttl, 0 for no expiry
  Overlap,      \* --overlap of rotate
  None,         \* no key
  MaxTime,      \* bound on the clock
  MaxWork,      \* bound on keyadmin commands and requests together
  MaxFaults     \* bound on calls that fail

ASSUME ApiKeysAssumption ==
  /\ Lifetimes \subseteq Nat /\ Overlap \in Nat
  /\ MaxTime \in Nat \ {0} /\ MaxWork \in Nat /\ MaxFaults \in Nat
  /\ None \notin KeyIds

VARIABLES
  now,       \* the wall clock, the same for every process
  rec,       \* apikey:<id>, the hash of every key
  listed,    \* apikey:tenant:<id>, the tenant's set of keys
  command,   \* what every operator's command is about to do
  work,      \* commands started, and requests
  faults,    \* calls failed
  \* What the operators were told, for the properties only.
  held,      \* when the raw key was shown, 0 if it was not
  killed,    \* keys keyadmin has reported revoked
  cut        \* keys revoked, or retired by a Rotate that showed no new key

keyVars == <<rec, listed, command, held, killed, cut>>

Times == 0..MaxTime

NoRecord == [exists |-> FALSE, exp |-> 0, rev |-> 0, from |-> None]

\* Commands waiting for nothing.
Idle == [at |-> "idle", key |-> None, old |-> NoRecord, ttl |-> 0,
         fresh |-> None, freshKey |-> NoRecord]

KeysInit ==
  /\ now = 1
  /\ rec = [k \in KeyIds |-> NoRecord] /\ listed = {}
  /\ command = [o \in Operators |-> Idle] /\ work = 0 /\ faults = 0
  /\ held = [k \in KeyIds |-> 0] /\ killed = {}
  /\ cut = {}

\* APIKey.Active.
Active(key, at) ==
  /\ key.rev # 0 => at < key.rev
  /\ key.exp # 0 => at < key.exp

Expired(key) == key.exp # 0 /\ now >= key.exp

-----------------------------------------------------------------------------
(* Store *)

\* save writing every field: the zero time of a copy clears a revocation.
SavedWhole(stored, key) ==
  [exists |-> TRUE, exp |-> key.exp, rev |-> key.rev, from |-> key.from]

\* HSET overwrites the fields it is given; save gives it no zero time.
Saved(stored, key) ==
  [exists |-> TRUE,
   exp  |-> IF key.exp # 0 THEN key.exp ELSE stored.exp,
   rev  |-> IF key.rev # 0 THEN key.rev ELSE stored.rev,
   from |-> IF key.from # None THEN key.from ELSE stored.from]

\* Lookup: the record HGETALL returns; a field that is not there is a zero time.
Fetched(k) == rec[k]

\* How a call ends: it answers, or it fails with its whole effect, with that of
\* the pipeline's first command only, or with none.
Outcomes == {"done", "lost", "half", "none"}

MayFail(out) ==
  /\ out # "done" => faults < MaxFaults
  /\ faults' = faults + IF out = "done" THEN 0 ELSE 1

\* save looking at the first command's error only.
SucceededByHSet(out) == out \in {"done", "half"}

\* Exec returns the first error of the pipeline.
Succeeded(out) == out = "done"

\* save: HSET and SADD in one pipeline.
save(k, key, out) ==
  /\ MayFail(out)
  /\ rec' = IF out = "none" THEN rec ELSE [rec EXCEPT ![k] = Saved(@, key)]
  /\ listed' = IF out \in {"done", "lost"} THEN listed \cup {k} ELSE listed

\* An id GenerateKey has not returned.
Unused(k) == ~rec[k].exists /\ \A o \in Operators : command[o].fresh # k

\* The record Create saves: a lifetime that is not positive is none.
Minted(ttl) ==
  [exists |-> TRUE, exp |-> IF ttl > 0 THEN now + ttl ELSE 0, rev |-> 0, from |-> None]

Do(o, step) == command' = [command EXCEPT ![o] = step]
Start == work < MaxWork /\ work' = work + 1

-----------------------------------------------------------------------------
(* keyadmin create *)

\* Create: the raw key is shown only when the record was saved.
Create(o, k, ttl, out) ==
  /\ command[o] = Idle /\ Start
  /\ Unused(k)
  /\ save(k, Minted(ttl), out)
  /\ held' = IF Succeeded(out) THEN [held EXCEPT ![k] = now] ELSE held
  /\ UNCHANGED <<now, command, killed, cut>>

-----------------------------------------------------------------------------
(* keyadmin rotate *)

\* Rotate's Lookup, and the lifetime left for the replacement.
RotateLookup(o, k) ==
  /\ command[o] = Idle /\ Start
  /\ Fetched(k).exists
  /\ Do(o, [Idle EXCEPT !.at = "mint", !.key = k, !.old = Fetched(k),
                        !.ttl = IF Fetched(k).exp # 0 THEN Fetched(k).exp - now ELSE 0])
  /\ UNCHANGED <<now, rec, listed, faults, held, killed, cut>>

\* Rotate's Create of the replacement.
RotateMint(o, f, out) ==
  /\ command[o].at = "mint"
  /\ Unused(f)
  /\ save(f, Minted(command[o].ttl), out)
  /\ Do(o, IF Succeeded(out)
           THEN [command[o] EXCEPT !.at = "link", !.fresh = f,
                                   !.freshKey = Minted(command[o].ttl)]
           ELSE Idle)
  /\ UNCHANGED <<now, work, held, killed, cut>>

\* Rotate saves the replacement again, with RotatedFrom.
RotateLink(o, out) ==
  /\ command[o].at = "link"
  /\ save(command[o].fresh, [command[o].freshKey EXCEPT !.from = command[o].key], out)
  /\ Do(o, IF Succeeded(out) THEN [command[o] EXCEPT !.at = "retire"] ELSE Idle)
  /\ UNCHANGED <<now, work, held, killed, cut>>

\* The old key as Rotate revokes it, at once.
RetiredNow(old) == [old EXCEPT !.rev = now]

\* The old key as Rotate leaves it: revoked when the overlap is over, whatever
\* has happened to the record since Lookup.
Retired(old) == [old EXCEPT !.rev = now + Overlap]

\* Rotate's last save; only now is the new key shown.
RotateRetire(o, out) ==
  /\ command[o].at = "retire"
  /\ LET k == command[o].key IN
       /\ save(k, Retired(command[o].old), out)
       /\ held' = IF Succeeded(out) THEN [held EXCEPT ![command[o].fresh] = now] ELSE held
       /\ cut' = IF Succeeded(out) \/ out = "none" THEN cut ELSE cut \cup {k}
  /\ Do(o, Idle)
  /\ UNCHANGED <<now, work, killed>>

-----------------------------------------------------------------------------
(* keyadmin revoke *)

\* Revoke's EXISTS; a key that is not there ends the command.
RevokeExists(o, k) ==
  /\ command[o] = Idle /\ Start
  /\ rec[k].exists
  /\ Do(o, [Idle EXCEPT !.at = "revoke", !.key = k])
  /\ UNCHANGED <<now, rec, listed, faults, held, killed, cut>>

\* Revoke's HSET of revoked_at, one command: it has effect or not.
RevokeSet(o, out) ==
  /\ command[o].at = "revoke" /\ out # "half"
  /\ MayFail(out)
  /\ LET k == command[o].key IN
       /\ rec' = IF out = "none" THEN rec ELSE [rec EXCEPT ![k].rev = now]
       /\ killed' = IF Succeeded(out) THEN killed \cup {k} ELSE killed
       /\ cut' = IF out = "none" THEN cut ELSE cut \cup {k}
  /\ Do(o, Idle)
  /\ UNCHANGED <<now, listed, work, held>>

\* main's switch over the commands that write; list only reads.
keyadmin(o) ==
  \/ \E k \in KeyIds, ttl \in Lifetimes, out \in Outcomes : Create(o, k, ttl, out)
  \/ \E k \in KeyIds : RotateLookup(o, k) \/ RevokeExists(o, k)
  \/ \E f \in KeyIds, out \in Outcomes : RotateMint(o, f, out)
  \/ \E out \in Outcomes : RotateLink(o, out) \/ RotateRetire(o, out) \/ RevokeSet(o, out)

-----------------------------------------------------------------------------
(* Properties *)

Records ==
  [exists : BOOLEAN, exp : Nat, rev : Nat, from : KeyIds \cup {None}]

KeysTypeOK ==
  /\ now \in Times
  /\ rec \in [KeyIds -> Records] /\ listed \subseteq KeyIds
  /\ command \in [Operators ->
       [at : {"idle", "mint", "link", "retire", "revoke"}, key : KeyIds \cup {None},
        old : Records, ttl : Int, fresh : KeyIds \cup {None}, freshKey : Records]]
  /\ work \in 0..MaxWork /\ faults \in 0..MaxFaults
  /\ held \in [KeyIds -> Times] /\ killed \subseteq KeyIds
  /\ cut \subseteq KeyIds

\* HeldListed: every key that was ever shown, by create or rotate and through
\* whatever half-done saves, is in its tenant's set, where keyadmin list finds it
\* for a later rotate or revoke.
HeldListed == \A k \in KeyIds : held[k] # 0 => k \in listed

\* OverlapKept: a key that stopped working although nobody revoked it and it has
\* not expired was rotated by a command that succeeded, and its holder has had a
\* key that names it as its predecessor for the whole overlap.  Concurrent
\* rotations of one key write the record over each other.
OverlapKept ==
  \A k \in KeyIds :
    (held[k] # 0 /\ k \notin cut /\ ~Active(rec[k], now) /\ ~Expired(rec[k])) =>
      \E f \in KeyIds :
        rec[f].from = k /\ held[f] # 0 /\ held[f] + Overlap <= now

\* RevocationLasts: a key that was reported revoked is out, or will be when an
\* overlap has passed.  Rotate saves copies it took before: of the old key, which
\* it may let in again for an overlap (RevokedStaysOut of FrontDoor), and of its
\* replacement, which another operator may have revoked since it was minted.
\* Neither copy brings a revoked key back for good.
RevocationLasts == \A k \in killed : ~Active(rec[k], now + Overlap)
=============================================================================
