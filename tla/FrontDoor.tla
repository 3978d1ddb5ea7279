----------------------------- MODULE FrontDoor -----------------------------
(***************************************************************************)
(* requestd: the ride-request API (internal/api/server.go) behind the      *)
(* API-key middleware (internal/auth/middleware.go, Verify) and its rate   *)
(* limit (RedisStore.Allow), started and stopped by cmd/requestd/main.go,  *)
(* while operators change the keys (ApiKeys).                              *)
(*                                                                         *)
(* A request is a goroutine: it reads the clock, looks its key up, counts  *)
(* itself, and is handled, with every Redis call a step of its own.        *)
(***************************************************************************)
EXTENDS ApiKeys

CONSTANTS
  Clients,      \* connections
  RateLimit,    \* RateLimitPerMinute of every key
  Window,       \* length of a rate-limit window, 60 s in the code
  CounterTTL    \* EXPIRE of its counter, 70 s

\* The counter must outlive its window by more than a call takes.
ASSUME FrontDoorAssumption ==
  /\ RateLimit \in Nat \ {0} /\ Window \in Nat \ {0}
  /\ CounterTTL \in Nat /\ CounterTTL > Window
  /\ IsFiniteSet(Clients)

VARIABLES
  req,       \* the request of every client
  counter,   \* ratelimit:<key>:<window>: count and expiry
  queued,    \* entries Publish added to the stream, by key and window
  open,      \* requests that have arrived and were not answered
  server,    \* main: starting, up, in httpSrv.Shutdown, or returned
  expired    \* Shutdown's fifteen seconds were over first

doorVars == <<req, counter, queued, open, server, expired>>
vars == <<now, work, faults, keyVars, doorVars>>

Windows == {t \div Window : t \in Times}

\* No request.
Answered == [at |-> "none", key |-> None, clock |-> 0, dead |-> FALSE]

NoCounter == [n |-> 0, expires |-> 0]

Init ==
  /\ KeysInit
  /\ req = [c \in Clients |-> Answered]
  /\ counter = [k \in KeyIds |-> [w \in Windows |-> NoCounter]]
  /\ queued = [k \in KeyIds |-> [w \in Windows |-> 0]]
  /\ open = 0
  /\ server = "starting" /\ expired = FALSE

-----------------------------------------------------------------------------
(* Middleware *)

Running(c) == req[c].at # "none"
Answer(c) ==
  /\ req' = [req EXCEPT ![c] = Answered]
  /\ open' = open - 1
GoOn(c, to) ==
  /\ req' = [req EXCEPT ![c].at = to]
  /\ UNCHANGED open
Fault == faults < MaxFaults /\ faults' = faults + 1

\* What a request's headers may hold: a key that was shown to a client, or nothing
\* of use, absent, malformed or unknown.
presentedKey == {k \in KeyIds : held[k] # 0} \cup {None}

\* A request enters the middleware, which reads the clock for Verify.  dead
\* remembers that the key had been reported revoked before the request came.
Arrive(c, k) ==
  /\ server = "up" /\ ~Running(c) /\ Start
  /\ req' = [req EXCEPT ![c] =
       [at |-> "lookup", key |-> k, clock |-> now, dead |-> k \in killed]]
  /\ open' = open + 1
  /\ UNCHANGED <<now, faults, keyVars, counter, queued, server, expired>>

\* SkipPaths: a probe is answered without a key.
Probe(c) ==
  /\ req[c].at = "lookup" /\ req[c].key = None
  /\ Answer(c)
  /\ UNCHANGED <<now, work, faults, keyVars, counter, queued, server, expired>>

\* Verify up to Active: 401 for no key and for an inactive one; then Allow reads
\* the clock for its window.
Lookup(c) ==
  /\ req[c].at = "lookup"
  /\ LET k == req[c].key IN
       IF k # None /\ Active(Fetched(k), req[c].clock)
       THEN /\ req' = [req EXCEPT ![c].at = "count", ![c].clock = now]
            /\ UNCHANGED open
       ELSE Answer(c)
  /\ UNCHANGED <<now, work, faults, keyVars, counter, queued, server, expired>>

\* The store does not answer Lookup: 503.
LookupFails(c) ==
  /\ req[c].at = "lookup" /\ req[c].key # None /\ Fault
  /\ Answer(c)
  /\ UNCHANGED <<now, work, keyVars, counter, queued, server, expired>>

WindowOf(t) == t \div Window

\* rateLimitScript with a counter that does not outlive its window.
IncrShort(cnt) ==
  IF cnt.expires > now THEN [cnt EXCEPT !.n = @ + 1]
                       ELSE [n |-> 1, expires |-> now + Window - 1]

\* rateLimitScript: INCR, and EXPIRE for the first of the window.
Incr(cnt) ==
  IF cnt.expires > now THEN [cnt EXCEPT !.n = @ + 1]
                       ELSE [n |-> 1, expires |-> now + CounterTTL]

\* Allow: through while the count is within the limit, else 429.
Count(c) ==
  /\ req[c].at = "count"
  /\ LET k == req[c].key
         w == WindowOf(req[c].clock)
         cnt == Incr(counter[k][w])
     IN /\ counter' = [counter EXCEPT ![k][w] = cnt]
        /\ IF cnt.n <= RateLimit THEN GoOn(c, "handle") ELSE Answer(c)
  /\ UNCHANGED <<now, work, faults, keyVars, queued, server, expired>>

\* The script's call fails, counted or not: Allow lets the request through.
CountFails(c, effect) ==
  /\ req[c].at = "count" /\ Fault
  /\ LET k == req[c].key
         w == WindowOf(req[c].clock)
     IN counter' = IF effect THEN [counter EXCEPT ![k][w] = Incr(@)] ELSE counter
  /\ GoOn(c, "handle")
  /\ UNCHANGED <<now, work, keyVars, queued, server, expired>>

-----------------------------------------------------------------------------
(* Handlers *)

\* Everything but a valid ride request is answered from the request alone: a
\* body that does not decode or validate, statistics, an unknown route.
Reject(c) ==
  /\ req[c].at = "handle"
  /\ Answer(c)
  /\ UNCHANGED <<now, work, faults, keyVars, counter, queued, server, expired>>

\* The stream with the request's entry.
Enqueued(c) == [queued EXCEPT ![req[c].key][WindowOf(req[c].clock)] = @ + 1]

\* A valid ride request is published and answered 202.
Publish(c) ==
  /\ req[c].at = "handle"
  /\ queued' = Enqueued(c)
  /\ Answer(c)
  /\ UNCHANGED <<now, work, faults, keyVars, counter, server, expired>>

\* The same without the return after the 503: the handler goes on to its 202.
PublishFailsNoReturn(c, effect) ==
  /\ req[c].at = "handle" /\ Fault
  /\ queued' = IF effect THEN Enqueued(c) ELSE queued
  /\ open' = open - 1 /\ UNCHANGED req
  /\ UNCHANGED <<now, work, keyVars, counter, server, expired>>

\* The publish fails or exceeds PublishTimeout, with or without an entry: 503.
PublishFails(c, effect) ==
  /\ req[c].at = "handle" /\ Fault
  /\ queued' = IF effect THEN Enqueued(c) ELSE queued
  /\ Answer(c)
  /\ UNCHANGED <<now, work, keyVars, counter, server, expired>>

-----------------------------------------------------------------------------
(* main *)

\* authsetup.Open: an unreachable key store, like an unreachable queue, ends the
\* process before it listens; nothing is ever served without keys.
Open(reachable) == IF reachable THEN server' = "up" ELSE Fault /\ server' = "down"

\* main up to ListenAndServe.
Boot ==
  /\ server = "starting"
  /\ \/ Open(TRUE) /\ UNCHANGED faults
     \/ Open(FALSE)
  /\ UNCHANGED <<now, work, keyVars, req, counter, queued, open, expired>>

\* httpSrv.Close in place of Shutdown: no handler is waited for.
DrainedAtOnce == TRUE

\* httpSrv.Shutdown has closed the listener and no handler runs.
Drained == \A c \in Clients : ~Running(c)

\* SIGTERM: main leaves its wait and calls Shutdown.
Signal ==
  /\ server = "up" /\ server' = "shutdown"
  /\ UNCHANGED <<now, work, faults, keyVars, req, counter, queued, open, expired>>

\* main returns after Shutdown; what still runs ends with the process.
Return ==
  /\ server = "shutdown" /\ server' = "down"
  /\ Drained
  /\ req' = [c \in Clients |-> Answered]
  /\ UNCHANGED <<now, work, faults, keyVars, counter, queued, open, expired>>

\* The same when Shutdown's fifteen seconds are over first.
ReturnExpired ==
  /\ server = "shutdown" /\ server' = "down"
  /\ ~Drained /\ Fault
  /\ req' = [c \in Clients |-> Answered] /\ expired' = TRUE
  /\ UNCHANGED <<now, work, keyVars, counter, queued, open>>

\* A call to the limiter takes less than a tick.
Tick ==
  /\ now < MaxTime /\ now' = now + 1
  /\ \A c \in Clients : req[c].at = "count" => req[c].clock = now
  /\ UNCHANGED <<work, faults, keyVars, doorVars>>

-----------------------------------------------------------------------------

Serve(c) ==
  \/ \E k \in presentedKey : Arrive(c, k)
  \/ Probe(c) \/ Lookup(c) \/ LookupFails(c)
  \/ Count(c)
  \/ \E effect \in BOOLEAN : CountFails(c, effect) \/ PublishFails(c, effect)
  \/ Reject(c) \/ Publish(c)

Next ==
  \/ \E o \in Operators : keyadmin(o) /\ UNCHANGED doorVars
  \/ \E c \in Clients : Serve(c)
  \/ Boot \/ Signal \/ Return \/ ReturnExpired \/ Tick

Spec == Init /\ [][Next]_vars

-----------------------------------------------------------------------------
(* Properties *)

TypeOK ==
  /\ KeysTypeOK
  /\ req \in [Clients ->
       [at : {"none", "lookup", "count", "handle"}, key : KeyIds \cup {None},
        clock : Times, dead : BOOLEAN]]
  /\ open \in 0..Cardinality(Clients)
  /\ counter \in [KeyIds -> [Windows -> [n : 0..work, expires : Nat]]]
  /\ queued \in [KeyIds -> [Windows -> 0..work]]
  /\ server \in {"starting", "up", "shutdown", "down"} /\ expired \in BOOLEAN

\* RateBound: in one window at most RateLimit requests of a key reach the queue,
\* and one more for every call that failed, since Allow fails open.  The counter's
\* expiry is set once, when the counter is new, and must not let a second
\* counter start within the window.
RateBound ==
  \A k \in KeyIds, w \in Windows : queued[k][w] <= RateLimit + faults

\* NobodyCutOff: when main has returned, and Shutdown's time was not over first,
\* every request that ever arrived was answered: a rider in the middle of a submit
\* is not dropped by a deploy.
NobodyCutOff == (server = "down" /\ ~expired) => open = 0

-----------------------------------------------------------------------------
(* A claim of the repository that does not hold *)

\* RevokedStaysOut: a request that comes after keyadmin has said of its key that
\* "it stops working immediately" does not get past the middleware (keyadmin's
\* main.go; Store.Revoke: "disables a key immediately").  Rotate writes
\* revoked_at without a look at whether the key was revoked.
RevokedStaysOut ==
  \A c \in Clients : req[c].at \in {"count", "handle"} => ~req[c].dead
=============================================================================
