----------------------------- MODULE RideService -----------------------------
(***************************************************************************)
(* What the API, the queue and the batchers promise together about ride    *)
(* requests, with the stream, the goroutines and the failures hidden:      *)
(* internal/queue/queue.go (the contract of Queue) and the 202 of the API. *)
(*                                                                         *)
(*   - an accepted request stays open until it is matched or dead-lettered;*)
(*   - delivery is at least once: a request may be matched again or opened *)
(*     again after it was settled, unless ExactlyOnce says otherwise;      *)
(*   - every accepted request is eventually matched or dead-lettered.      *)
(***************************************************************************)
CONSTANTS Requests, ExactlyOnce

VARIABLES
  promised,   \* requests answered 202
  open,       \* requests waiting in the queue
  matched,    \* requests the engine found a driver for
  dead        \* requests in the dead-letter stream

vars == <<promised, open, matched, dead>>

Init == promised = {} /\ open = {} /\ matched = {} /\ dead = {}

Known(r) == r \in open \cup matched \cup dead

\* A post: the request enters the queue, and the client is told so, or not
\* told (503 although the publish took effect).
Submit(r, told) ==
  /\ r \notin promised
  /\ ExactlyOnce => ~Known(r)
  /\ open' = open \cup {r}
  /\ promised' = IF told THEN promised \cup {r} ELSE promised
  /\ UNCHANGED <<matched, dead>>

\* One answer of the engine.
Match(S) ==
  /\ S # {}
  /\ \A r \in S : Known(r)
  /\ ExactlyOnce => S \subseteq open \ (matched \cup dead)
  /\ matched' = matched \cup S
  /\ UNCHANGED <<promised, open, dead>>

\* The request is set aside; the queue may still hold it (half a pipeline, or
\* an earlier entry whose ack is still to come).
SetAside(r) ==
  /\ Known(r)
  /\ ExactlyOnce => r \in open \ (matched \cup dead)
  /\ dead' = dead \cup {r}
  /\ open' \in {open, open \ {r}}
  /\ UNCHANGED <<promised, matched>>

\* Acks close settled requests.
Close(S) ==
  /\ S # {}
  /\ S \subseteq open \cap (matched \cup dead)
  /\ open' = open \ S
  /\ UNCHANGED <<promised, matched, dead>>

\* A late copy of a settled request is republished.
Reopen(r) ==
  /\ ~ExactlyOnce
  /\ r \in matched \cup dead
  /\ open' = open \cup {r}
  /\ UNCHANGED <<promised, matched, dead>>

Next ==
  \/ \E r \in Requests, told \in BOOLEAN : Submit(r, told)
  \/ \E S \in SUBSET Requests : Match(S) \/ Close(S)
  \/ \E r \in Requests : SetAside(r) \/ Reopen(r)

Spec == Init /\ [][Next]_vars

\* Every promise is kept.
Live == \A r \in Requests : (r \in promised) ~> (r \in matched \cup dead)

FairSpec == Spec /\ Live
==============================================================================
