------------------------------- MODULE Ingest -------------------------------
(***************************************************************************)
(* ingestd: driver streams (internal/ingest/server.go) into the pipeline   *)
(* (internal/pipeline/pipeline.go) and from there into the LocationStore,  *)
(* wired and shut down as cmd/ingestd/main.go does.                        *)
(*                                                                         *)
(* Every request runs in its handler's goroutine; an upgraded connection   *)
(* has a read pump, a write pump and a closer.  The pipeline's Run, the    *)
(* reaper and main are one goroutine each.                                 *)
(***************************************************************************)
EXTENDS Pipeline

CONSTANTS
  Clients,          \* clients that open streams
  MaxConnections    \* Config.MaxConnections

ASSUME IngestAssumption ==
  /\ MaxConnections \in Nat \ {0}
  /\ IsFiniteSet(Clients)

VARIABLES
  conn,      \* the request or connection of every client
  active,    \* activeConns
  main,      \* main: running, then what it waits for
  expired,   \* shutdownCtx has timed out
  drained    \* wsServer.Shutdown has returned nil

serverVars == <<conn, active>>
mainVars   == <<main, expired, drained>>
vars == <<pipelineVars, serverVars, mainVars>>

\* No request: nothing of the client runs in the server.
Gone == [at |-> "gone", tenant |-> None, read |-> FALSE, write |-> FALSE, sock |-> FALSE]

Connection ==
  [at : {"gone", "arrived", "admitted", "over", "reserved", "serving"},
   tenant : Tenants \cup {None}, read : BOOLEAN, write : BOOLEAN, sock : BOOLEAN]

TypeOK ==
  /\ PipelineTypeOK
  /\ conn \in [Clients -> Connection]
  /\ active \in 0..Cardinality(Clients)
  /\ main \in {"run", "http", "drain", "flush", "exit"}
  /\ expired \in BOOLEAN /\ drained \in BOOLEAN

Init ==
  /\ PipelineInit
  /\ conn = [c \in Clients |-> Gone] /\ active = 0
  /\ main = "run" /\ expired = FALSE /\ drained = FALSE

-----------------------------------------------------------------------------
(* Handler *)

At(c) == conn[c].at

\* Shutdown stops admissions when it starts, before it waits.
Closed == main \in {"drain", "flush", "exit"}

Move(c, to) == conn' = [conn EXCEPT ![c].at = to]
Leave(c)    == conn' = [conn EXCEPT ![c] = Gone]

\* The listener takes requests until httpSrv.Shutdown.
Arrive(c) ==
  /\ main = "run" /\ At(c) = "gone"
  /\ Move(c, "arrived")
  /\ UNCHANGED <<pipelineVars, active, mainVars>>

\* admit without the flag: the WaitGroup alone.
AdmitAlways(c) ==
  /\ At(c) = "arrived"
  /\ Move(c, "admitted")
  /\ UNCHANGED <<pipelineVars, active, mainVars>>

\* admit: a token of the WaitGroup, or 503.
Admit(c) ==
  /\ At(c) = "arrived"
  /\ IF Closed THEN Leave(c) ELSE Move(c, "admitted")
  /\ UNCHANGED <<pipelineVars, active, mainVars>>

OverLimit(n) == n > MaxConnections

\* A slot, taken first and given back when it is one too many.
Reserve(c) ==
  /\ At(c) = "admitted"
  /\ active' = active + 1
  /\ Move(c, IF OverLimit(active + 1) THEN "over" ELSE "reserved")
  /\ UNCHANGED <<pipelineVars, mainVars>>

\* The slot is given back here and when the handler returns.
TurnAwayTwice(c) ==
  /\ At(c) = "over"
  /\ active' = active - 2 /\ Leave(c)
  /\ UNCHANGED <<pipelineVars, mainVars>>

\* 503, and the slot is given back.
TurnAway(c) ==
  /\ At(c) = "over"
  /\ active' = active - 1 /\ Leave(c)
  /\ UNCHANGED <<pipelineVars, mainVars>>

\* The slot is kept when the upgrade fails.
RefuseKeepsSlot(c) ==
  /\ At(c) = "reserved"
  /\ Leave(c)
  /\ UNCHANGED <<pipelineVars, active, mainVars>>

\* No key, a key that does not verify, or a handshake that fails.
Refuse(c) ==
  /\ At(c) = "reserved"
  /\ active' = active - 1 /\ Leave(c)
  /\ UNCHANGED <<pipelineVars, mainVars>>

\* The tenant is that of the key.
Upgrade(c) ==
  /\ At(c) = "reserved"
  /\ \E t \in Tenants :
       conn' = [conn EXCEPT ![c] = [at |-> "serving", tenant |-> t, read |-> TRUE,
                                    write |-> TRUE, sock |-> TRUE]]
  /\ UNCHANGED <<pipelineVars, active, mainVars>>

-----------------------------------------------------------------------------
(* One connection *)

\* Either pump cancels the connection's context when it ends.
Ending(c) == At(c) = "serving" /\ ~(conn[c].read /\ conn[c].write)

\* readPump takes a valid ping, hands it on, and looks at its context.
Read(c) ==
  /\ At(c) = "serving" /\ conn[c].read /\ conn[c].sock
  /\ Ping(conn[c].tenant)
  /\ conn' = [conn EXCEPT ![c].read = ~Ending(c)]
  /\ UNCHANGED <<active, mainVars>>

\* The client goes away.
Hangup(c) ==
  /\ At(c) = "serving" /\ conn[c].sock
  /\ conn' = [conn EXCEPT ![c].sock = FALSE]
  /\ UNCHANGED <<pipelineVars, active, mainVars>>

\* The read deadline passes: no message and no pong for PongWait.
Silence(c) ==
  /\ At(c) = "serving" /\ conn[c].read /\ conn[c].sock
  /\ conn' = [conn EXCEPT ![c].read = FALSE]
  /\ UNCHANGED <<pipelineVars, active, mainVars>>

\* ReadMessage returns an error, as nothing else makes it do.
ReadError(c) ==
  /\ At(c) = "serving" /\ conn[c].read /\ ~conn[c].sock
  /\ conn' = [conn EXCEPT ![c].read = FALSE]
  /\ UNCHANGED <<pipelineVars, active, mainVars>>

\* The write pump does not hear of the shutdown.
WriteStopsDeaf(c) ==
  /\ At(c) = "serving" /\ conn[c].write
  /\ Ending(c) \/ ~conn[c].sock
  /\ conn' = [conn EXCEPT ![c].write = FALSE]
  /\ UNCHANGED <<pipelineVars, active, mainVars>>

\* writePump: the context, the shutdown, or a heartbeat that fails.
WriteStops(c) ==
  /\ At(c) = "serving" /\ conn[c].write
  /\ Ending(c) \/ Closed \/ ~conn[c].sock
  /\ conn' = [conn EXCEPT ![c].write = FALSE]
  /\ UNCHANGED <<pipelineVars, active, mainVars>>

\* The closer closes the socket, which wakes the reader.
Close(c) ==
  /\ Ending(c) /\ conn[c].sock
  /\ conn' = [conn EXCEPT ![c].sock = FALSE]
  /\ UNCHANGED <<pipelineVars, active, mainVars>>

\* serve returns.
ServeEnds(c) ==
  /\ At(c) = "serving" /\ ~conn[c].read /\ ~conn[c].write /\ ~conn[c].sock
  /\ active' = active - 1 /\ Leave(c)
  /\ UNCHANGED <<pipelineVars, mainVars>>

-----------------------------------------------------------------------------
(* main *)

\* httpSrv.Shutdown closes the listener.
StopListening ==
  /\ main = "run" /\ cancelled
  /\ main' = "http"
  /\ UNCHANGED <<pipelineVars, serverVars, expired, drained>>

InHandler(c) == At(c) \in {"arrived", "admitted", "over", "reserved"}

\* It waits for requests that are still requests, not for streams; then
\* wsServer.Shutdown closes the streams.
CloseStreams ==
  /\ main = "http" /\ (expired \/ \A c \in Clients : ~InHandler(c))
  /\ main' = "drain"
  /\ UNCHANGED <<pipelineVars, serverVars, expired, drained>>

\* Who has a token of the WaitGroup.
Token(c) == At(c) \notin {"gone", "arrived"}

\* wsServer.Shutdown returns: nobody has a token, or out of time.
Drain ==
  /\ main = "drain" /\ main' = "flush"
  /\ \/ (\A c \in Clients : ~Token(c)) /\ drained' = TRUE
     \/ expired /\ UNCHANGED drained
  /\ UNCHANGED <<pipelineVars, serverVars, expired>>

\* The pipeline is done or out of time; the reaper is done.
Exit ==
  /\ main = "flush" /\ main' = "exit"
  /\ pipe = "done" \/ expired
  /\ reap = "done"
  /\ UNCHANGED <<pipelineVars, serverVars, expired, drained>>

\* Fifteen seconds are over.
Expire ==
  /\ main \in {"http", "drain", "flush"} /\ ~expired
  /\ expired' = TRUE
  /\ UNCHANGED <<pipelineVars, serverVars, main, drained>>

-----------------------------------------------------------------------------
HandlerStep(c) ==
  Admit(c) \/ Reserve(c) \/ TurnAway(c) \/ Refuse(c) \/ Upgrade(c)

ServeStep(c) ==
  ReadError(c) \/ WriteStops(c) \/ Close(c) \/ ServeEnds(c)

Aside == UNCHANGED <<serverVars, mainVars>>

MainStep == StopListening \/ CloseStreams \/ Drain \/ Exit

\* The process is gone after main has returned.
Next ==
  \/ /\ main # "exit"
     /\ \/ \E c \in Clients : \/ Arrive(c) \/ HandlerStep(c) \/ ServeStep(c)
                              \/ Read(c) \/ Hangup(c) \/ Silence(c)
        \/ (FlushStep \/ ReapStep \/ LateStep \/ TickStep \/ Signal) /\ Aside
        \/ MainStep \/ Expire
  \/ main = "exit" /\ UNCHANGED vars

Spec == Init /\ [][Next]_vars

\* Goroutines go on.  Clients, signals, timeouts and faults are not forced.
FairSpec ==
  /\ Spec
  /\ \A c \in Clients : WF_vars(HandlerStep(c)) /\ WF_vars(ServeStep(c))
  /\ WF_vars(FlushStep /\ Aside) /\ WF_vars(ReapStep /\ Aside) /\ WF_vars(MainStep)

-----------------------------------------------------------------------------
(* Properties *)

\* When Server.Shutdown reports a clean exit, no handler and no connection
\* goroutine is left, and none comes after: no slot is taken, and nobody hands
\* pings on any more.
CleanShutdown == drained => active = 0 /\ \A c \in Clients : ~Token(c)

\* activeConns counts the requests that hold a slot, on every way out of the
\* handler and of serve, and the streams being served are never too many.
SlotsCounted ==
  /\ active = Cardinality({c \in Clients : At(c) \in {"over", "reserved", "serving"}})
  /\ Cardinality({c \in Clients : At(c) = "serving"}) <= MaxConnections

\* After a signal the process ends, without running into its timeout: nobody
\* waits for ever for a stream, the pipeline or the reaper.
ShutdownCompletes == cancelled ~> main = "exit"

\* A clean exit does not discard the last window ("Draining before the last
\* flush is what stops a clean exit from silently discarding the final window
\* of driver positions").
FinalWindowFlushed == main = "exit" /\ ~expired => buffer = {}
=============================================================================
