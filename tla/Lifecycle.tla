------------------------------ MODULE Lifecycle ------------------------------
(***************************************************************************)
(* The process: bootstrap creates the application, registers the signal     *)
(* handlers and listens, while each signal starts a stopProcess of its own: *)
(* app.close waits for the connections, then ends the data sources, and     *)
(* process.exit follows.  Bootstrap and the stops run side by side, and     *)
(* bootstrap does not learn that a stop has begun.  A parent process that    *)
(* forked this one may go at any time.                                      *)
(***************************************************************************)
EXTENDS Integers

CONSTANTS
    Clients,       \* each has one connection at a time
    MaxSignals     \* bound: signals after the handlers are registered

ASSUME SignalsAssumption == MaxSignals \in Nat

VARIABLES
    boot,      \* how far bootstrap has come, or that the process is down
    cause,     \* what told the process to end
    parent,    \* the process that forked this one, if any
    server,    \* the HTTP server's socket
    sources,   \* the data sources
    conn,      \* connection of each client
    outcome,   \* of each client's last request
    stop,      \* how far each stopProcess has come
    early      \* whether the first signal came before the server listened

vars == <<boot, cause, parent, server, sources, conn, outcome, stop, early>>
service == <<sources, conn, outcome>>
process == <<boot, cause, parent, early>>

Signals == 1..MaxSignals

Up == boot # "down"

Stopping == \E s \in Signals : stop[s] # "none"

TypeOK ==
    /\ boot \in {"creating", "starting", "listening", "failed", "down"}
    /\ cause \in {"none", "signal", "boot"}
    /\ parent \in {"none", "connected", "gone"}
    /\ server \in {"off", "on", "closed"}
    /\ sources \in {"open", "closed"}
    /\ conn \in [Clients -> {"none", "awaited", "busy", "idle"}]
    /\ outcome \in [Clients -> {"none", "answered", "failed", "cut"}]
    /\ stop \in [Signals ->
            {"none", "signalled", "draining", "drained", "exiting", "rejected"}]
    /\ early \in BOOLEAN
    /\ boot = "creating" => ~Stopping /\ server = "off"

Init ==
    /\ boot = "creating"
    /\ cause = "none"
    /\ parent \in {"none", "connected"}
    /\ server = "off"
    /\ sources = "open"
    /\ conn = [c \in Clients |-> "none"]
    /\ outcome = [c \in Clients |-> "none"]
    /\ stop = [s \in Signals |-> "none"]
    /\ early = FALSE

(***************************************************************************)
(* bootstrap.                                                              *)
(***************************************************************************)

\* The end of the process closes its connections under the requests.
End(why) ==
    /\ boot' = "down"
    /\ cause' = why
    /\ conn' = [c \in Clients |-> "none"]
    /\ outcome' = [c \in Clients |-> IF conn[c] = "busy" THEN "cut" ELSE outcome[c]]
    /\ UNCHANGED <<parent, server, sources, stop, early>>

\* NestFactory.create fails and Nest aborts, or a signal finds no handler.
AbortCreation == boot = "creating" /\ \E why \in {"boot", "signal"} : End(why)

HandleProcessSignal ==
    /\ boot = "creating"
    /\ boot' = "starting"
    /\ UNCHANGED <<cause, parent, server, stop, early, service>>

Listen ==
    /\ boot = "starting"
    /\ boot' = "listening"
    /\ server' = "on"
    /\ UNCHANGED <<cause, parent, stop, early, service>>

\* Variant: without a handler of uncaughtException Node ends the process.
ListenFailsFatally ==
    /\ boot = "starting"
    /\ boot' = "down"
    /\ UNCHANGED <<cause, parent, server, stop, early, service>>

\* The port is taken, say: bootstrap's promise is rejected, nobody catches, and
\* the handler of uncaughtException writes a line.
ListenFails ==
    /\ boot = "starting"
    /\ boot' = "failed"
    /\ UNCHANGED <<cause, parent, server, stop, early, service>>

(***************************************************************************)
(* Requests.                                                               *)
(***************************************************************************)

Connect(c) ==
    /\ Up
    /\ server = "on"
    /\ conn[c] = "none"
    /\ conn' = [conn EXCEPT ![c] = "awaited"]
    /\ UNCHANGED <<process, server, sources, outcome, stop>>

\* A kept-alive connection begins to bring a further request.
Send(c) ==
    /\ conn[c] = "idle"
    /\ conn' = [conn EXCEPT ![c] = "awaited"]
    /\ UNCHANGED <<process, server, sources, outcome, stop>>

\* The request has come to its end, whether or not the server was closed meanwhile.
Request(c) ==
    /\ conn[c] = "awaited"
    /\ conn' = [conn EXCEPT ![c] = "busy"]
    /\ outcome' = [outcome EXCEPT ![c] = "none"]
    /\ UNCHANGED <<process, server, sources, stop>>

\* A query on a closed data source is an error; the request may be past its own.
Answer(c) ==
    /\ conn[c] = "busy"
    /\ conn' = [conn EXCEPT ![c] = "idle"]
    /\ \E o \in {"answered", "failed"} :
        /\ o = "failed" => sources = "closed"
        /\ outcome' = [outcome EXCEPT ![c] = o]
    /\ UNCHANGED <<process, server, sources, stop>>

\* The client leaves, or the keep-alive timeout ends an idle connection.
Drop(c) ==
    /\ conn[c] \in {"awaited", "idle"}
    /\ conn' = [conn EXCEPT ![c] = "none"]
    /\ UNCHANGED <<process, server, sources, outcome, stop>>

(***************************************************************************)
(* stopProcess.                                                            *)
(***************************************************************************)

Begin(s) ==
    /\ stop[s] = "none"
    /\ \A t \in 1..(s - 1) : stop[t] # "none"
    /\ stop' = [stop EXCEPT ![s] = "signalled"]
    /\ cause' = "signal"
    /\ early' = (early \/ (boot # "listening" /\ ~Stopping))
    /\ UNCHANGED <<boot, parent, server, service>>

\* Variant: the handlers are registered before the application is created.
SignalAnyTime(s) == Up /\ Begin(s)

\* The handler of a signal calls stopProcess, whether or not it was called before.
Signal(s) == Up /\ boot # "creating" /\ Begin(s)

\* Variant: stopProcess does not await app.close.
CloseServerUnawaited(s) ==
    /\ Up
    /\ stop[s] = "signalled"
    /\ stop' = [stop EXCEPT ![s] = "drained"]
    /\ server' = IF server = "on" THEN "closed" ELSE server
    /\ UNCHANGED <<process, service>>

\* app.close runs its hooks and closes the server: no more connections, and idle
\* ones end, but none whose request has not come or not to its end.  A server that
\* does not listen has nothing to wait for, and may listen later.
CloseServer(s) ==
    /\ Up
    /\ stop[s] = "signalled"
    /\ IF server = "off"
       THEN /\ stop' = [stop EXCEPT ![s] = "drained"]
            /\ UNCHANGED <<server, conn>>
       ELSE /\ stop' = [stop EXCEPT ![s] = "draining"]
            /\ server' = "closed"
            /\ conn' = [c \in Clients |-> IF conn[c] = "idle" THEN "none" ELSE conn[c]]
    /\ UNCHANGED <<process, sources, outcome>>

Drained(s) ==
    /\ Up
    /\ stop[s] = "draining"
    /\ \A c \in Clients : conn[c] = "none"
    /\ stop' = [stop EXCEPT ![s] = "drained"]
    /\ UNCHANGED <<process, server, service>>

\* TypeORM's module destroys each data source that is not destroyed yet.
DestroySources(s) ==
    /\ Up
    /\ stop[s] = "drained"
    /\ stop' = [stop EXCEPT ![s] = "exiting"]
    /\ sources' = "closed"
    /\ UNCHANGED <<process, server, conn, outcome>>

\* Variant: the process exits in the branch that disconnects from its parent.
ExitForked(s) == Up /\ stop[s] = "exiting" /\ parent = "connected" /\ End(cause)

\* process.disconnect, where there is or was a parent, and process.exit.  To
\* disconnect from a parent that has gone is an error: stopProcess is rejected, the
\* handler of uncaughtException writes a line, and the connection of the throttler
\* to Redis, which nobody closes, keeps the process.
Exit(s) ==
    /\ Up
    /\ stop[s] = "exiting"
    /\ \/ parent # "gone" /\ End(cause)
       \/ /\ parent = "gone"
          /\ stop' = [stop EXCEPT ![s] = "rejected"]
          /\ UNCHANGED <<process, server, service>>

ParentLeaves ==
    /\ Up
    /\ parent = "connected"
    /\ parent' = "gone"
    /\ UNCHANGED <<boot, cause, server, stop, early, service>>

StopProcess(s) == CloseServer(s) \/ Drained(s) \/ DestroySources(s) \/ Exit(s)

Next ==
    \/ AbortCreation \/ HandleProcessSignal \/ Listen \/ ListenFails
    \/ \E c \in Clients : Connect(c) \/ Send(c) \/ Request(c) \/ Answer(c) \/ Drop(c)
    \/ \E s \in Signals : Signal(s) \/ StopProcess(s)
    \/ ParentLeaves

Spec == Init /\ [][Next]_vars

\* The event loop runs: a request that was received is answered, an idle connection
\* times out, and what a stop waits for comes.  Nothing ends the wait for a request:
\* a server that is closed checks no timeout of requests.
Fairness ==
    /\ \A c \in Clients : WF_vars(Answer(c)) /\ WF_vars(conn[c] = "idle" /\ Drop(c))
    /\ \A s \in Signals : WF_vars(StopProcess(s))

FairSpec == Spec /\ Fairness

(***************************************************************************)
(* Properties.                                                             *)
(***************************************************************************)

Harmed(c) == outcome[c] \in {"failed", "cut"}

\* Stopping a service that listens does no harm to the requests it has received,
\* however many signals come and whatever further requests the connections that
\* were at work still carry (await app.close in stopProcess).  A signal that comes
\* early does: bootstrap goes on to listen on destroyed data sources.
GracefulOnceListening == ~early => \A c \in Clients : ~Harmed(c)

\* A client neither asks for ever nor holds on to a connection without a request.
ComesToRest(c) == <>[](conn[c] # "awaited")

\* Once a signal was handled the process ends: no request under way, no second signal
\* and no failed or late listen keeps it (stopProcess).  Only a client that never comes
\* to rest can, or a parent that has gone.
EndsWhenTold ==
    /\ \A c \in Clients : ComesToRest(c)
    /\ [](parent # "gone")
    => (Stopping ~> ~Up)

Phase ==
    CASE boot = "down" -> "down"
      [] boot = "creating" -> "creating"
      [] boot \notin {"down", "creating"} /\ Stopping -> "closing"
      [] OTHER -> "running"

Logging == INSTANCE SqlLogging WITH
    LogPoolSize <- 1, MaxRecords <- 0, phase <- Phase, cause <- cause,
    open <- 0, events <- 0, log <- <<>>, table <- <<>>

\* The process goes through the phases in which module SqlLogging looks at it:
\* created, running until a signal, closing until its end, and no end but those.
PhasesOfLogging == Logging!Spec
=============================================================================
