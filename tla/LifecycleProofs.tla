---------------------------- MODULE LifecycleProofs ----------------------------
(***************************************************************************)
(* Safety of Lifecycle, for any clients, signals and requests, and that the *)
(* process goes through the phases of SqlLogging.                           *)
(***************************************************************************)
EXTENDS Lifecycle, TLAPS

(***************************************************************************)
(* The inductive invariant.                                                *)
(***************************************************************************)

\* Bootstrap and the socket: the server is on or was closed only once bootstrap has
\* listened, and a connection needs a server.
Bootstrapped ==
    /\ server # "off" => boot \in {"listening", "down"}
    /\ boot = "listening" => server # "off"
    /\ server = "off" \/ boot = "down" => \A c \in Clients : conn[c] = "none"

\* What a stop has got behind it.  One that came when the server listened has closed
\* it and seen the last connection go before any data source is destroyed.
Stopped ==
    /\ Stopping => cause = "signal"
    /\ \A s \in Signals : stop[s] = "draining" => server = "closed"
    /\ sources = "closed" => \E s \in Signals : stop[s] \in {"exiting", "rejected"}
    /\ ~early /\ Stopping => boot \in {"listening", "down"}
    /\ ~early => \A s \in Signals :
        stop[s] \in {"drained", "exiting", "rejected"} =>
            server = "closed" /\ \A c \in Clients : conn[c] = "none"

IInv == TypeOK /\ Bootstrapped /\ Stopped /\ GracefulOnceListening

(***************************************************************************)
(* Invariance, action by action.                                           *)
(***************************************************************************)

LEMMA InitIInv == Init => IInv
  <1> SUFFICES ASSUME Init
               PROVE  IInv
    OBVIOUS
  <1>1. ~Stopping
    BY DEF Init, Stopping
  <1>2. TypeOK /\ Bootstrapped
    BY <1>1 DEF Init, TypeOK, Bootstrapped
  <1>3. Stopped
    BY <1>1 DEF Init, Stopped
  <1>4. GracefulOnceListening
    BY DEF Init, GracefulOnceListening, Harmed
  <1>5. QED
    BY <1>2, <1>3, <1>4 DEF IInv

\* Every step keeps the types.
LEMMA TypesKept ==
    ASSUME TypeOK, [Next]_vars
    PROVE  TypeOK'
  <1> USE DEF TypeOK, Up, Stopping, service, process
  <1>1. CASE AbortCreation
    BY <1>1 DEF AbortCreation, End
  <1>2. CASE HandleProcessSignal
    BY <1>2 DEF HandleProcessSignal
  <1>3. CASE Listen
    BY <1>3 DEF Listen
  <1>4. CASE ListenFails
    BY <1>4 DEF ListenFails
  <1>5. ASSUME NEW c \in Clients, Connect(c)
        PROVE  TypeOK'
    BY <1>5 DEF Connect
  <1>6. ASSUME NEW c \in Clients, Send(c) \/ Request(c)
        PROVE  TypeOK'
    BY <1>6 DEF Send, Request
  <1>7. ASSUME NEW c \in Clients, Answer(c)
        PROVE  TypeOK'
    BY <1>7 DEF Answer
  <1>8. ASSUME NEW c \in Clients, Drop(c)
        PROVE  TypeOK'
    BY <1>8 DEF Drop
  <1>9. ASSUME NEW s \in Signals, Signal(s)
        PROVE  TypeOK'
    BY <1>9 DEF Signal, Begin
  <1>10. ASSUME NEW s \in Signals, CloseServer(s)
         PROVE  TypeOK'
    BY <1>10 DEF CloseServer
  <1>11. ASSUME NEW s \in Signals, Drained(s)
         PROVE  TypeOK'
    BY <1>11 DEF Drained
  <1>12. ASSUME NEW s \in Signals, DestroySources(s)
         PROVE  TypeOK'
    BY <1>12 DEF DestroySources
  <1>13. ASSUME NEW s \in Signals, Exit(s)
         PROVE  TypeOK'
    BY <1>13 DEF Exit, End
  <1>14. CASE ParentLeaves
    BY <1>14 DEF ParentLeaves
  <1>15. CASE UNCHANGED vars
    BY <1>15 DEF vars
  <1>16. QED
    BY <1>1, <1>2, <1>3, <1>4, <1>5, <1>6, <1>7, <1>8, <1>9, <1>10, <1>11, <1>12, <1>13,
       <1>14, <1>15 DEF Next, StopProcess

\* Every step keeps the rest.
LEMMA RestKept ==
    ASSUME IInv, [Next]_vars
    PROVE  Bootstrapped' /\ Stopped' /\ GracefulOnceListening'
  <1> USE DEF IInv, TypeOK, Bootstrapped, Stopped, GracefulOnceListening, Harmed, Up,
              Stopping, service, process
  <1>1. CASE AbortCreation
    BY <1>1 DEF AbortCreation, End
  <1>2. CASE HandleProcessSignal
    BY <1>2 DEF HandleProcessSignal
  <1>3. CASE Listen
    BY <1>3 DEF Listen
  <1>4. CASE ListenFails
    BY <1>4 DEF ListenFails
  <1>5. ASSUME NEW c \in Clients, Connect(c)
        PROVE  Bootstrapped' /\ Stopped' /\ GracefulOnceListening'
    BY <1>5 DEF Connect
  <1>6. ASSUME NEW c \in Clients, Send(c) \/ Request(c)
        PROVE  Bootstrapped' /\ Stopped' /\ GracefulOnceListening'
    BY <1>6 DEF Send, Request
  <1>7. ASSUME NEW c \in Clients, Answer(c)
        PROVE  Bootstrapped' /\ Stopped' /\ GracefulOnceListening'
    BY <1>7 DEF Answer
  <1>8. ASSUME NEW c \in Clients, Drop(c)
        PROVE  Bootstrapped' /\ Stopped' /\ GracefulOnceListening'
    BY <1>8 DEF Drop
  <1>9. ASSUME NEW s \in Signals, Signal(s)
        PROVE  Bootstrapped' /\ Stopped' /\ GracefulOnceListening'
    BY <1>9 DEF Signal, Begin
  <1>10. ASSUME NEW s \in Signals, CloseServer(s)
         PROVE  Bootstrapped' /\ Stopped' /\ GracefulOnceListening'
    BY <1>10 DEF CloseServer
  <1>11. ASSUME NEW s \in Signals, Drained(s)
         PROVE  Bootstrapped' /\ Stopped' /\ GracefulOnceListening'
    BY <1>11 DEF Drained
  <1>12. ASSUME NEW s \in Signals, DestroySources(s)
         PROVE  Bootstrapped' /\ Stopped' /\ GracefulOnceListening'
    BY <1>12 DEF DestroySources
  <1>13. ASSUME NEW s \in Signals, Exit(s)
         PROVE  Bootstrapped' /\ Stopped' /\ GracefulOnceListening'
    BY <1>13 DEF Exit, End
  <1>14. CASE ParentLeaves
    BY <1>14 DEF ParentLeaves
  <1>15. CASE UNCHANGED vars
    BY <1>15 DEF vars
  <1>16. QED
    BY <1>1, <1>2, <1>3, <1>4, <1>5, <1>6, <1>7, <1>8, <1>9, <1>10, <1>11, <1>12, <1>13,
       <1>14, <1>15 DEF Next, StopProcess

LEMMA Invariance == Spec => []IInv
  <1>1. IInv /\ [Next]_vars => IInv'
    BY TypesKept, RestKept DEF IInv
  <1>2. QED
    BY <1>1, InitIInv, PTL DEF Spec

(***************************************************************************)
(* The theorems.                                                           *)
(***************************************************************************)

\* Types; nothing is stopped before the handlers are registered.
THEOREM TypeCorrect == Spec => []TypeOK
  <1>1. IInv => TypeOK
    BY DEF IInv
  <1>2. QED
    BY <1>1, Invariance, PTL

\* A stop that finds the server listening fails or cuts no request, however many
\* signals and requests come (GracefulOnceListening).
THEOREM StopGraceful == Spec => []GracefulOnceListening
  <1>1. IInv => GracefulOnceListening
    BY DEF IInv
  <1>2. QED
    BY <1>1, Invariance, PTL

\* The log records of no process are cut off at its end.
LEMMA NothingCutOff == Logging!CutOff(<<>>) = <<>>
  BY DEF Logging!CutOff

LEMMA InitPhases == Init => Logging!Init
  BY DEF Init, Logging!Init, Phase

\* Every step of the process is one of SqlLogging's process or changes nothing there.
LEMMA StepPhases ==
    ASSUME IInv, [Next]_vars
    PROVE  [Logging!Next]_(Logging!vars)
  <1> USE DEF IInv, TypeOK, Up, Stopping, service, process, Phase, Logging!vars
  <1>1. CASE AbortCreation
    BY <1>1, NothingCutOff DEF AbortCreation, End, Logging!Next, Logging!Abort,
       Logging!Signal, Logging!End
  <1>2. CASE HandleProcessSignal
    BY <1>2 DEF HandleProcessSignal, Logging!Next, Logging!HandleProcessSignal
  <1>3. CASE Listen \/ ListenFails
    BY <1>3 DEF Listen, ListenFails
  <1>4. ASSUME NEW c \in Clients, Connect(c) \/ Send(c) \/ Request(c) \/ Answer(c) \/ Drop(c)
        PROVE  UNCHANGED Logging!vars
    BY <1>4 DEF Connect, Send, Request, Answer, Drop
  <1>5. ASSUME NEW s \in Signals, Signal(s)
        PROVE  [Logging!Next]_(Logging!vars)
    BY <1>5 DEF Signal, Begin, Stopped, Logging!Next, Logging!Signal
  <1>6. ASSUME NEW s \in Signals, CloseServer(s) \/ Drained(s) \/ DestroySources(s)
        PROVE  UNCHANGED Logging!vars
    BY <1>6 DEF CloseServer, Drained, DestroySources
  <1>7. ASSUME NEW s \in Signals, Exit(s)
        PROVE  [Logging!Next]_(Logging!vars)
    BY <1>7, NothingCutOff DEF Exit, End, Logging!Next, Logging!Exit, Logging!End
  <1>8. CASE ParentLeaves
    BY <1>8 DEF ParentLeaves
  <1>9. CASE UNCHANGED vars
    BY <1>9 DEF vars
  <1>10. QED
    BY <1>1, <1>2, <1>3, <1>4, <1>5, <1>6, <1>7, <1>8, <1>9 DEF Next, StopProcess

\* The process of Lifecycle is the one SqlLogging works in (PhasesOfLogging).
THEOREM PhasesKept == Spec => PhasesOfLogging
  <1>1. Init => Logging!Init
    BY InitPhases
  <1>2. IInv /\ [Next]_vars => [Logging!Next]_(Logging!vars)
    BY StepPhases
  <1>3. QED
    BY <1>1, <1>2, Invariance, PTL DEF Spec, PhasesOfLogging, Logging!Spec
=============================================================================
