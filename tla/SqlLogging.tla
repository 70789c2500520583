------------------------------ MODULE SqlLogging ------------------------------
(***************************************************************************)
(* SQL logging: every statement of the `user` data source, every statement  *)
(* of it that fails and every debug message becomes a row of table `log`.   *)
(* insertLog does not wait: the id of the row is announced on the console   *)
(* at once, while the insert goes through the pool of a data source of its  *)
(* own, may fail there, and may be overtaken by the end of the process,     *)
(* whose phases are those of main.ts.                                       *)
(***************************************************************************)
EXTENDS Integers, Sequences, FiniteSets

CONSTANTS
    LogPoolSize,   \* connections of the data source "sql-log"
    MaxRecords     \* bound: log records of one process

ASSUME LogPoolAssumption == LogPoolSize \in Nat \ {0}

VARIABLES
    phase,    \* of the process
    cause,    \* what told the process to end
    open,     \* statements of the user data source in progress
    events,   \* times the service had something to record
    log,      \* state of each record, in the order of their announcement
    table     \* records stored in table log, in the order of their timestamps

vars == <<phase, cause, open, events, log, table>>

\* waiting for a connection; sent; executed by Postgres; then the promise of the
\* insert is fulfilled (done) or rejected (reported by console.error), or the end
\* of the process has cut the insert off (lost).
State == {"waiting", "sent", "executed", "done", "reported", "lost"}

Up == phase # "down"

(***************************************************************************)
(* Loggers.                                                                *)
(***************************************************************************)

\* BaseSqlLoggerService.log: a record is created and its insert issued.
Logged(l) == Append(l, "waiting")

\* Variant: the log data source is given the logger of the user data source.
SqlQueryLoggerRecording(l) == Logged(l)

\* SqlQueryLogger, the logger of the log data source: its logQuery and
\* logQueryError do nothing.
SqlQueryLogger(l) == l

\* Variant: the connection of a failed insert is not given back.
BusyAfterFailure(l) == {k \in DOMAIN l : l[k] \in {"sent", "executed", "reported"}}

\* The inserts that have a connection.
Busy(l) == {k \in DOMAIN l : l[k] \in {"sent", "executed"}}

\* What becomes of the inserts when the process ends: those that were not sent
\* never are.
CutOff(l) == [k \in DOMAIN l |-> IF l[k] = "waiting" THEN "lost" ELSE l[k]]

Unstored(l) == {k \in DOMAIN l : l[k] \in {"waiting", "sent"}}

Stored(k) == \E i \in DOMAIN table : table[i] = k

TypeOK ==
    /\ phase \in {"creating", "running", "closing", "down"}
    /\ cause \in {"none", "signal", "boot"}
    /\ open \in Nat
    /\ events \in Nat
    /\ log \in Seq(State)
    /\ table \in Seq(DOMAIN log)

Init ==
    /\ phase = "creating"
    /\ cause = "none"
    /\ open = 0
    /\ events = 0
    /\ log = <<>>
    /\ table = <<>>

(***************************************************************************)
(* What is logged.                                                         *)
(***************************************************************************)

Record ==
    /\ Len(log) < MaxRecords
    /\ events' = events + 1
    /\ log' = Logged(log)

\* TypeORM reports a statement before sending it: DBLogger.logQuery.  The data
\* source has statements of its own already while Nest is being created.
LogQuery ==
    /\ Up
    /\ open' = open + 1
    /\ Record
    /\ UNCHANGED <<phase, cause, table>>

StatementDone ==
    /\ Up
    /\ open > 0
    /\ open' = open - 1
    /\ UNCHANGED <<phase, cause, events, log, table>>

\* Variant: a failure is reported for a statement that has ended before.
LogQueryErrorAgain ==
    /\ Up
    /\ open' = open - 1
    /\ Record
    /\ UNCHANGED <<phase, cause, table>>

\* The statement fails: DBLogger.logQueryError.
LogQueryError ==
    /\ Up
    /\ open > 0
    /\ open' = open - 1
    /\ Record
    /\ UNCHANGED <<phase, cause, table>>

\* ContextLogger.debug, as called by the interceptor for an error, and
\* SqlLogger.debug once app.useLogger has set it up.
Debug ==
    /\ phase \in {"running", "closing"}
    /\ Record
    /\ UNCHANGED <<phase, cause, open, table>>

(***************************************************************************)
(* The inserts.                                                            *)
(***************************************************************************)

\* Variant: the pool serves the latest waiter first.
AcquireLatest ==
    /\ Up
    /\ phase = "closing" \/ Cardinality(Busy(log)) < LogPoolSize
    /\ \E k \in DOMAIN log :
        /\ log[k] = "waiting"
        /\ \A j \in (k + 1)..Len(log) : log[j] # "waiting"
        /\ log' = SqlQueryLogger([log EXCEPT ![k] = "sent"])
    /\ UNCHANGED <<phase, cause, open, events, table>>

\* pg's pool serves its waiters in order.  While the data source is being closed
\* TypeORM gives connections back that are still at work, and so on to others.
Acquire ==
    /\ Up
    /\ phase = "closing" \/ Cardinality(Busy(log)) < LogPoolSize
    /\ \E k \in DOMAIN log :
        /\ log[k] = "waiting"
        /\ \A j \in 1..(k - 1) : log[j] # "waiting"
        /\ log' = SqlQueryLogger([log EXCEPT ![k] = "sent"])
    /\ UNCHANGED <<phase, cause, open, events, table>>

\* Postgres executes the insert and dates the row; it does so too when the
\* process that sent it has ended meanwhile.
Execute(k) ==
    /\ log[k] = "sent"
    /\ log' = [log EXCEPT ![k] = "executed"]
    /\ table' = Append(table, k)
    /\ UNCHANGED <<phase, cause, open, events>>

Fulfil(k) ==
    /\ Up
    /\ log[k] = "executed"
    /\ log' = [log EXCEPT ![k] = "done"]
    /\ UNCHANGED <<phase, cause, open, events, table>>

\* Variant: insertLog swallows the error.
RejectSilently(k) ==
    /\ Up
    /\ log[k] \in {"sent", "executed"}
    /\ log' = [log EXCEPT ![k] = "done"]
    /\ UNCHANGED <<phase, cause, open, events, table>>

\* Variant: insertLog has no catch; Node ends the process unless a handler of
\* uncaughtException has been registered.
RejectUnhandled(k) ==
    /\ Up
    /\ log[k] \in {"sent", "executed"}
    /\ phase' = IF phase = "creating" THEN "down" ELSE phase
    /\ log' = IF phase = "creating" THEN CutOff([log EXCEPT ![k] = "reported"])
                                    ELSE [log EXCEPT ![k] = "reported"]
    /\ UNCHANGED <<cause, open, events, table>>

\* No connection, an error, or a connection that breaks before the reply: TypeORM
\* reports the failure to the data source's logger, the promise is rejected and
\* insertLog catches.
Reject(k) ==
    /\ Up
    /\ log[k] \in {"sent", "executed"}
    /\ log' = SqlQueryLogger([log EXCEPT ![k] = "reported"])
    /\ UNCHANGED <<phase, cause, open, events, table>>

\* The insert of a process that has ended does not reach Postgres.
Break(k) ==
    /\ ~Up
    /\ log[k] = "sent"
    /\ log' = [log EXCEPT ![k] = "lost"]
    /\ UNCHANGED <<phase, cause, open, events, table>>

(***************************************************************************)
(* The process.                                                            *)
(***************************************************************************)

End(why) ==
    /\ phase' = "down"
    /\ cause' = why
    /\ log' = CutOff(log)
    /\ UNCHANGED <<open, events, table>>

\* NestFactory.create fails (a data source that cannot be initialised, say) and
\* Nest aborts.
Abort == phase = "creating" /\ End("boot")

\* The application is created and bootstrap registers the signal handlers.
HandleProcessSignal ==
    /\ phase = "creating"
    /\ phase' = "running"
    /\ UNCHANGED <<cause, open, events, log, table>>

\* A signal ends a process without handlers; with them it begins to close.  (A
\* further signal closes once more: nothing that matters here.)
Signal ==
    \/ phase = "creating" /\ End("signal")
    \/ /\ phase = "running"
       /\ phase' = "closing"
       /\ cause' = "signal"
       /\ UNCHANGED <<open, events, log, table>>

\* process.exit after app.close, which does not wait for inserts.
Exit == phase = "closing" /\ End(cause)

Insert(k) == Execute(k) \/ Fulfil(k) \/ Reject(k)

Next ==
    \/ LogQuery \/ StatementDone \/ LogQueryError \/ Debug
    \/ Acquire
    \/ \E k \in DOMAIN log : Execute(k) \/ Fulfil(k) \/ Reject(k) \/ Break(k)
    \/ Abort \/ HandleProcessSignal \/ Signal \/ Exit

Spec == Init /\ [][Next]_vars

\* The event loop runs, Postgres or the driver answers.  Nothing is asked of the
\* pool once it is being closed.
Fairness ==
    /\ WF_vars(phase # "closing" /\ Acquire)
    /\ \A k \in 1..MaxRecords : WF_vars(k \in DOMAIN log /\ Insert(k))

FairSpec == Spec /\ Fairness

(***************************************************************************)
(* Properties.                                                             *)
(***************************************************************************)

\* Storing log records makes no log records: there is exactly one for each thing
\* the service had to record, however many inserts were made and failed
\* (db.module.ts, the logger of the log data source).
NoLogOfLogging == Len(log) = events

\* An announced id tells the truth: an insert that ended without a report has
\* stored its row, one that was never executed has not, and no row is there twice.
\* Without a row the id is on its way, reported, or cut off by the end of the
\* process (insertLog).
Accounted ==
    /\ \A i, j \in DOMAIN table : table[i] = table[j] => i = j
    /\ \A k \in DOMAIN log :
        /\ log[k] \in {"executed", "done"} => Stored(k)
        /\ log[k] \in {"waiting", "sent", "lost"} => ~Stored(k)

\* The log is out of order by less than a pool: when a record is stored, fewer
\* announced before it than there are connections are still missing.
BoundedOvertaking ==
    phase \in {"creating", "running"} =>
        \A i \in DOMAIN table :
            Cardinality({j \in Unstored(log) : j < table[i]}) < LogPoolSize

\* An insert that fails never ends the process, neither before nor after the
\* handler of uncaughtException is there (insertLog's catch, main.ts:40).
EndsOnlyWhenTold == phase = "down" => cause # "none"

In(k, states) == k \in DOMAIN log /\ log[k] \in states

\* Every insert comes to an end as long as the process is not told to: neither a
\* failed one nor those queued before it keep it from its connection for ever.
EveryInsertSettles ==
    \A k \in 1..MaxRecords :
        In(k, {"waiting", "sent", "executed"})
            ~> (cause # "none" \/ In(k, {"done", "reported"}))
=============================================================================
