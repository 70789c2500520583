-------------------------- MODULE SqlLoggingProofs --------------------------
(***************************************************************************)
(* Safety of SqlLogging for pools of any size and any number of records.   *)
(***************************************************************************)
EXTENDS SqlLogging, FiniteSetTheorems, SequenceTheorems, TLAPS

USE LogPoolAssumption

(***************************************************************************)
(* How a step changes the log.                                             *)
(***************************************************************************)

\* Recording adds one waiting insert at the end.
LEMMA RecordAdds ==
    ASSUME TypeOK, Record
    PROVE  /\ log' \in Seq(State)
           /\ Len(log') = Len(log) + 1
           /\ \A j \in 1..Len(log) : log'[j] = log[j]
           /\ log'[Len(log) + 1] = "waiting"
<1>1. log \in Seq(State) /\ "waiting" \in State
  BY DEF TypeOK, State
<1>2. log' = Append(log, "waiting")
  BY DEF Record, Logged
<1> QED
  BY <1>1, <1>2, AppendProperties

\* An insert moves to another state and the others keep theirs.
LEMMA MoveKeeps ==
    ASSUME TypeOK, NEW k \in DOMAIN log, NEW s \in State,
           log' = [log EXCEPT ![k] = s]
    PROVE  /\ log' \in Seq(State)
           /\ Len(log') = Len(log)
           /\ log'[k] = s
           /\ \A j \in 1..Len(log) : j # k => log'[j] = log[j]
<1>1. log \in Seq(State) /\ k \in 1..Len(log)
  BY LenProperties DEF TypeOK
<1> QED
  BY <1>1, ExceptSeq

\* The end of the process cuts off those that wait.
LEMMA CutOffKeeps ==
    ASSUME TypeOK, log' = CutOff(log)
    PROVE  /\ log' \in Seq(State)
           /\ Len(log') = Len(log)
           /\ \A j \in 1..Len(log) :
                log'[j] = IF log[j] = "waiting" THEN "lost" ELSE log[j]
<1>1. log \in [1..Len(log) -> State] /\ DOMAIN log = 1..Len(log) /\ Len(log) \in Nat
  BY LenProperties DEF TypeOK
<1>2. log' = [j \in 1..Len(log) |-> IF log[j] = "waiting" THEN "lost" ELSE log[j]]
  BY <1>1 DEF CutOff
<1>3. log' \in [1..Len(log) -> State]
  BY <1>1, <1>2 DEF State
<1>4. log' \in Seq(State)
  BY <1>1, <1>3, SeqDef
<1>5. Len(log') = Len(log)
  BY <1>1, <1>3, <1>4, LenProperties
<1> QED
  BY <1>2, <1>4, <1>5

(***************************************************************************)
(* The steps, by what they do to the log.                                  *)
(***************************************************************************)

\* Something is recorded: LogQuery, LogQueryError, Debug.
Adding ==
    /\ log' \in Seq(State)
    /\ Len(log') = Len(log) + 1
    /\ \A j \in 1..Len(log) : log'[j] = log[j]
    /\ log'[Len(log) + 1] = "waiting"
    /\ events' = events + 1
    /\ open' \in Nat
    /\ UNCHANGED <<phase, cause, table>>

\* Insert k goes from state s to state t.
Moving(k, s, t) ==
    /\ k \in 1..Len(log)
    /\ log[k] \in s
    /\ log' \in Seq(State)
    /\ Len(log') = Len(log)
    /\ log'[k] = t
    /\ \A j \in 1..Len(log) : j # k => log'[j] = log[j]
    /\ UNCHANGED <<phase, cause, open, events>>

\* The process ends: Abort, Signal, Exit.
Ending ==
    /\ log' \in Seq(State)
    /\ Len(log') = Len(log)
    /\ \A j \in 1..Len(log) :
            log'[j] = IF log[j] = "waiting" THEN "lost" ELSE log[j]
    /\ phase' = "down"
    /\ cause' \in {"signal", "boot"}
    /\ UNCHANGED <<open, events, table>>

\* Nothing is recorded or moved.
Idling ==
    /\ \/ phase' = phase /\ cause' = cause
       \/ phase = "creating" /\ phase' = "running" /\ cause' = cause
       \/ phase' = "closing" /\ cause' = "signal"
    /\ open' \in Nat
    /\ UNCHANGED <<events, log, table>>

\* A process that closes or has ended has been told to.
Told == phase \in {"closing", "down"} => cause \in {"signal", "boot"}

AcquireFor(k) ==
    /\ phase = "closing" \/ Cardinality(Busy(log)) < LogPoolSize
    /\ \A j \in 1..(k - 1) : log[j] # "waiting"
    /\ table' = table

LEMMA Shapes ==
    ASSUME TypeOK, Told, [Next]_vars
    PROVE  \/ Adding \/ Ending \/ Idling
           \/ \E k \in 1..Len(log) :
                \/ Moving(k, {"waiting"}, "sent") /\ AcquireFor(k)
                \/ Moving(k, {"sent"}, "executed") /\ table' = Append(table, k)
                \/ Moving(k, {"executed"}, "done") /\ table' = table
                \/ Moving(k, {"sent", "executed"}, "reported") /\ table' = table
                \/ Moving(k, {"sent"}, "lost") /\ table' = table
<1> DEFINE MovesFor(k) ==
       \/ Moving(k, {"waiting"}, "sent") /\ AcquireFor(k)
       \/ Moving(k, {"sent"}, "executed") /\ table' = Append(table, k)
       \/ Moving(k, {"executed"}, "done") /\ table' = table
       \/ Moving(k, {"sent", "executed"}, "reported") /\ table' = table
       \/ Moving(k, {"sent"}, "lost") /\ table' = table
<1>0. DOMAIN log = 1..Len(log)
  BY LenProperties DEF TypeOK
<1>1. CASE LogQuery
  BY <1>1, RecordAdds DEF LogQuery, Record, Adding, TypeOK
<1>2. CASE LogQueryError
  <2>1. open' \in Nat
    BY <1>2 DEF LogQueryError, TypeOK
  <2> QED
    BY <1>2, <2>1, RecordAdds DEF LogQueryError, Record, Adding
<1>3. CASE Debug
  BY <1>3, RecordAdds DEF Debug, Record, Adding, TypeOK
<1>4. CASE StatementDone
  BY <1>4 DEF StatementDone, Idling, TypeOK
<1>5. CASE Acquire
  <2>1. PICK k \in DOMAIN log :
            /\ log[k] = "waiting"
            /\ \A j \in 1..(k - 1) : log[j] # "waiting"
            /\ log' = [log EXCEPT ![k] = "sent"]
    BY <1>5 DEF Acquire, SqlQueryLogger
  <2>2. "sent" \in State
    BY DEF State
  <2>3. Moving(k, {"waiting"}, "sent")
    BY <1>0, <1>5, <2>1, <2>2, MoveKeeps DEF Acquire, Moving
  <2>4. AcquireFor(k)
    BY <1>5, <2>1 DEF Acquire, AcquireFor
  <2> QED
    BY <1>0, <2>3, <2>4
<1>6. ASSUME NEW k \in DOMAIN log, Execute(k) \/ Fulfil(k) \/ Reject(k) \/ Break(k)
      PROVE  MovesFor(k)
  <2> USE DEF State
  <2>1. CASE Execute(k)
    BY <1>0, <2>1, MoveKeeps DEF Execute, Moving
  <2>2. CASE Fulfil(k)
    BY <1>0, <2>2, MoveKeeps DEF Fulfil, Moving
  <2>3. CASE Reject(k)
    BY <1>0, <2>3, MoveKeeps DEF SqlQueryLogger, Reject, Moving
  <2>4. CASE Break(k)
    BY <1>0, <2>4, MoveKeeps DEF Break, Moving
  <2> QED
    BY <1>6, <2>1, <2>2, <2>3, <2>4
<1>7. ASSUME NEW why \in {"signal", "boot"}, End(why)
      PROVE  Ending
  BY <1>7, CutOffKeeps DEF End, Ending
<1>8. CASE Abort
  BY <1>7, <1>8 DEF Abort
<1>9. CASE HandleProcessSignal
  BY <1>9 DEF HandleProcessSignal, Idling, TypeOK
<1>10. CASE Signal
  BY <1>7, <1>10 DEF Signal, Idling, TypeOK
<1>11. CASE Exit
  BY <1>7, <1>11 DEF Exit, Told
<1>12. CASE UNCHANGED vars
  BY <1>12 DEF vars, Idling, TypeOK
<1> QED
  BY <1>0, <1>1, <1>2, <1>3, <1>4, <1>5, <1>6, <1>8, <1>9, <1>10, <1>11, <1>12
     DEF Next

(***************************************************************************)
(* The inductive invariant.                                                *)
(***************************************************************************)

\* Waiting inserts come after all others.
InOrder ==
    \A k \in 1..Len(log) :
        log[k] \in {"sent", "executed", "done", "reported"}
            => \A j \in 1..(k - 1) : log[j] # "waiting"

\* As long as the pool is open no connection serves two inserts.
PoolBounded ==
    phase \in {"creating", "running"} => Cardinality(Busy(log)) <= LogPoolSize

IInv ==
    /\ TypeOK /\ Told
    /\ NoLogOfLogging /\ Accounted
    /\ InOrder /\ PoolBounded /\ BoundedOvertaking

LEMMA TypeStep ==
    ASSUME TypeOK, Told, [Next]_vars
    PROVE  TypeOK' /\ Told'
<1>0. DOMAIN log = 1..Len(log) /\ Len(log) \in Nat /\ table \in Seq(1..Len(log))
  BY LenProperties DEF TypeOK
<1>1. ASSUME log' \in Seq(State), Len(log') \in {Len(log), Len(log) + 1}, table' = table
      PROVE  table' \in Seq(DOMAIN log')
  <2>1. DOMAIN log' = 1..Len(log')
    BY <1>1, LenProperties
  <2>2. 1..Len(log) \subseteq 1..Len(log')
    BY <1>0, <1>1
  <2> QED
    BY <1>0, <1>1, <2>1, <2>2, SeqMonotonic
<1>2. CASE Adding
  BY <1>1, <1>2 DEF Adding, TypeOK, Told
<1>3. CASE Ending
  BY <1>1, <1>3 DEF Ending, TypeOK, Told
<1>4. CASE Idling
  BY <1>4 DEF Idling, TypeOK, Told
<1>5. ASSUME NEW k \in 1..Len(log), NEW s, NEW t, Moving(k, s, t), table' = table
      PROVE  TypeOK' /\ Told'
  BY <1>1, <1>5 DEF Moving, TypeOK, Told
<1>6. ASSUME NEW k \in 1..Len(log), Moving(k, {"sent"}, "executed"),
             table' = Append(table, k)
      PROVE  TypeOK' /\ Told'
  <2>1. DOMAIN log' = 1..Len(log)
    BY <1>6, LenProperties DEF Moving
  <2>2. table' \in Seq(1..Len(log))
    BY <1>0, <1>6, AppendProperties
  <2> QED
    BY <1>6, <2>1, <2>2 DEF Moving, TypeOK, Told
<1> QED
  BY Shapes, <1>2, <1>3, <1>4, <1>5, <1>6 DEF AcquireFor

LEMMA CountStep ==
    ASSUME TypeOK, Told, NoLogOfLogging, [Next]_vars
    PROVE  NoLogOfLogging'
BY Shapes DEF NoLogOfLogging, Adding, Ending, Idling, Moving

\* What a step leaves in the table.
LEMMA TableKept ==
    ASSUME TypeOK, table' = table
    PROVE  \A k \in 1..Len(log) : Stored(k)' <=> Stored(k)
BY DEF Stored

LEMMA AccountedStep ==
    ASSUME TypeOK, TypeOK', Told, Accounted, [Next]_vars
    PROVE  Accounted'
<1>0. /\ DOMAIN log = 1..Len(log) /\ Len(log) \in Nat
      /\ DOMAIN log' = 1..Len(log')
      /\ DOMAIN table = 1..Len(table) /\ Len(table) \in Nat
      /\ \A i \in DOMAIN table : table[i] \in 1..Len(log)
      /\ \A k \in 1..Len(log) : log[k] \in State
  BY LenProperties, ElementOfSeq DEF TypeOK
<1>1. CASE Adding
  <2>1. \A i \in DOMAIN table' : table'[i] # Len(log) + 1
    BY <1>0, <1>1 DEF Adding
  <2>2. \A i, j \in DOMAIN table' : table'[i] = table'[j] => i = j
    BY <1>1 DEF Adding, Accounted
  <2>3. ASSUME NEW k \in 1..Len(log)
        PROVE  log'[k] = log[k] /\ (Stored(k)' <=> Stored(k))
    BY <1>1, TableKept DEF Adding
  <2>4. ASSUME NEW k \in DOMAIN log'
        PROVE  k \in 1..Len(log) \/ k = Len(log) + 1
    BY <1>0, <1>1 DEF Adding
  <2>5. log'[Len(log) + 1] = "waiting"
    BY <1>1 DEF Adding
  <2> QED
    <3>1. ASSUME NEW k \in DOMAIN log'
          PROVE  /\ log'[k] \in {"executed", "done"} => Stored(k)'
                 /\ log'[k] \in {"waiting", "sent", "lost"} => ~Stored(k)'
      <4>1. CASE k \in 1..Len(log)
        BY <1>0, <2>3, <4>1 DEF Accounted
      <4>2. CASE k = Len(log) + 1
        BY <2>1, <2>5, <4>2 DEF Stored
      <4> QED
        BY <2>4, <4>1, <4>2
    <3> QED
      BY <2>2, <3>1 DEF Accounted, Stored
<1>2. CASE Ending
  BY <1>0, <1>2, TableKept DEF Ending, Accounted, State
<1>3. CASE Idling
  BY <1>3 DEF Idling, Accounted, Stored
<1>4. ASSUME NEW k \in 1..Len(log), NEW s, NEW t, Moving(k, s, t), table' = table,
             t \in {"executed", "done"} => Stored(k),
             t \in {"waiting", "sent", "lost"} => ~Stored(k)
      PROVE  Accounted'
  BY <1>0, <1>4, TableKept DEF Moving, Accounted
<1>5. ASSUME NEW k \in 1..Len(log), Moving(k, {"sent"}, "executed"),
             table' = Append(table, k)
      PROVE  Accounted'
  <2>1. /\ DOMAIN table' = 1..(Len(table) + 1)
        /\ \A i \in 1..Len(table) : table'[i] = table[i]
        /\ table'[Len(table) + 1] = k
    BY <1>0, <1>5, AppendProperties, LenProperties DEF TypeOK
  <2>2. ~Stored(k)
    BY <1>0, <1>5 DEF Moving, Accounted
  <2>3. \A i, j \in DOMAIN table' : table'[i] = table'[j] => i = j
    BY <1>0, <2>1, <2>2 DEF Stored, Accounted
  <2>4. \A j \in 1..Len(log) : Stored(j)' <=> (Stored(j) \/ j = k)
    BY <1>0, <2>1 DEF Stored
  <2> QED
    BY <1>0, <1>5, <2>3, <2>4 DEF Moving, Accounted
<1>6. ASSUME NEW k \in 1..Len(log), Moving(k, {"waiting"}, "sent"), AcquireFor(k)
      PROVE  Accounted'
  BY <1>0, <1>4, <1>6 DEF Moving, AcquireFor, Accounted
<1>7. ASSUME NEW k \in 1..Len(log), Moving(k, {"executed"}, "done"), table' = table
      PROVE  Accounted'
  BY <1>0, <1>4, <1>7 DEF Moving, Accounted
<1>8. ASSUME NEW k \in 1..Len(log), Moving(k, {"sent"}, "lost"), table' = table
      PROVE  Accounted'
  BY <1>0, <1>4, <1>8 DEF Moving, Accounted
<1>9. ASSUME NEW k \in 1..Len(log), Moving(k, {"sent", "executed"}, "reported"),
             table' = table
      PROVE  Accounted'
  BY <1>4, <1>9
<1> QED
  BY Shapes, <1>1, <1>2, <1>3, <1>5, <1>6, <1>7, <1>8, <1>9

LEMMA OrderStep ==
    ASSUME TypeOK, Told, InOrder, [Next]_vars
    PROVE  InOrder'
<1>0. Len(log) \in Nat
  BY LenProperties DEF TypeOK
<1>1. CASE Adding
  BY <1>0, <1>1 DEF Adding, InOrder
<1>2. CASE Ending
  BY <1>0, <1>2 DEF Ending, InOrder
<1>3. CASE Idling
  BY <1>3 DEF Idling, InOrder
<1>4. ASSUME NEW k \in 1..Len(log), Moving(k, {"waiting"}, "sent"), AcquireFor(k)
      PROVE  InOrder'
  BY <1>0, <1>4 DEF Moving, AcquireFor, InOrder
<1>5. ASSUME NEW k \in 1..Len(log),
             NEW t \in {"executed", "done", "reported", "lost"},
             Moving(k, {"sent", "executed"}, t)
      PROVE  InOrder'
  BY <1>0, <1>5 DEF Moving, InOrder
<1> QED
  BY Shapes, <1>1, <1>2, <1>3, <1>4, <1>5 DEF Moving

\* Under the types, the sets of inserts the invariants count are finite.
LEMMA LogSetsFinite ==
    ASSUME TypeOK, NEW S \in SUBSET (DOMAIN log)
    PROVE  IsFiniteSet(S) /\ Cardinality(S) \in Nat
<1>1. DOMAIN log = 1..Len(log) /\ Len(log) \in Nat
  BY LenProperties DEF TypeOK
<1>2. IsFiniteSet(DOMAIN log)
  BY <1>1, FS_Interval
<1>3. IsFiniteSet(S)
  BY <1>2, FS_Subset
<1> QED
  BY <1>3, FS_CardinalityType

LEMMA PoolStep ==
    ASSUME TypeOK, TypeOK', Told, PoolBounded, [Next]_vars
    PROVE  PoolBounded'
<1>0. /\ DOMAIN log = 1..Len(log) /\ Len(log) \in Nat
      /\ DOMAIN log' = 1..Len(log')
      /\ Busy(log) \subseteq DOMAIN log
      /\ IsFiniteSet(Busy(log)) /\ Cardinality(Busy(log)) \in Nat
  <2>1. Busy(log) \subseteq DOMAIN log
    BY DEF Busy
  <2> QED
    BY <2>1, LenProperties, LogSetsFinite DEF TypeOK
<1>1. ASSUME Busy(log') \subseteq Busy(log),
             phase' \in {"creating", "running"} => phase \in {"creating", "running"}
      PROVE  PoolBounded'
  <2>1. Cardinality(Busy(log')) <= Cardinality(Busy(log)) /\ IsFiniteSet(Busy(log'))
    BY <1>0, <1>1, FS_Subset
  <2>2. Cardinality(Busy(log')) \in Nat
    BY <2>1, FS_CardinalityType
  <2>3. Busy(log)' = Busy(log')
    BY DEF Busy
  <2> QED
    BY <1>0, <1>1, <2>1, <2>2, <2>3 DEF PoolBounded
<1>2. CASE Adding
  BY <1>0, <1>1, <1>2 DEF Adding, Busy
<1>3. CASE Ending
  BY <1>3 DEF Ending, PoolBounded
<1>4. CASE Idling
  BY <1>1, <1>4 DEF Idling
<1>5. ASSUME NEW k \in 1..Len(log), Moving(k, {"waiting"}, "sent"), AcquireFor(k)
      PROVE  PoolBounded'
  <2>1. Busy(log)' = Busy(log) \union {k} /\ k \notin Busy(log)
    BY <1>0, <1>5 DEF Moving, Busy
  <2>2. Cardinality(Busy(log)') = Cardinality(Busy(log)) + 1
    BY <1>0, <2>1, FS_AddElement
  <2> QED
    BY <1>0, <1>5, <2>2 DEF Moving, AcquireFor, PoolBounded
<1>6. ASSUME NEW k \in 1..Len(log), NEW t, Moving(k, {"sent", "executed"}, t)
      PROVE  PoolBounded'
  <2>1. Busy(log') \subseteq Busy(log)
    BY <1>0, <1>6 DEF Moving, Busy
  <2> QED
    BY <1>1, <1>6, <2>1 DEF Moving
<1> QED
  BY Shapes, <1>2, <1>3, <1>4, <1>5, <1>6 DEF Moving

LEMMA OvertakingStep ==
    ASSUME TypeOK, TypeOK', Told, InOrder, PoolBounded, BoundedOvertaking, [Next]_vars
    PROVE  BoundedOvertaking'
<1> DEFINE Overtaken(i) == {j \in Unstored(log) : j < table[i]}
<1>0. /\ DOMAIN log = 1..Len(log) /\ Len(log) \in Nat
      /\ DOMAIN log' = 1..Len(log')
      /\ DOMAIN table = 1..Len(table) /\ Len(table) \in Nat
      /\ \A i \in DOMAIN table : table[i] \in 1..Len(log)
  BY LenProperties, ElementOfSeq DEF TypeOK
<1>1. \A i \in DOMAIN table : IsFiniteSet(Overtaken(i)) /\ Cardinality(Overtaken(i)) \in Nat
  BY LogSetsFinite DEF Unstored
<1>2. ASSUME phase' \in {"creating", "running"} => phase \in {"creating", "running"},
             DOMAIN table' = DOMAIN table,
             \A i \in DOMAIN table : Overtaken(i)' \subseteq Overtaken(i)
      PROVE  BoundedOvertaking'
  <2>1. ASSUME NEW i \in DOMAIN table, phase' \in {"creating", "running"}
        PROVE  Cardinality(Overtaken(i)') < LogPoolSize
    <3>1. Cardinality(Overtaken(i)) < LogPoolSize
      BY <1>2, <2>1 DEF BoundedOvertaking
    <3>2. IsFiniteSet(Overtaken(i)') /\ Cardinality(Overtaken(i)') <= Cardinality(Overtaken(i))
      BY <1>1, <1>2, FS_Subset
    <3>3. Cardinality(Overtaken(i)') \in Nat
      BY <3>2, FS_CardinalityType
    <3> QED
      BY <1>1, <3>1, <3>2, <3>3
  <2> QED
    BY <1>2, <2>1 DEF BoundedOvertaking
<1>3. CASE Adding
  BY <1>0, <1>2, <1>3 DEF Adding, Unstored
<1>4. CASE Ending
  BY <1>4 DEF Ending, BoundedOvertaking
<1>5. CASE Idling
  BY <1>2, <1>5 DEF Idling
<1>6. ASSUME NEW k \in 1..Len(log), NEW s, NEW t, Moving(k, s, t), table' = table,
             t \in {"waiting", "sent"} => log[k] \in {"waiting", "sent"}
      PROVE  BoundedOvertaking'
  <2>1. Unstored(log)' \subseteq Unstored(log)
    BY <1>0, <1>6 DEF Moving, Unstored
  <2> QED
    BY <1>2, <1>6, <2>1 DEF Moving
<1>7. ASSUME NEW k \in 1..Len(log), Moving(k, {"sent"}, "executed"),
             table' = Append(table, k)
      PROVE  BoundedOvertaking'
  <2> SUFFICES ASSUME phase \in {"creating", "running"}, NEW i \in DOMAIN table'
               PROVE  Cardinality({j \in Unstored(log') : j < table'[i]}) < LogPoolSize
    BY <1>7 DEF Moving, BoundedOvertaking, Unstored
  <2>1. /\ DOMAIN table' = 1..(Len(table) + 1)
        /\ \A n \in 1..Len(table) : table'[n] = table[n]
        /\ table'[Len(table) + 1] = k
    BY <1>0, <1>7, AppendProperties, LenProperties DEF TypeOK
  <2>2. Unstored(log') \subseteq Unstored(log)
    BY <1>0, <1>7 DEF Moving, Unstored
  <2>3. CASE i \in 1..Len(table)
    <3>1. {j \in Unstored(log') : j < table'[i]} \subseteq Overtaken(i)
      BY <2>1, <2>2, <2>3
    <3>2. Cardinality(Overtaken(i)) < LogPoolSize
      BY <1>0, <2>3 DEF BoundedOvertaking
    <3> HIDE DEF Overtaken
    <3>3. /\ IsFiniteSet({j \in Unstored(log') : j < table'[i]})
          /\ Cardinality({j \in Unstored(log') : j < table'[i]}) <= Cardinality(Overtaken(i))
      BY <1>0, <1>1, <2>3, <3>1, FS_Subset
    <3>4. Cardinality({j \in Unstored(log') : j < table'[i]}) \in Nat
      BY <3>3, FS_CardinalityType
    <3> QED
      BY <1>0, <1>1, <2>3, <3>2, <3>3, <3>4
  <2>4. CASE i = Len(table) + 1
    <3> DEFINE T == {j \in Unstored(log') : j < k}
               B == Busy(log) \ {k}
    <3>1. T \subseteq B
      BY <1>0, <1>7 DEF Moving, Unstored, Busy, InOrder
    <3>2. k \in Busy(log)
      BY <1>0, <1>7 DEF Moving, Busy
    <3>3. IsFiniteSet(Busy(log)) /\ Cardinality(Busy(log)) \in Nat
      BY LogSetsFinite DEF Busy
    <3>4. IsFiniteSet(B) /\ Cardinality(B) = Cardinality(Busy(log)) - 1
      BY <3>2, <3>3, FS_RemoveElement
    <3> HIDE DEF T, B
    <3>5. Cardinality(T) <= Cardinality(B) /\ IsFiniteSet(T)
      BY <3>1, <3>4, FS_Subset
    <3>6. Cardinality(T) \in Nat
      BY <3>5, FS_CardinalityType
    <3>7. Cardinality(Busy(log)) <= LogPoolSize
      BY DEF PoolBounded
    <3>8. Cardinality(T) < LogPoolSize
      BY <3>3, <3>4, <3>5, <3>6, <3>7
    <3> QED
      BY <2>1, <2>4, <3>8 DEF T
  <2> QED
    BY <1>0, <2>1, <2>3, <2>4
<1> HIDE DEF Overtaken
<1>8. ASSUME NEW k \in 1..Len(log), Moving(k, {"waiting"}, "sent"), AcquireFor(k)
      PROVE  BoundedOvertaking'
  BY <1>6, <1>8 DEF Moving, AcquireFor
<1>9. ASSUME NEW k \in 1..Len(log), NEW t \in {"done", "reported", "lost"},
             Moving(k, {"sent", "executed"}, t), table' = table
      PROVE  BoundedOvertaking'
  BY <1>6, <1>9
<1> QED
  BY Shapes, <1>3, <1>4, <1>5, <1>7, <1>8, <1>9 DEF Moving

(***************************************************************************)
(* Theorems.                                                               *)
(***************************************************************************)

LEMMA Inductive == Spec => []IInv
<1>1. Init => IInv
  <2>1. ASSUME Init
        PROVE  TypeOK /\ Told /\ NoLogOfLogging /\ Accounted /\ InOrder
    BY <2>1, EmptySeq
       DEF Init, TypeOK, Told, NoLogOfLogging, Accounted, InOrder, Stored
  <2>2. ASSUME Init
        PROVE  PoolBounded /\ BoundedOvertaking
    <3>1. Busy(log) = {}
      BY <2>2 DEF Init, Busy
    <3> QED
      BY <2>2, <3>1, FS_EmptySet DEF Init, PoolBounded, BoundedOvertaking
  <2> QED
    BY <2>1, <2>2 DEF IInv
<1>2. IInv /\ [Next]_vars => IInv'
  BY TypeStep, CountStep, AccountedStep, OrderStep, PoolStep, OvertakingStep DEF IInv
<1> QED
  BY <1>1, <1>2, PTL DEF Spec

\* The variables keep their types; in particular a stored record is an announced one.
THEOREM TypeCorrect == Spec => []TypeOK
<1>1. IInv => TypeOK
  BY DEF IInv
<1> QED
  BY Inductive, <1>1, PTL

\* Logging does not feed itself, however many inserts there are.
THEOREM LoggingStops == Spec => []NoLogOfLogging
<1>1. IInv => NoLogOfLogging
  BY DEF IInv
<1> QED
  BY Inductive, <1>1, PTL

\* Every announced id is accounted for, whatever fails and whenever the process ends.
THEOREM AnnouncedAccounted == Spec => []Accounted
<1>1. IInv => Accounted
  BY DEF IInv
<1> QED
  BY Inductive, <1>1, PTL

\* The disorder of the log is less than the pool.
THEOREM OvertakingBounded == Spec => []BoundedOvertaking
<1>1. IInv => BoundedOvertaking
  BY DEF IInv
<1> QED
  BY Inductive, <1>1, PTL

\* Failing inserts never end the process.
THEOREM LoggingHarmless == Spec => []EndsOnlyWhenTold
<1>1. IInv => EndsOnlyWhenTold
  BY DEF IInv, Told, EndsOnlyWhenTold
<1> QED
  BY Inductive, <1>1, PTL
=============================================================================
