-------------------------- MODULE UserServiceProofs --------------------------
(***************************************************************************)
(* Safety of UserService for any number of users, calls and connections,   *)
(* any cache time and any run of the clock.                                *)
(***************************************************************************)
EXTENDS UserService, FiniteSetTheorems, TLAPS

USE TtlAssumption, PoolAssumption

States == Settled \union {"lookup", "check", "file", "connect", "select",
                          "stamp", "store", "statement", "commit", "ack"}

Holders == {r \in Requests : pc[r] \in Holding}

(***************************************************************************)
(* Connections.                                                            *)
(***************************************************************************)

\* The holders are finitely many.
LEMMA HoldersFinite ==
    /\ IsFiniteSet(Holders)
    /\ Cardinality(Holders) \in Nat
<1>1. Holders \in SUBSET Requests
  BY DEF Holders
<1>2. IsFiniteSet(Holders)
  BY <1>1, RequestsAssumption, FS_Subset
<1> QED
  BY <1>2, FS_CardinalityType

\* A call that holds a connection keeps the pool from being full.
LEMMA HolderTakesOne ==
    ASSUME TypeOK, ConnectionsAccounted, NEW r \in Requests, pc[r] \in Holding
    PROVE  free < PoolSize
<1>1. Holders # {}
  BY DEF Holders
<1>2. Cardinality(Holders) # 0
  BY <1>1, HoldersFinite, FS_EmptySet
<1> QED
  BY <1>2, HoldersFinite DEF ConnectionsAccounted, Holders, TypeOK

\* A write adds one version to its row, dated now.
LEMMA WrittenType ==
    ASSUME TypeOK, NEW id \in Ids, NEW o
    PROVE  /\ NewVersion(id, o) \in Version
           /\ NewVersion(id, o).at = clock
           /\ Written(id, o) \in [Ids -> Seq(Version)]
<1>1. NewVersion(id, o) \in Version /\ NewVersion(id, o).at = clock
  BY DEF NewVersion, Version, TypeOK
<1>2. Append(rows[id], NewVersion(id, o)) \in Seq(Version)
  BY <1>1 DEF TypeOK
<1> QED
  BY <1>1, <1>2 DEF Written, TypeOK

\* The types are kept by every step.
LEMMA TypeStep ==
    ASSUME TypeOK, ConnectionsAccounted, [Next]_vars
    PROVE  TypeOK'
<1> USE DEF TypeOK, Settled, Reads, Writes
<1>1. ASSUME NEW r \in Requests, NEW o \in Reads \union Writes, NEW id \in Ids,
             Call(r, o, id)
      PROVE  TypeOK'
  BY <1>1 DEF Call, NoCopy, Copy, storage
<1>2. ASSUME NEW r \in Requests, LookUp(r)
      PROVE  TypeOK'
  <2>1. CacheKeyForProfile(target[r]) \in Keys
    BY DEF Keys
  <2>2. cache[CacheKeyForProfile(target[r])] # NoEntry
          => cache[CacheKeyForProfile(target[r])].result \in Copy
    BY <2>1 DEF Entry
  <2> QED
    BY <1>2, <2>2 DEF LookUp, storage
<1>3. ASSUME NEW r \in Requests, ServeCached(r)
      PROVE  TypeOK'
  BY <1>3 DEF ServeCached, storage
<1>4. ASSUME NEW r \in Requests, DropExpired(r)
      PROVE  TypeOK'
  BY <1>4 DEF DropExpired, NoCopy, Copy, storage
<1>5. ASSUME NEW r \in Requests, Select(r)
      PROVE  TypeOK'
  BY <1>5 DEF Select, Copy, storage
<1>6. ASSUME NEW r \in Requests, Stamp(r)
      PROVE  TypeOK'
  <2>1. copy' \in [Requests -> Copy]
    BY <1>6 DEF Stamp, Copy
  <2> QED
    BY <1>6, <2>1 DEF Stamp, storage
<1>7. ASSUME NEW r \in Requests, Store(r)
      PROVE  TypeOK'
  BY <1>7 DEF Store, Keys, Entry, storage
<1>8. ASSUME NEW r \in Requests, LogFileName(r)
      PROVE  TypeOK'
  BY <1>8 DEF LogFileName, storage
<1>9. ASSUME NEW r \in Requests, Statement(r)
      PROVE  TypeOK'
  <2>1. lock' \in [Ids -> Requests \union Writes \union {NoOne}]
    BY <1>9 DEF Statement
  <2>2. affected' \in [Requests -> {0, 1}] /\ pc' = [pc EXCEPT ![r] = "commit"]
    BY <1>9 DEF Statement
  <2> QED
    BY <1>9, <2>1, <2>2 DEF Statement
<1>10. ASSUME NEW r \in Requests, Commit(r)
       PROVE  TypeOK'
  <2>1. rows' \in [Ids -> Seq(Version)]
    <3>1. CASE affected[r] = 1
      BY <1>10, <3>1, WrittenType DEF Commit
    <3>2. CASE affected[r] # 1
      BY <1>10, <3>2 DEF Commit, storage
    <3> QED
      BY <3>1, <3>2
  <2>2. lock' \in [Ids -> Requests \union Writes \union {NoOne}]
    BY <1>10 DEF Commit, storage
  <2> QED
    BY <1>10, <2>1, <2>2 DEF Commit
<1>11. ASSUME NEW r \in Requests, Connect(r)
       PROVE  TypeOK'
  BY <1>11 DEF Connect, storage
<1>12. ASSUME NEW r \in Requests, Acknowledge(r)
       PROVE  TypeOK'
  BY <1>12, HolderTakesOne DEF Acknowledge, Holding, storage
<1>13. ASSUME NEW r \in Requests, Fail(r)
       PROVE  TypeOK'
  <2>1. lock' \in [Ids -> Requests \union Writes \union {NoOne}]
    <3>1. AfterLoss(r) \subseteq Writes \union {NoOne}
      BY DEF AfterLoss
    <3> QED
      BY <1>13, <3>1 DEF Fail
  <2> QED
    BY <1>13, <2>1, HolderTakesOne DEF Fail, Holding, NoCopy, Copy, storage
<1>14. ASSUME NEW id \in Ids, Register(id)
       PROVE  TypeOK'
  BY <1>14 DEF Register, Version, call
<1>15. CASE Tick
  BY <1>15 DEF Tick, storage, call
<1>16. CASE Restart
  <2>1. lock' \in [Ids -> Requests \union Writes \union {NoOne}]
    BY <1>16 DEF Restart
  <2> QED
    BY <1>16, <2>1 DEF Restart, NoCopy, Copy
<1>17. ASSUME NEW id \in Ids, EndLost(id)
       PROVE  TypeOK'
  <2>1. rows' \in [Ids -> Seq(Version)]
    BY <1>17, WrittenType DEF EndLost, LateCommit, LateRollback
  <2> QED
    BY <1>17, <2>1 DEF EndLost, LateCommit, LateRollback, call
<1>18. CASE UNCHANGED vars
  BY <1>18 DEF vars
<1> QED
  BY MethodsAssumption, <1>1, <1>2, <1>3, <1>4, <1>5, <1>6, <1>7, <1>8, <1>9, <1>10, <1>11, <1>12,
     <1>13, <1>14, <1>15, <1>16, <1>17, <1>18 DEF Next, Step

\* A call that is handed a connection adds one holder ...
LEMMA HoldersJoin ==
    ASSUME TypeOK, NEW r \in Requests, NEW s \in Holding, pc[r] \notin Holding,
           pc' = [pc EXCEPT ![r] = s]
    PROVE  Cardinality(Holders') = Cardinality(Holders) + 1
<1>1. Holders' = Holders \union {r}
  BY DEF Holders, TypeOK
<1>2. r \notin Holders
  BY DEF Holders
<1> QED
  BY <1>1, <1>2, HoldersFinite, FS_AddElement

\* ... one that releases its connection takes one away ...
LEMMA HoldersLeave ==
    ASSUME TypeOK, NEW r \in Requests, NEW s, s \notin Holding, pc[r] \in Holding,
           pc' = [pc EXCEPT ![r] = s]
    PROVE  Cardinality(Holders') = Cardinality(Holders) - 1
<1>1. Holders' = Holders \ {r}
  BY DEF Holders, TypeOK
<1>2. r \in Holders
  BY DEF Holders
<1> QED
  BY <1>1, <1>2, HoldersFinite, FS_RemoveElement

\* ... and any other step leaves them alone.
LEMMA HoldersStay ==
    ASSUME TypeOK, NEW r \in Requests, NEW s, pc[r] \in Holding <=> s \in Holding,
           pc' = [pc EXCEPT ![r] = s]
    PROVE  Holders' = Holders
BY DEF Holders, TypeOK

\* No step loses a connection or releases one twice.
LEMMA ConnectionsStep ==
    ASSUME TypeOK, ConnectionsAccounted, [Next]_vars
    PROVE  ConnectionsAccounted'
<1>0. SUFFICES free' + Cardinality(Holders') = PoolSize
  BY DEF ConnectionsAccounted, Holders
<1>a. free + Cardinality(Holders) = PoolSize
  BY DEF ConnectionsAccounted, Holders
<1>b. free \in Nat /\ PoolSize \in Nat /\ Cardinality(Holders) \in Nat
  BY HoldersFinite DEF TypeOK
<1>1. ASSUME NEW r \in Requests, NEW o \in Reads \union Writes, NEW id \in Ids,
             Call(r, o, id)
      PROVE  Holders' = Holders /\ free' = free
  BY <1>1, HoldersStay DEF Call, Settled, Holding, Reads, Writes
<1>2. ASSUME NEW r \in Requests, LookUp(r)
      PROVE  Holders' = Holders /\ free' = free
  BY <1>2, HoldersStay DEF LookUp, Holding
<1>3. ASSUME NEW r \in Requests, ServeCached(r)
      PROVE  Holders' = Holders /\ free' = free
  BY <1>3, HoldersStay DEF ServeCached, Holding
<1>4. ASSUME NEW r \in Requests, DropExpired(r)
      PROVE  Holders' = Holders /\ free' = free
  BY <1>4, HoldersStay DEF DropExpired, Holding
<1>5. ASSUME NEW r \in Requests, Select(r)
      PROVE  Holders' = Holders /\ free' = free
  BY <1>5, HoldersStay DEF Select, Holding
<1>6. ASSUME NEW r \in Requests, Stamp(r)
      PROVE  Holders' = Holders /\ free' = free
  BY <1>6, HoldersStay DEF Stamp, Holding
<1>7. ASSUME NEW r \in Requests, Store(r)
      PROVE  Holders' = Holders /\ free' = free
  BY <1>7, HoldersStay DEF Store, Holding
<1>8. ASSUME NEW r \in Requests, LogFileName(r)
      PROVE  Holders' = Holders /\ free' = free
  BY <1>8, HoldersStay DEF LogFileName, Holding
<1>9. ASSUME NEW r \in Requests, Statement(r)
      PROVE  Holders' = Holders /\ free' = free
  BY <1>9, HoldersStay DEF Statement, Holding
<1>10. ASSUME NEW r \in Requests, Commit(r)
       PROVE  Holders' = Holders /\ free' = free
  BY <1>10, HoldersStay DEF Commit, Holding
<1>11. ASSUME NEW r \in Requests, Connect(r)
       PROVE  free' + Cardinality(Holders') = PoolSize
  <2> DEFINE s == IF op[r] \in Reads THEN "select" ELSE "statement"
  <2>1. s \in Holding /\ pc[r] \notin Holding
    BY <1>11 DEF Connect, Holding
  <2>2. pc' = [pc EXCEPT ![r] = s] /\ free' = free - 1
    BY <1>11 DEF Connect
  <2>3. Cardinality(Holders') = Cardinality(Holders) + 1
    BY <2>1, <2>2, HoldersJoin
  <2> QED
    BY <1>a, <1>b, <2>2, <2>3
<1>12. ASSUME NEW r \in Requests, Acknowledge(r)
       PROVE  free' + Cardinality(Holders') = PoolSize
  <2>1. pc[r] \in Holding /\ "answered" \notin Holding
    BY <1>12 DEF Acknowledge, Holding
  <2>2. Cardinality(Holders') = Cardinality(Holders) - 1
    BY <1>12, <2>1, HoldersLeave DEF Acknowledge
  <2> QED
    BY <1>12, <1>a, <1>b, <2>2 DEF Acknowledge
<1>13. ASSUME NEW r \in Requests, Fail(r)
       PROVE  free' + Cardinality(Holders') = PoolSize
  <2>1. "failed" \notin Holding
    BY DEF Holding
  <2>2. CASE pc[r] \in Holding
    <3>1. Cardinality(Holders') = Cardinality(Holders) - 1
      BY <1>13, <2>1, <2>2, HoldersLeave DEF Fail
    <3> QED
      BY <1>13, <1>a, <1>b, <2>2, <3>1 DEF Fail
  <2>3. CASE pc[r] \notin Holding
    <3>1. Holders' = Holders
      BY <1>13, <2>1, <2>3, HoldersStay DEF Fail
    <3> QED
      BY <1>13, <1>a, <2>3, <3>1 DEF Fail
  <2> QED
    BY <2>2, <2>3
<1>14. ASSUME NEW id \in Ids, Register(id)
       PROVE  Holders' = Holders /\ free' = free
  BY <1>14 DEF Register, call, Holders
<1>15. CASE Tick
  BY <1>15, <1>a DEF Tick, call, Holders
<1>16. CASE Restart
  <2>1. Holders' = {}
    BY <1>16 DEF Restart, Holders, Holding
  <2> QED
    BY <1>16, <1>b, <2>1, FS_EmptySet DEF Restart
<1>17. ASSUME NEW id \in Ids, EndLost(id)
       PROVE  Holders' = Holders /\ free' = free
  BY <1>17 DEF EndLost, LateCommit, LateRollback, call, Holders
<1>18. CASE UNCHANGED vars
  BY <1>18, <1>a DEF vars, Holders
<1> QED
  BY MethodsAssumption, <1>a, <1>1, <1>2, <1>3, <1>4, <1>5, <1>6, <1>7, <1>8, <1>9, <1>10, <1>11,
     <1>12, <1>13, <1>14, <1>15, <1>16, <1>17, <1>18 DEF Next, Step

\* Initially the pool is full.
LEMMA ConnectionsInit ==
    ASSUME Init
    PROVE  TypeOK /\ ConnectionsAccounted
<1>1. TypeOK
  <2>1. <<[removed |-> FALSE, at |-> 0]>> \in Seq(Version) /\ <<>> \in Seq(Version)
    BY DEF Version
  <2>2. rows \in [Ids -> Seq(Version)]
    BY <2>1 DEF Init
  <2>3. copy \in [Requests -> Copy]
    BY DEF Init, Copy, NoCopy
  <2>4. cache \in [Keys -> Entry \union {NoEntry}]
    BY DEF Init
  <2> QED
    BY <2>2, <2>3, <2>4 DEF Init, TypeOK, Settled, Reads, Writes
<1>2. Holders = {}
  BY DEF Init, Holders, Holding
<1>3. Cardinality(Holders) = 0 /\ free = PoolSize
  BY <1>2, FS_EmptySet DEF Init
<1>4. ConnectionsAccounted
  BY <1>3 DEF ConnectionsAccounted, Holders
<1> QED
  BY <1>1, <1>4

\* Every variable keeps its type: in particular the pool never hands over a
\* connection it has not got and never takes back one too many.
THEOREM TypeCorrect == Spec => []TypeOK
<1>1. Init => TypeOK /\ ConnectionsAccounted
  BY ConnectionsInit
<1>2. TypeOK /\ ConnectionsAccounted /\ [Next]_vars
        => TypeOK' /\ ConnectionsAccounted'
  BY TypeStep, ConnectionsStep
<1> QED
  BY <1>1, <1>2, PTL DEF Spec

\* Every connection of the pool is idle or held by exactly one call, whatever
\* fails on the way (mergeTransaction, sqlFindOne).
THEOREM ConnectionsNeverLost == Spec => []ConnectionsAccounted
<1>1. Init => TypeOK /\ ConnectionsAccounted
  BY ConnectionsInit
<1>2. TypeOK /\ ConnectionsAccounted /\ [Next]_vars
        => TypeOK' /\ ConnectionsAccounted'
  BY TypeStep, ConnectionsStep
<1> QED
  BY <1>1, <1>2, PTL DEF Spec

(***************************************************************************)
(* Query results.                                                          *)
(***************************************************************************)

Grows(id) ==
    \/ rows'[id] = rows[id]
    \/ /\ Len(rows'[id]) = Len(rows[id]) + 1
       /\ \A n \in 1..Len(rows[id]) : rows'[id][n] = rows[id][n]
       /\ rows'[id][Len(rows[id]) + 1].at = clock

\* Rows only ever gain versions, dated now, and the clock is never set back.
LEMMA History ==
    ASSUME TypeOK, [Next]_vars
    PROVE  /\ clock <= clock'
           /\ \A id \in Ids : Grows(id)
<1> DEFINE Goal == clock <= clock' /\ \A i \in Ids : Grows(i)
<1>0. clock \in Nat
  BY DEF TypeOK
<1>a. ASSUME clock' = clock, rows' = rows
      PROVE  Goal
  BY <1>0, <1>a DEF Grows
<1>b. ASSUME clock' = clock, \A i \in Ids : Grows(i)
      PROVE  Goal
  BY <1>0, <1>b
<1> SUFFICES Goal
  OBVIOUS
<1> HIDE DEF Goal
<1>1. ASSUME NEW r \in Requests, NEW o \in Reads \union Writes, NEW id \in Ids,
             Call(r, o, id)
      PROVE  Goal
  BY <1>1, <1>a DEF Call, storage
<1>2. ASSUME NEW r \in Requests, Step(r), ~Commit(r)
      PROVE  Goal
  BY <1>2, <1>a DEF Step, LookUp, ServeCached, DropExpired, Select, Stamp, Store,
              LogFileName, Statement, Connect, Acknowledge, storage
<1>w. ASSUME NEW id \in Ids, NEW o, rows' = Written(id, o), clock' = clock
      PROVE  Goal
  <2> DEFINE v == NewVersion(id, o)
  <2>1. v \in Version /\ v.at = clock
    BY WrittenType
  <2>2. ASSUME NEW i \in Ids, rows'[i] = Append(rows[i], v)
        PROVE  Grows(i)
    <3>1. rows[i] \in Seq(Version)
      BY DEF TypeOK
    <3> HIDE DEF v
    <3> QED
      BY <2>1, <2>2, <3>1 DEF Grows
  <2>3. \A i \in Ids : rows'[i] = rows[i] \/ rows'[i] = Append(rows[i], v)
    BY <1>w DEF TypeOK, Written
  <2> QED
    BY <1>w, <1>b, <2>2, <2>3 DEF Grows
<1>3. ASSUME NEW r \in Requests, Commit(r)
      PROVE  Goal
  BY <1>3, <1>a, <1>w DEF Commit, storage, TypeOK
<1>4. ASSUME NEW r \in Requests, Fail(r)
      PROVE  Goal
  BY <1>4, <1>a DEF Fail
<1>5. ASSUME NEW id \in Ids, Register(id)
      PROVE  Goal
  <2> DEFINE v == [removed |-> FALSE, at |-> clock]
  <2>1. v \in Version /\ v.at = clock
    BY <1>0 DEF Version
  <2>2. rows[id] = <<>> /\ rows' = [rows EXCEPT ![id] = <<v>>] /\ clock' = clock
    BY <1>5 DEF Register, Exists
  <2>3. \A i \in Ids : Grows(i)
    BY <2>1, <2>2 DEF Grows, TypeOK
  <2> QED
    BY <1>b, <2>2, <2>3
<1>6. CASE Tick
  BY <1>0, <1>6 DEF Tick, storage, Grows, Goal
<1>7. CASE Restart
  BY <1>7, <1>a DEF Restart
<1>8. ASSUME NEW id \in Ids, EndLost(id)
      PROVE  Goal
  BY <1>8, <1>a, <1>w DEF EndLost, LateCommit, LateRollback
<1>9. CASE UNCHANGED vars
  BY <1>9, <1>a DEF vars
<1> QED
  BY MethodsAssumption, <1>1, <1>2, <1>3, <1>4, <1>5, <1>6, <1>7, <1>8, <1>9 DEF Next

\* What was faithful stays so while its row gains versions.
LEMMA FaithfulKept ==
    ASSUME TypeOK, clock' \in Nat, clock <= clock', NEW id \in Ids, Grows(id),
           NEW c \in Copy, Faithful(c, id)
    PROVE  Faithful(c, id)'
<1> USE DEF TypeOK, Copy, Faithful, Superseded, SupersededAt
<1>1. CASE rows'[id] = rows[id]
  BY <1>1
<1>2. CASE /\ Len(rows'[id]) = Len(rows[id]) + 1
           /\ \A n \in 1..Len(rows[id]) : rows'[id][n] = rows[id][n]
           /\ rows'[id][Len(rows[id]) + 1].at = clock
  <2>1. Len(rows[id]) \in Nat
    OBVIOUS
  <2>2. CASE c.version = Len(rows[id])
    BY <1>2, <2>1, <2>2
  <2>3. CASE c.version < Len(rows[id])
    <3>1. c.version \in Nat /\ c.owner = id
      OBVIOUS
    <3>2. c.version + 1 \in 1..Len(rows[id])
      BY <2>1, <2>3, <3>1
    <3>3. rows'[id][c.version + 1] = rows[id][c.version + 1]
      BY <1>2, <3>2
    <3>4. c.readAt <= rows[id][c.version + 1].at
      BY <2>3, <3>1
    <3> QED
      BY <1>2, <2>1, <2>3, <3>1, <3>3, <3>4
  <2> QED
    BY <2>1, <2>2, <2>3
<1> QED
  BY <1>1, <1>2 DEF Grows

\* Where the result in the hands of call q can come from in one step.
Cached(id) == cache[CacheKeyForProfile(id)]

ResultOfStep(q) ==
    \/ copy'[q] = copy[q] /\ target'[q] = target[q]
    \/ copy'[q] = NoCopy(target'[q])
    \/ /\ target'[q] = target[q]
       /\ Cached(target[q]) # NoEntry
       /\ copy'[q] = Cached(target[q]).result
    \/ /\ target'[q] = target[q] /\ rows' = rows /\ clock' = clock
       /\ copy'[q] = [owner |-> target[q], version |-> Len(rows[target[q]]),
                      readAt |-> clock, time |-> clock]
    \/ /\ target'[q] = target[q] /\ rows' = rows /\ clock' = clock
       /\ copy'[q] = [copy[q] EXCEPT !.time = clock]

LEMMA ResultSources ==
    ASSUME TypeOK, [Next]_vars, NEW q \in Requests
    PROVE  ResultOfStep(q)
<1> USE DEF TypeOK, ResultOfStep
<1>1. ASSUME NEW r \in Requests, NEW o \in Reads \union Writes, NEW id \in Ids,
             Call(r, o, id)
      PROVE  ResultOfStep(q)
  BY <1>1 DEF Call
<1>2. ASSUME NEW r \in Requests, LookUp(r)
      PROVE  ResultOfStep(q)
  BY <1>2 DEF LookUp, Cached
<1>3. ASSUME NEW r \in Requests, DropExpired(r)
      PROVE  ResultOfStep(q)
  BY <1>3 DEF DropExpired
<1>4. ASSUME NEW r \in Requests, Select(r)
      PROVE  ResultOfStep(q)
  BY <1>4 DEF Select, storage
<1>5. ASSUME NEW r \in Requests, Stamp(r)
      PROVE  ResultOfStep(q)
  BY <1>5 DEF Stamp, storage
<1>6. ASSUME NEW r \in Requests,
             \/ ServeCached(r) \/ Store(r) \/ LogFileName(r) \/ Statement(r)
             \/ Commit(r) \/ Connect(r) \/ Acknowledge(r)
      PROVE  ResultOfStep(q)
  BY <1>6 DEF ServeCached, Store, LogFileName, Statement, Commit, Connect, Acknowledge
<1>7. ASSUME NEW r \in Requests, Fail(r)
      PROVE  ResultOfStep(q)
  BY <1>7 DEF Fail
<1>8. ASSUME NEW id \in Ids, Register(id)
      PROVE  ResultOfStep(q)
  BY <1>8 DEF Register, call
<1>9. CASE Tick
  BY <1>9 DEF Tick, call
<1>10. CASE Restart
  BY <1>10 DEF Restart
<1>11. ASSUME NEW id \in Ids, EndLost(id)
       PROVE  ResultOfStep(q)
  BY <1>11 DEF EndLost, LateCommit, LateRollback, call
<1>12. CASE UNCHANGED vars
  BY <1>12 DEF vars
<1> QED
  BY MethodsAssumption, <1>1, <1>2, <1>3, <1>4, <1>5, <1>6, <1>7, <1>8, <1>9, <1>10, <1>11, <1>12
     DEF Next, Step

\* What Redis keeps under the key of user id comes from a call that asked for id.
LEMMA CacheSources ==
    ASSUME TypeOK, [Next]_vars, NEW id \in Ids
    PROVE  \/ Cached(id)' = Cached(id)
           \/ Cached(id)' = NoEntry
           \/ \E r \in Requests : target[r] = id /\ Cached(id)'.result = copy[r]
<1> DEFINE Goal == \/ Cached(id)' = Cached(id)
                   \/ Cached(id)' = NoEntry
                   \/ \E r \in Requests : target[r] = id /\ Cached(id)'.result = copy[r]
<1>0. CacheKeyForProfile(id) \in Keys
  BY DEF Keys
<1>1. ASSUME NEW r \in Requests, Store(r)
      PROVE  Goal
  <2>1. CASE target[r] = id
    BY <1>0, <1>1, <2>1 DEF Store, Cached, TypeOK
  <2>2. CASE target[r] # id
    <3>1. CacheKeyForProfile(target[r]) # CacheKeyForProfile(id)
      BY <2>2 DEF CacheKeyForProfile
    <3> QED
      BY <1>0, <1>1, <3>1 DEF Store, Cached, TypeOK
  <2> QED
    BY <2>1, <2>2
<1>2. CASE Tick
  BY <1>0, <1>2 DEF Tick, Cached
<1>3. CASE UNCHANGED cache
  BY <1>3 DEF Cached
<1>4. \/ \E r \in Requests : Store(r)
      \/ Tick
      \/ UNCHANGED cache
  BY DEF Next, vars, Step, Call, LookUp, ServeCached, DropExpired, Select, Stamp,
         LogFileName, Statement, Commit, Connect, Acknowledge, Fail, Register, Restart, EndLost,
         LateCommit, LateRollback
<1> QED
  BY <1>1, <1>2, <1>3, <1>4

\* Looking up, reading, stamping and storing keep every result faithful.
LEMMA FaithfulStep ==
    ASSUME TypeOK, TypeOK', ResultsFaithful, [Next]_vars
    PROVE  ResultsFaithful'
<1>1. clock \in Nat /\ clock' \in Nat /\ clock <= clock' /\ \A id \in Ids : Grows(id)
  BY History DEF TypeOK
<1>2. \A id \in Ids : Cached(id) # NoEntry
                        => Cached(id).result \in Copy /\ Faithful(Cached(id).result, id)
  <2> SUFFICES ASSUME NEW id \in Ids, Cached(id) # NoEntry
               PROVE  Cached(id).result \in Copy /\ Faithful(Cached(id).result, id)
    OBVIOUS
  <2>1. CacheKeyForProfile(id) \in Keys
    BY DEF Keys
  <2>2. Cached(id).result \in Copy
    BY <2>1 DEF TypeOK, Cached, Entry
  <2> QED
    BY <2>2 DEF ResultsFaithful, Cached
<1>3. \A r \in Requests : copy[r] \in Copy /\ target[r] \in Ids
                            /\ Faithful(copy[r], target[r])
  BY DEF ResultsFaithful, TypeOK
<1>4. ASSUME NEW q \in Requests
      PROVE  Faithful(copy[q], target[q])'
  <2>0. ResultOfStep(q) /\ target'[q] \in Ids
    BY ResultSources DEF TypeOK
  <2>1. CASE copy'[q] = copy[q] /\ target'[q] = target[q]
    <3>1. Faithful(copy[q], target[q])
      BY <1>3
    <3> QED
      BY <1>1, <1>3, <2>1, FaithfulKept DEF Faithful, Superseded, SupersededAt
  <2>2. CASE copy'[q] = NoCopy(target'[q])
    <3> DEFINE row == rows'[target'[q]]
    <3>1. row \in Seq(Version)
      BY <2>0 DEF TypeOK
    <3>2. Len(row) \in Nat /\ (0 < Len(row) => 0 <= row[1].at)
      <4> HIDE DEF row
      <4>1. Len(row) \in Nat /\ (0 < Len(row) => row[1] \in Version)
        BY <3>1
      <4> QED
        BY <4>1 DEF Version
    <3> QED
      BY <1>1, <2>2, <3>2 DEF Faithful, Superseded, SupersededAt, NoCopy
  <2>3. CASE /\ target'[q] = target[q]
             /\ Cached(target[q]) # NoEntry
             /\ copy'[q] = Cached(target[q]).result
    BY <1>1, <1>2, <1>3, <2>3, FaithfulKept DEF Faithful, Superseded, SupersededAt
  <2>4. CASE /\ target'[q] = target[q] /\ rows' = rows /\ clock' = clock
             /\ copy'[q] = [owner |-> target[q], version |-> Len(rows[target[q]]),
                            readAt |-> clock, time |-> clock]
    BY <1>1, <1>3, <2>4 DEF Faithful, Superseded, TypeOK
  <2>5. CASE /\ target'[q] = target[q] /\ rows' = rows /\ clock' = clock
             /\ copy'[q] = [copy[q] EXCEPT !.time = clock]
    BY <1>1, <1>3, <2>5 DEF Faithful, Superseded, SupersededAt, Copy
  <2> QED
    BY <2>0, <2>1, <2>2, <2>3, <2>4, <2>5 DEF ResultOfStep
<1>5. ASSUME NEW id \in Ids, Cached(id)' # NoEntry
      PROVE  Faithful(Cached(id).result, id)'
  <2>1. CASE Cached(id)' = Cached(id)
    BY <1>1, <1>2, <1>5, <2>1, FaithfulKept DEF Faithful, Superseded, SupersededAt
  <2>2. CASE \E r \in Requests : target[r] = id /\ Cached(id)'.result = copy[r]
    BY <1>1, <1>3, <2>2, FaithfulKept DEF Faithful, Superseded, SupersededAt
  <2> QED
    BY <1>5, <2>1, <2>2, CacheSources
<1> QED
  BY <1>4, <1>5 DEF ResultsFaithful, Cached

\* Initially there is no result at all.
LEMMA FaithfulInit ==
    ASSUME Init
    PROVE  ResultsFaithful
<1>1. TypeOK
  BY ConnectionsInit
<1>2. ASSUME NEW r \in Requests
      PROVE  Faithful(copy[r], target[r])
  <2>1. target[r] \in Ids /\ copy[r] = NoCopy(target[r]) /\ clock = 0
    BY DEF Init
  <2>2. Len(rows[target[r]]) \in Nat
    BY <1>1, <2>1 DEF TypeOK
  <2>3. 0 < Len(rows[target[r]]) => rows[target[r]][1].at = 0
    BY <2>1 DEF Init
  <2> QED
    BY <2>1, <2>2, <2>3 DEF Faithful, Superseded, SupersededAt, NoCopy
<1>3. ASSUME NEW id \in Ids
      PROVE  Cached(id) = NoEntry
  BY DEF Init, Cached, Keys
<1> QED
  BY <1>2, <1>3 DEF ResultsFaithful, Cached

IInv == TypeOK /\ ConnectionsAccounted /\ ResultsFaithful

LEMMA Inductive ==
    /\ Init => IInv
    /\ IInv /\ [Next]_vars => IInv'
BY ConnectionsInit, FaithfulInit, TypeStep, ConnectionsStep, FaithfulStep DEF IInv

\* However late a result is stamped, stored and looked up, it is of the user it
\* is kept for, and of a version that was current when its SELECT ran.
THEOREM AllResultsFaithful == Spec => []ResultsFaithful
<1>1. IInv => ResultsFaithful
  BY DEF IInv
<1> QED
  BY Inductive, <1>1, PTL DEF Spec

\* getProfile never answers with another user's row, cached or not.
THEOREM OwnProfileAnswered == Spec => []AnswersOwnProfile
<1>1. IInv => AnswersOwnProfile
  BY DEF IInv, ResultsFaithful, Faithful, AnswersOwnProfile
<1> QED
  BY Inductive, <1>1, PTL DEF Spec

\* A profile served from the cache was superseded at most the cache time, plus
\* the time its SELECT took to come back, before it is served.
THEOREM StalenessBounded == Spec => BoundedStaleness
<1>1. ASSUME IInv, NEW r \in Requests, ServeCached(r), Superseded(copy[r])
      PROVE  clock <= SupersededAt(copy[r]) + Ttl + (copy[r].time - copy[r].readAt)
  <2>1. clock \in Nat /\ copy[r] \in Copy /\ target[r] \in Ids
    BY <1>1 DEF IInv, TypeOK
  <2>2. clock <= copy[r].time + Ttl
    BY <1>1, <2>1 DEF ServeCached, IsExpired, Copy
  <2>3. copy[r].readAt <= SupersededAt(copy[r])
    BY <1>1 DEF IInv, ResultsFaithful, Faithful
  <2>4. SupersededAt(copy[r]) \in Nat
    <3>1. copy[r].owner \in Ids /\ copy[r].version + 1 \in 1..Len(rows[copy[r].owner])
      BY <1>1, <2>1 DEF IInv, TypeOK, Superseded, Copy
    <3>2. rows[copy[r].owner] \in Seq(Version)
      BY <1>1, <3>1 DEF IInv, TypeOK
    <3>3. rows[copy[r].owner][copy[r].version + 1] \in Version
      BY <3>1, <3>2
    <3> QED
      BY <3>3 DEF SupersededAt, Version
  <2> QED
    BY <2>1, <2>2, <2>3, <2>4 DEF Copy
<1>2. IInv /\ [Next]_vars =>
        [\A r \in Requests :
            ServeCached(r) /\ Superseded(copy[r]) =>
                clock <= SupersededAt(copy[r]) + Ttl + (copy[r].time - copy[r].readAt)]_vars
  BY <1>1
<1> QED
  BY Inductive, <1>2, PTL DEF Spec, BoundedStaleness
=============================================================================
