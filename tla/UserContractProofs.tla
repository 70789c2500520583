-------------------------- MODULE UserContractProofs --------------------------
(***************************************************************************)
(* UserService implements UserContract, for any number of users, calls and *)
(* connections: every step maps to a step of the contract or to none.      *)
(***************************************************************************)
EXTENDS UserServiceProofs

(***************************************************************************)
(* The mapped variables, under names of their own.                         *)
(***************************************************************************)

RemovedOf(versions) == [n \in 1..Len(versions) |-> versions[n].removed]

history == [id \in Ids |-> RemovedOf(rows[id])]
stage   == [r \in Requests |-> Stage(r)]
answer  == [r \in Requests |-> Answer(r)]
late    == [id \in Ids |-> {lock[id]} \intersect Writes]

\* What call q shows of itself.
Same(q) == /\ pc'[q] = pc[q] /\ op'[q] = op[q] /\ copy'[q] = copy[q]
           /\ affected'[q] = affected[q]

\* A step of one call changes the stage and the answer of that call only.
LEMMA OneCall ==
    ASSUME NEW r \in Requests, \A q \in Requests \ {r} : Same(q)
    PROVE  /\ stage' = [stage EXCEPT ![r] = Stage(r)']
           /\ answer' = [answer EXCEPT ![r] = Answer(r)']
<1>1. ASSUME NEW q \in Requests \ {r}
      PROVE  Stage(q)' = Stage(q) /\ Answer(q)' = Answer(q)
  BY <1>1 DEF Same, Stage, Answer
<1>2. stage' = [q \in Requests |-> Stage(q)'] /\ answer' = [q \in Requests |-> Answer(q)']
  BY DEF stage, answer
<1> QED
  BY <1>1, <1>2 DEF stage, answer

\* One that does not show leaves the mapped variables alone.
LEMMA Unseen ==
    ASSUME NEW r \in Requests, \A q \in Requests \ {r} : Same(q),
           Stage(r)' = Stage(r), Answer(r)' = Answer(r),
           rows' = rows, UNCHANGED <<op, target>>, late' = late
    PROVE  UNCHANGED Contract!contractVars
<1>1. stage' = stage /\ answer' = answer
  BY OneCall DEF stage, answer
<1>2. history' = history
  BY DEF history, RemovedOf
<1> QED
  BY <1>1, <1>2 DEF Contract!contractVars, stage, answer, history, late, RemovedOf

\* Mapped histories grow with their rows.
LEMMA Appended ==
    ASSUME NEW s \in Seq(Version), NEW v \in Version
    PROVE  /\ RemovedOf(s) \in Seq(BOOLEAN)
           /\ Len(RemovedOf(s)) = Len(s)
           /\ RemovedOf(Append(s, v)) = Append(RemovedOf(s), v.removed)
           /\ (RemovedOf(s) # <<>>) = (s # <<>>)
           /\ s # <<>> => RemovedOf(s)[Len(s)] = s[Len(s)].removed
<1>1. Len(s) \in Nat /\ \A n \in 1..Len(s) : s[n] \in Version
  OBVIOUS
<1>2. \A n \in 1..Len(s) : s[n].removed \in BOOLEAN
  BY <1>1 DEF Version
<1>3. RemovedOf(s) \in Seq(BOOLEAN) /\ Len(RemovedOf(s)) = Len(s)
  BY <1>1, <1>2 DEF RemovedOf
<1>4. RemovedOf(Append(s, v)) = Append(RemovedOf(s), v.removed)
  <2> DEFINE t == Append(s, v)
             u == Append(RemovedOf(s), v.removed)
  <2>1. Len(t) = Len(s) + 1 /\ t[Len(s) + 1] = v /\ \A n \in 1..Len(s) : t[n] = s[n]
    BY <1>1
  <2>2. v.removed \in BOOLEAN
    BY DEF Version
  <2>3. /\ u = [n \in 1..(Len(s) + 1) |->
                  IF n = Len(s) + 1 THEN v.removed ELSE RemovedOf(s)[n]]
    <3> HIDE DEF RemovedOf
    <3> QED
      BY <1>3, <2>2
  <2> HIDE DEF t, u
  <2>4. RemovedOf(t) = [n \in 1..(Len(s) + 1) |-> t[n].removed]
    BY <2>1 DEF RemovedOf
  <2>5. \A n \in 1..(Len(s) + 1) :
            t[n].removed = IF n = Len(s) + 1 THEN v.removed ELSE RemovedOf(s)[n]
    BY <1>1, <2>1 DEF RemovedOf
  <2>6. RemovedOf(t) = u
    BY <2>3, <2>4, <2>5
  <2> QED
    BY <2>6 DEF t, u
<1>5. (RemovedOf(s) # <<>>) = (s # <<>>)
  BY <1>1, <1>3
<1>6. s # <<>> => RemovedOf(s)[Len(s)] = s[Len(s)].removed
  BY <1>1 DEF RemovedOf
<1> QED
  BY <1>3, <1>4, <1>5, <1>6

LEMMA Single ==
    ASSUME NEW v \in Version
    PROVE  RemovedOf(<<>>) = <<>> /\ RemovedOf(<<v>>) = <<v.removed>>
<1>1. <<>> \in Seq(Version) /\ <<v>> = Append(<<>>, v) /\ Len(<<>>) = 0
  OBVIOUS
<1>2. RemovedOf(<<>>) = <<>>
  BY <1>1, Appended
<1>3. RemovedOf(<<v>>) = Append(<<>>, v.removed)
  BY <1>1, <1>2, Appended
<1> QED
  BY <1>2, <1>3

(***************************************************************************)
(* What the mapping needs to know of a call in progress.                   *)
(***************************************************************************)

\* A call is where its method leads it; a row it has changed is there, and only a
\* write has changed one.
Shaped(r) ==
    /\ pc[r] \in {"lookup", "check", "select", "stamp", "store"} => op[r] \in Reads
    /\ pc[r] \in {"file", "statement", "commit"} => op[r] \in Writes
    /\ affected[r] = 1 =>
        op[r] \in Writes /\ pc[r] \in {"commit", "ack", "answered"} /\ Exists(target[r])

\* A locked row is there; the call that has locked it is about to commit.
Guarded(id) ==
    /\ lock[id] \in Writes => Exists(id)
    /\ lock[id] \in Requests =>
        pc[lock[id]] = "commit" /\ affected[lock[id]] = 1 /\ target[lock[id]] = id

\* A call that has changed a row keeps it locked until it commits.
Locks(r) == pc[r] = "commit" /\ affected[r] = 1 => lock[target[r]] = r

CInv == /\ IInv
        /\ \A r \in Requests : Shaped(r) /\ Locks(r)
        /\ \A id \in Ids : Guarded(id)

LEMMA InitCInv == Init => CInv
<1> SUFFICES ASSUME Init
             PROVE  CInv
  OBVIOUS
<1>1. IInv
  BY Inductive
<1>2. \A r \in Requests : Shaped(r) /\ Locks(r)
  BY DEF Init, Shaped, Locks
<1>3. \A id \in Ids : Guarded(id)
  BY LocksAssumption DEF Init, Guarded
<1> QED
  BY <1>1, <1>2, <1>3 DEF CInv

\* A row that is there stays there.
LEMMA ExistsStays ==
    ASSUME TypeOK, TypeOK', [Next]_vars, NEW id \in Ids, Exists(id)
    PROVE  rows'[id] # <<>>
<1>1. Grows(id)
  BY History
<1>2. rows[id] \in Seq(Version) /\ rows'[id] \in Seq(Version)
  BY DEF TypeOK
<1>3. Len(rows[id]) > 0
  BY <1>2 DEF Exists
<1>4. CASE rows'[id] = rows[id]
  BY <1>4 DEF Exists
<1>5. CASE Len(rows'[id]) = Len(rows[id]) + 1
  BY <1>2, <1>3, <1>5
<1> QED
  BY <1>1, <1>4, <1>5 DEF Grows

LEMMA StepShaped ==
    ASSUME CInv, [Next]_vars, NEW q \in Requests
    PROVE  Shaped(q)'
<1>1. TypeOK /\ TypeOK'
  BY Inductive DEF CInv, IInv
<1>2. Shaped(q)
  BY DEF CInv
<1>3. \A id \in Ids : rows[id] # <<>> => rows'[id] # <<>>
  BY <1>1, ExistsStays DEF Exists
<1> USE <1>1, <1>2, <1>3 DEF TypeOK, Settled, Reads, Writes, Shaped, Exists
<1>4. ASSUME NEW r \in Requests, NEW o \in Reads \union Writes, NEW id \in Ids,
             Call(r, o, id)
      PROVE  Shaped(q)'
  BY <1>4 DEF Call
<1>5. ASSUME NEW r \in Requests, LookUp(r)
      PROVE  Shaped(q)'
  BY <1>5 DEF LookUp
<1>6. ASSUME NEW r \in Requests, ServeCached(r)
      PROVE  Shaped(q)'
  BY <1>6 DEF ServeCached
<1>7. ASSUME NEW r \in Requests, DropExpired(r)
      PROVE  Shaped(q)'
  BY <1>7 DEF DropExpired
<1>8. ASSUME NEW r \in Requests, Select(r) \/ Stamp(r) \/ Store(r)
      PROVE  Shaped(q)'
  BY <1>8 DEF Select, Stamp, Store
<1>9. ASSUME NEW r \in Requests, LogFileName(r)
      PROVE  Shaped(q)'
  BY <1>9 DEF LogFileName
<1>10. ASSUME NEW r \in Requests, Statement(r)
       PROVE  Shaped(q)'
  BY <1>10 DEF Statement
<1>11. ASSUME NEW r \in Requests, Commit(r)
       PROVE  Shaped(q)'
  BY <1>11 DEF Commit
<1>12. ASSUME NEW r \in Requests, Connect(r)
       PROVE  Shaped(q)'
  BY <1>12 DEF Connect
<1>13. ASSUME NEW r \in Requests, Acknowledge(r)
       PROVE  Shaped(q)'
  BY <1>13 DEF Acknowledge
<1>14. ASSUME NEW r \in Requests, Fail(r)
       PROVE  Shaped(q)'
  BY <1>14 DEF Fail
<1>15. ASSUME NEW id \in Ids, Register(id)
       PROVE  Shaped(q)'
  BY <1>15 DEF Register, call
<1>16. CASE Tick
  BY <1>16 DEF Tick, storage, call
<1>17. CASE Restart
  BY <1>17 DEF Restart
<1>18. ASSUME NEW id \in Ids, EndLost(id)
       PROVE  Shaped(q)'
  BY <1>18 DEF EndLost, LateCommit, LateRollback, call
<1>19. CASE UNCHANGED vars
  BY <1>19 DEF vars
<1> QED
  BY MethodsAssumption, <1>4, <1>5, <1>6, <1>7, <1>8, <1>9, <1>10, <1>11, <1>12, <1>13,
     <1>14, <1>15, <1>16, <1>17, <1>18, <1>19 DEF Next, Step

\* A row is locked by one call, from its statement to its commit.
LEMMA StepLocks ==
    ASSUME CInv, [Next]_vars
    PROVE  /\ \A q \in Requests : Locks(q)'
           /\ \A id \in Ids : Guarded(id)'
<1>1. /\ TypeOK /\ TypeOK'
      /\ \A q \in Requests : Shaped(q) /\ Locks(q)
      /\ \A id \in Ids : Guarded(id)
  BY Inductive DEF CInv, IInv
<1>2. \A id \in Ids : Exists(id) => Exists(id)'
  BY <1>1, ExistsStays DEF Exists
<1> DEFINE Goal == /\ \A q \in Requests : Locks(q)'
                   /\ \A id \in Ids : Guarded(id)'
<1> SUFFICES Goal
  OBVIOUS
<1> HIDE DEF Goal
<1>a. ASSUME NEW r \in Requests, lock' = lock, pc[r] # "commit", pc'[r] # "commit",
             \A q \in Requests \ {r} : /\ pc'[q] = pc[q] /\ affected'[q] = affected[q]
                                        /\ target'[q] = target[q]
      PROVE  Goal
  BY <1>a, <1>1, <1>2 DEF Goal, Locks, Guarded, TypeOK
<1>b. ASSUME lock' = lock, UNCHANGED <<pc, affected, target>>
      PROVE  Goal
  BY <1>b, <1>1, <1>2 DEF Goal, Locks, Guarded
<1>c. ASSUME NEW id \in Ids, lock[id] \in Writes, lock' = [lock EXCEPT ![id] = NoOne],
             UNCHANGED <<pc, affected, target>>
      PROVE  Goal
  BY <1>c, <1>1, <1>2, LocksAssumption DEF Goal, Locks, Guarded, TypeOK
<1>3. ASSUME NEW r \in Requests, NEW o \in Methods, NEW id \in Ids, Call(r, o, id)
      PROVE  Goal
  BY <1>3, <1>1, <1>a, MethodsAssumption
  DEF Call, TypeOK, Settled, Reads, Writes, storage
<1>4. ASSUME NEW r \in Requests,
             \/ LookUp(r) \/ ServeCached(r) \/ DropExpired(r) \/ Select(r) \/ Stamp(r)
             \/ Store(r) \/ LogFileName(r) \/ Connect(r) \/ Acknowledge(r)
      PROVE  Goal
  BY <1>4, <1>1, <1>a DEF TypeOK, storage, LookUp, ServeCached, DropExpired, Select,
     Stamp, Store, LogFileName, Connect, Acknowledge
<1>5. ASSUME NEW r \in Requests, Statement(r)
      PROVE  Goal
  <2>1. /\ pc' = [pc EXCEPT ![r] = "commit"] /\ pc[r] = "statement"
        /\ UNCHANGED <<rows, target>>
    BY <1>5 DEF Statement
  <2>2. CASE Exists(target[r])
    <3>1. /\ lock[target[r]] = NoOne /\ lock' = [lock EXCEPT ![target[r]] = r]
          /\ affected' = [affected EXCEPT ![r] = 1]
      BY <1>5, <2>2 DEF Statement
    <3>2. ASSUME NEW q \in Requests
          PROVE  Locks(q)'
      BY <1>1, <2>1, <3>1, LocksAssumption DEF Locks, TypeOK
    <3>3. ASSUME NEW id \in Ids
          PROVE  Guarded(id)'
      <4>1. CASE id = target[r]
        BY <1>1, <2>1, <3>1, <4>1, LocksAssumption DEF Guarded, TypeOK
      <4>2. CASE id # target[r]
        BY <1>1, <1>2, <2>1, <3>1, <4>2 DEF Guarded, TypeOK
      <4> QED
        BY <4>1, <4>2
    <3> QED
      BY <3>2, <3>3 DEF Goal
  <2>3. CASE ~Exists(target[r])
    <3>1. UNCHANGED <<lock, affected>> /\ affected[r] # 1
      BY <1>1, <1>5, <2>3 DEF Statement, Shaped
    <3> QED
      BY <1>1, <1>2, <2>1, <3>1 DEF Goal, Locks, Guarded, TypeOK
  <2> QED
    BY <2>2, <2>3
<1>6. ASSUME NEW r \in Requests, Commit(r)
      PROVE  Goal
  <2>1. /\ pc' = [pc EXCEPT ![r] = "ack"] /\ pc[r] = "commit"
        /\ UNCHANGED <<affected, target>>
    BY <1>6 DEF Commit
  <2>2. CASE affected[r] = 1
    <3>1. lock[target[r]] = r /\ lock' = [lock EXCEPT ![target[r]] = NoOne]
      BY <1>1, <1>6, <2>1, <2>2 DEF Commit, Locks
    <3>2. ASSUME NEW q \in Requests
          PROVE  Locks(q)'
      BY <1>1, <2>1, <3>1 DEF Locks, TypeOK
    <3>3. ASSUME NEW id \in Ids
          PROVE  Guarded(id)'
      <4>1. CASE id = target[r]
        BY <1>1, <3>1, <4>1, LocksAssumption DEF Guarded, TypeOK
      <4>2. CASE id # target[r]
        BY <1>1, <1>2, <2>1, <3>1, <4>2 DEF Guarded, TypeOK
      <4> QED
        BY <4>1, <4>2
    <3> QED
      BY <3>2, <3>3 DEF Goal
  <2>3. CASE affected[r] # 1
    <3>1. UNCHANGED lock
      BY <1>6, <2>3 DEF Commit, storage
    <3> QED
      BY <1>1, <1>2, <2>1, <2>3, <3>1 DEF Goal, Locks, Guarded, TypeOK
  <2> QED
    BY <2>2, <2>3
<1>7. ASSUME NEW r \in Requests, Fail(r)
      PROVE  Goal
  <2>1. PICK left \in AfterLoss(r) :
                  lock' = [id \in Ids |-> IF lock[id] = r THEN left ELSE lock[id]]
    BY <1>7 DEF Fail
  <2>2. left \in Writes \union {NoOne} /\ left \notin Requests
    BY <2>1, LocksAssumption DEF AfterLoss
  <2>3. /\ pc' = [pc EXCEPT ![r] = "failed"]
        /\ affected' = [affected EXCEPT ![r] = 0]
        /\ UNCHANGED <<rows, target>>
    BY <1>7 DEF Fail
  <2>4. ASSUME NEW q \in Requests
        PROVE  Locks(q)'
    <3>1. CASE q = r
      BY <1>1, <2>3, <3>1 DEF Locks, TypeOK
    <3>2. CASE q # r
      BY <1>1, <2>1, <2>3, <3>2 DEF Locks, TypeOK
    <3> QED
      BY <3>1, <3>2
  <2>5. ASSUME NEW id \in Ids
        PROVE  Guarded(id)'
    <3>1. CASE lock[id] = r
      <4>1. Exists(id)'
        BY <1>1, <1>2, <3>1 DEF Guarded, Shaped
      <4> QED
        BY <2>1, <2>2, <3>1, <4>1 DEF Guarded
    <3>2. CASE lock[id] # r
      <4>1. lock'[id] = lock[id] /\ Guarded(id)
        BY <1>1, <2>1, <3>2
      <4> QED
        BY <1>1, <1>2, <2>3, <3>2, <4>1 DEF Guarded, TypeOK
    <3> QED
      BY <3>1, <3>2
  <2> QED
    BY <2>4, <2>5 DEF Goal
<1>8. ASSUME NEW id \in Ids, Register(id)
      PROVE  Goal
  BY <1>8, <1>b DEF Register, call
<1>9. CASE Tick
  BY <1>9, <1>b DEF Tick, storage, call
<1>10. CASE Restart
  <2>1. \A q \in Requests : Locks(q)'
    BY <1>10 DEF Restart, Locks
  <2>2. ASSUME NEW id \in Ids
        PROVE  Guarded(id)'
    <3>1. lock'[id] \in AfterLoss(lock[id]) /\ lock'[id] \in Writes \union {NoOne}
      BY <1>10 DEF Restart
    <3>2. lock'[id] \notin Requests
      BY <3>1, LocksAssumption
    <3>3. lock'[id] \in Writes => Exists(id)
      <4>1. CASE lock[id] \in Requests
        BY <1>1, <4>1 DEF Guarded, Shaped
      <4>2. CASE lock[id] \notin Requests
        BY <1>1, <3>1, <4>2 DEF Guarded, AfterLoss
      <4> QED
        BY <4>1, <4>2
    <3> QED
      BY <1>2, <3>2, <3>3 DEF Guarded
  <2> QED
    BY <2>1, <2>2 DEF Goal
<1>11. ASSUME NEW id \in Ids, EndLost(id)
       PROVE  Goal
  BY <1>11, <1>c DEF EndLost, LateCommit, LateRollback, call
<1>12. CASE UNCHANGED vars
  BY <1>12, <1>b DEF vars
<1> QED
  BY <1>3, <1>4, <1>5, <1>6, <1>7, <1>8, <1>9, <1>10, <1>11, <1>12 DEF Next, Step

LEMMA StepCInv ==
    ASSUME CInv, [Next]_vars
    PROVE  CInv'
BY Inductive, StepShaped, StepLocks DEF CInv

(***************************************************************************)
(* Steps.                                                                  *)
(***************************************************************************)

\* The steps of a call that its caller cannot tell.
LEMMA HiddenSteps ==
    ASSUME CInv, NEW r \in Requests,
           \/ LookUp(r) \/ DropExpired(r) \/ Select(r) \/ Stamp(r) \/ Store(r)
           \/ LogFileName(r) /\ pc'[r] # "failed"
           \/ Statement(r) \/ Connect(r)
           \/ Commit(r) /\ affected[r] # 1
    PROVE  UNCHANGED Contract!contractVars
<1>1. TypeOK /\ Shaped(r)
  BY DEF CInv, IInv
<1>2. \A q \in Requests \ {r} : Same(q)
  BY <1>1 DEF TypeOK, Same, LookUp, DropExpired, Select, Stamp, Store, LogFileName,
     Statement, Connect, Commit
<1>3. UNCHANGED <<rows, op, target>>
  BY DEF LookUp, DropExpired, Select, Stamp, Store, LogFileName, Statement, Connect,
     Commit, storage
<1>4. /\ pc[r] \in {"lookup", "check", "select", "stamp", "store", "file", "statement",
                   "connect", "commit"}
      /\ pc'[r] \in {"lookup", "check", "select", "stamp", "store", "file", "statement",
                    "connect", "commit", "ack"}
      /\ pc'[r] = "ack" => affected'[r] # 1
  BY <1>1 DEF TypeOK, Shaped, Reads, Writes, LookUp, DropExpired, Select, Stamp, Store,
     LogFileName, Statement, Connect, Commit
<1>5. Stage(r)' = Stage(r) /\ Answer(r)' = Answer(r)
  BY <1>4 DEF Stage, Answer, Settled
<1>6. late' = late
  <2>1. CASE Statement(r)
    <3>1. \A id \in Ids : {lock'[id]} \intersect Writes = {lock[id]} \intersect Writes
      BY <1>1, <2>1, LocksAssumption DEF Statement, TypeOK
    <3> QED
      BY <3>1 DEF late
  <2>2. CASE ~Statement(r)
    BY <2>2 DEF late, LookUp, DropExpired, Select, Stamp, Store, LogFileName, Connect,
       Commit, storage
  <2> QED
    BY <2>1, <2>2
<1> QED
  BY <1>2, <1>3, <1>5, <1>6, Unseen

\* A call begins.
LEMMA CallMaps ==
    ASSUME CInv, NEW r \in Requests, NEW o \in Reads \union Writes, NEW id \in Ids,
           Call(r, o, id)
    PROVE  Contract!Call(r, o, id)
<1>1. TypeOK
  BY DEF CInv, IInv
<1>2. \A q \in Requests \ {r} : Same(q)
  BY <1>1 DEF TypeOK, Same, Call
<1>3. Stage(r)' = "pending" /\ Answer(r)' = 0
  BY <1>1 DEF TypeOK, Call, Stage, Answer, Settled, Reads, Writes
<1>4. stage' = [stage EXCEPT ![r] = "pending"] /\ answer' = [answer EXCEPT ![r] = 0]
  BY <1>2, <1>3, OneCall
<1>5. history' = history /\ late' = late
  BY DEF Call, storage, history, RemovedOf, late
<1>6. stage[r] \in {"idle", "answered", "failed"}
  BY DEF Call, stage, Stage, Settled
<1>7. op' = [op EXCEPT ![r] = o] /\ target' = [target EXCEPT ![r] = id]
  BY DEF Call
<1> QED
  BY <1>4, <1>5, <1>6, <1>7 DEF Contract!Call, stage, answer, history, late, RemovedOf

\* A version written to a row is written to the history it maps to.
LEMMA WrittenMaps ==
    ASSUME TypeOK, NEW id \in Ids, Exists(id), NEW o \in Writes, rows' = Written(id, o)
    PROVE  /\ Contract!Exists(id)
           /\ history' = [history EXCEPT ![id] = Contract!Written(id, o)]
<1> DEFINE v == NewVersion(id, o)
           h == [i \in Ids |-> [n \in 1..Len(rows[i]) |-> rows[i][n].removed]]
<1>1. rows[id] \in Seq(Version)
  BY DEF TypeOK
<1>2. v \in Version /\ v.removed = (Current(id).removed \/ o = "removeUser")
  BY WrittenType DEF NewVersion
<1>3. history' = [history EXCEPT ![id] = Append(RemovedOf(rows[id]), v.removed)]
  <2>1. \A i \in Ids : rows'[i] = IF i = id THEN Append(rows[id], v) ELSE rows[i]
    BY DEF TypeOK, Written
  <2>2. RemovedOf(Append(rows[id], v)) = Append(RemovedOf(rows[id]), v.removed)
    BY <1>1, <1>2, Appended
  <2>3. history' = [i \in Ids |-> RemovedOf(rows'[i])]
    BY DEF history, RemovedOf
  <2> HIDE DEF v
  <2> QED
    BY <2>1, <2>2, <2>3 DEF history
<1>4. /\ RemovedOf(rows[id]) # <<>>
      /\ RemovedOf(rows[id])[Len(RemovedOf(rows[id]))] = Current(id).removed
  BY <1>1, <1>2, Appended DEF Exists, Current
<1>5. h[id] = RemovedOf(rows[id])
  BY DEF RemovedOf
<1>6. Current(id).removed \in BOOLEAN
  <2> DEFINE s == rows[id]
  <2>1. s \in Seq(Version) /\ s # <<>>
    BY <1>1 DEF Exists
  <2>2. s[Len(s)] \in Version
    <3> HIDE DEF s
    <3> QED
      BY <2>1
  <2> QED
    BY <2>2 DEF Current, Version
<1>7. h[id] # <<>> /\ h[id][Len(h[id])] = Current(id).removed
  <2> HIDE DEF h
  <2> QED
    BY <1>4, <1>5
<1>8. Contract!Exists(id)
  BY <1>7 DEF Contract!Exists
<1>9. Contract!Removed(id) = Current(id).removed
  <2>1. Contract!Removed(id) = h[id][Len(h[id])]
    <3>1. h[id][Len(h[id])] \in BOOLEAN
      BY <1>6, <1>7
    <3> QED
      BY <1>8, <3>1 DEF Contract!Removed
  <2> QED
    BY <1>7, <2>1
<1>10. Contract!Written(id, o) = Append(h[id], v.removed)
  <2>1. Contract!Written(id, o) = Append(h[id], Contract!Removed(id) \/ o = "removeUser")
    BY DEF Contract!Written
  <2>2. (Contract!Removed(id) \/ o = "removeUser") = v.removed
    BY <1>2, <1>9
  <2> HIDE DEF h, v
  <2> QED
    BY <2>1, <2>2
<1>11. Contract!Written(id, o) = Append(RemovedOf(rows[id]), v.removed)
  BY <1>5, <1>10
<1> QED
  BY <1>3, <1>8, <1>11

\* A transaction that has changed a row commits: the write takes effect.
LEMMA CommitMaps ==
    ASSUME CInv, NEW r \in Requests, Commit(r), affected[r] = 1
    PROVE  Contract!Apply(r)
<1> DEFINE id == target[r]
<1>1. TypeOK /\ op[r] \in Writes /\ id \in Ids /\ Exists(id)
  BY DEF CInv, IInv, TypeOK, Shaped
<1>2. \A q \in Requests \ {r} : Same(q)
  BY <1>1 DEF TypeOK, Same, Commit
<1>3. stage[r] = "pending" /\ Stage(r)' = "applied" /\ Answer(r)' = Answer(r)
  BY <1>1 DEF TypeOK, Commit, stage, Stage, Answer, Settled
<1>4. stage' = [stage EXCEPT ![r] = "applied"] /\ answer' = answer
  BY <1>2, <1>3, OneCall DEF answer
<1>5. rows' = Written(id, op[r]) /\ UNCHANGED <<op, target>>
  BY DEF Commit
<1>6. /\ Contract!Exists(id)
      /\ history' = [history EXCEPT ![id] = Contract!Written(id, op[r])]
  BY <1>1, <1>5, WrittenMaps
<1>7. late' = late
  <2>1. lock[id] = r /\ lock' = [lock EXCEPT ![id] = NoOne]
    BY DEF CInv, Locks, Commit
  <2>2. \A i \in Ids : {lock'[i]} \intersect Writes = {lock[i]} \intersect Writes
    BY <1>1, <2>1, LocksAssumption DEF TypeOK
  <2> QED
    BY <2>2 DEF late
<1> QED
  BY <1>1, <1>3, <1>4, <1>5, <1>6, <1>7
  DEF Contract!Apply, Contract!Writes, Writes, stage, answer, history, late, RemovedOf

\* A profile is answered, from the cache or from the row.
LEMMA ReadMaps ==
    ASSUME CInv, NEW r \in Requests,
           ServeCached(r) \/ (Acknowledge(r) /\ op[r] \in Reads)
    PROVE  Contract!Next
<1> DEFINE v == copy[r].version
<1>1. TypeOK /\ op[r] \in Reads
  BY DEF CInv, IInv, Shaped, ServeCached
<1>2. \A q \in Requests \ {r} : Same(q)
  BY <1>1 DEF TypeOK, Same, ServeCached, Acknowledge
<1>3. stage[r] = "pending" /\ Stage(r)' = "answered" /\ Answer(r)' = v
  BY <1>1 DEF CInv, TypeOK, Shaped, ServeCached, Acknowledge, stage, Stage, Answer, Settled,
     Reads, Writes
<1>4. stage' = [stage EXCEPT ![r] = "answered"] /\ answer' = [answer EXCEPT ![r] = v]
  BY <1>2, <1>3, OneCall
<1>5. history' = history /\ late' = late /\ UNCHANGED <<op, target>>
  BY DEF ServeCached, Acknowledge, storage, history, late, RemovedOf
<1>6. v \in 0..Len(history[target[r]])
  <2>1. target[r] \in Ids /\ rows[target[r]] \in Seq(Version) /\ v \in Nat
    BY <1>1 DEF TypeOK, Copy
  <2>2. v <= Len(rows[target[r]])
    BY DEF CInv, IInv, ResultsFaithful, Faithful
  <2>3. Len(history[target[r]]) = Len(rows[target[r]])
    BY <2>1 DEF history, RemovedOf
  <2> QED
    BY <2>1, <2>2, <2>3
<1>7. Contract!AnswerRead(r, v)
  BY <1>1, <1>3, <1>4, <1>5, <1>6
  DEF Contract!AnswerRead, Contract!Reads, Reads, stage, answer, history, late, RemovedOf
<1> QED
  BY <1>6, <1>7 DEF Contract!Next, history, RemovedOf

\* A write is answered with the number of rows it has changed.
LEMMA WriteMaps ==
    ASSUME CInv, NEW r \in Requests, Acknowledge(r), op[r] \in Writes
    PROVE  Contract!AnswerWrite(r)
<1>1. TypeOK
  BY DEF CInv, IInv
<1>2. \A q \in Requests \ {r} : Same(q)
  BY <1>1 DEF TypeOK, Same, Acknowledge
<1>3. /\ stage[r] \in {"pending", "applied"}
      /\ Stage(r)' = "answered"
      /\ Answer(r)' = IF stage[r] = "applied" THEN 1 ELSE 0
  BY <1>1 DEF TypeOK, Acknowledge, stage, Stage, Answer, Settled, Reads, Writes
<1>4. /\ stage' = [stage EXCEPT ![r] = "answered"]
      /\ answer' = [answer EXCEPT ![r] = IF stage[r] = "applied" THEN 1 ELSE 0]
  BY <1>2, <1>3, OneCall
<1>5. history' = history /\ late' = late /\ UNCHANGED <<op, target>>
  BY DEF Acknowledge, storage, history, late, RemovedOf
<1> QED
  BY <1>3, <1>4, <1>5
  DEF Contract!AnswerWrite, Contract!Writes, Writes, stage, answer, history, late, RemovedOf

\* A lost call leaves its lock to nobody or to a write that had not taken effect.
LEMMA LeftMaps ==
    ASSUME CInv, NEW gone \in SUBSET Requests, NEW id \in Ids,
           \/ lock'[id] = lock[id]
           \/ lock[id] \in gone /\ lock'[id] \in AfterLoss(lock[id])
    PROVE  {lock'[id]} \intersect Writes
                \subseteq ({lock[id]} \intersect Writes) \union Contract!LeftBy(gone, id)
<1>1. CASE lock'[id] = lock[id]
  BY <1>1
<1>2. CASE lock[id] \in gone /\ lock'[id] \in AfterLoss(lock[id])
  <2> DEFINE r == lock[id]
  <2>1. r \in Requests /\ pc[r] = "commit" /\ affected[r] = 1 /\ target[r] = id
    BY <1>2 DEF CInv, Guarded
  <2>2. stage[r] = "pending"
    BY <2>1 DEF stage, Stage, Settled
  <2>3. op[r] \in Contract!LeftBy(gone, id)
    BY <1>2, <2>1, <2>2 DEF Contract!LeftBy, stage
  <2>4. lock'[id] = NoOne \/ lock'[id] = op[r]
    BY <1>2, <2>1 DEF AfterLoss
  <2> QED
    BY <2>3, <2>4, LocksAssumption
<1> QED
  BY <1>1, <1>2

LEMMA LeavesMaps ==
    ASSUME CInv, NEW gone \in SUBSET Requests,
           \A id \in Ids :
               \/ lock'[id] = lock[id]
               \/ lock[id] \in gone /\ lock'[id] \in AfterLoss(lock[id])
    PROVE  Contract!Leaves(gone)
<1>1. late' \in [Ids -> SUBSET Writes]
  BY DEF late
<1>2. ASSUME NEW id \in Ids
      PROVE  late'[id] \subseteq late[id] \union Contract!LeftBy(gone, id)
  BY LeftMaps DEF late
<1>3. Contract!Writes = Writes
  BY DEF Contract!Writes, Writes
<1> QED
  BY <1>1, <1>2, <1>3 DEF Contract!Leaves, late

\* A call fails, whatever it had reached.
LEMMA FailMaps ==
    ASSUME CInv, NEW r \in Requests,
           Fail(r) \/ (LogFileName(r) /\ pc'[r] = "failed")
    PROVE  Contract!AnswerError(r)
<1>1. TypeOK
  BY DEF CInv, IInv
<1>2. \A q \in Requests \ {r} : Same(q)
  BY <1>1 DEF TypeOK, Same, Fail, LogFileName
<1>3. /\ stage[r] \in {"pending", "applied"}
      /\ Stage(r)' = "failed"
      /\ Answer(r)' = Answer(r)
  BY <1>1 DEF TypeOK, Fail, LogFileName, stage, Stage, Answer, Settled, Holding
<1>4. stage' = [stage EXCEPT ![r] = "failed"] /\ answer' = answer
  BY <1>2, <1>3, OneCall DEF answer
<1>5. history' = history /\ UNCHANGED <<op, target>>
  BY DEF Fail, LogFileName, storage, history, RemovedOf
<1>6. Contract!Leaves({r})
  <2>1. ASSUME NEW id \in Ids
        PROVE  \/ lock'[id] = lock[id]
               \/ lock[id] \in {r} /\ lock'[id] \in AfterLoss(lock[id])
    BY DEF Fail, LogFileName, storage
  <2> QED
    BY <2>1, LeavesMaps
<1> QED
  BY <1>3, <1>4, <1>5, <1>6
  DEF Contract!AnswerError, stage, answer, history, RemovedOf

\* Another program adds a user.
LEMMA RegisterMaps ==
    ASSUME CInv, NEW id \in Ids, Register(id)
    PROVE  Contract!Register(id)
<1>1. TypeOK
  BY DEF CInv, IInv
<1>2. stage' = stage /\ answer' = answer /\ late' = late /\ UNCHANGED <<op, target>>
  BY DEF Register, call, stage, Stage, answer, Answer, late
<1>3. rows[id] = <<>> /\ rows' = [rows EXCEPT ![id] = <<[removed |-> FALSE, at |-> clock]>>]
  BY DEF Register, Exists
<1>4. RemovedOf(<<[removed |-> FALSE, at |-> clock]>>) = <<FALSE>>
  <2>1. [removed |-> FALSE, at |-> clock] \in Version
    BY <1>1 DEF TypeOK, Version
  <2> QED
    BY <2>1, Single
<1>5. history[id] = <<>>
  BY <1>3 DEF history, RemovedOf
<1>6. history' = [history EXCEPT ![id] = <<FALSE>>]
  BY <1>1, <1>3, <1>4 DEF history, TypeOK
<1> QED
  BY <1>2, <1>5, <1>6
  DEF Contract!Register, Contract!Exists, stage, answer, history, late, RemovedOf

\* The instance stops.
LEMMA RestartMaps ==
    ASSUME CInv, Restart
    PROVE  Contract!Abandon
<1>1. stage' = [r \in Requests |-> "idle"] /\ answer' = [r \in Requests |-> 0]
  BY DEF Restart, stage, Stage, answer, Answer, Settled
<1>2. history' = history /\ UNCHANGED <<op, target>>
  BY DEF Restart, history, RemovedOf
<1>3. Contract!Leaves(Requests)
  <2>1. ASSUME NEW id \in Ids
        PROVE  \/ lock'[id] = lock[id]
               \/ lock[id] \in Requests /\ lock'[id] \in AfterLoss(lock[id])
    BY DEF Restart, AfterLoss
  <2> QED
    BY <2>1, LeavesMaps
<1> QED
  BY <1>1, <1>2, <1>3 DEF Contract!Abandon, stage, answer, history, RemovedOf

\* The database ends the transaction of a lost call.
LEMMA EndLostMaps ==
    ASSUME CInv, NEW id \in Ids, EndLost(id)
    PROVE  \E o \in Writes : Contract!ApplyLate(id, o) \/ Contract!Forget(id, o)
<1>0. PICK o \in Writes : o = lock[id]
  BY DEF EndLost, LateCommit, LateRollback
<1>1. TypeOK /\ Exists(id)
  BY <1>0 DEF CInv, IInv, Guarded
<1>2. stage' = stage /\ answer' = answer /\ UNCHANGED <<op, target>>
  BY DEF EndLost, LateCommit, LateRollback, call, stage, Stage, answer, Answer
<1>3. o \in late[id] /\ late' = [late EXCEPT ![id] = @ \ {o}]
  <2>1. lock' = [lock EXCEPT ![id] = NoOne]
    BY DEF EndLost, LateCommit, LateRollback
  <2>2. \A i \in Ids : lock'[i] = IF i = id THEN NoOne ELSE lock[i]
    BY <1>1, <2>1 DEF TypeOK
  <2>3. {NoOne} \intersect Writes = {} /\ ({o} \intersect Writes) \ {o} = {}
    BY LocksAssumption
  <2> QED
    BY <1>0, <2>2, <2>3 DEF late
<1>4. CASE LateCommit(id)
  <2>1. /\ Contract!Exists(id)
        /\ history' = [history EXCEPT ![id] = Contract!Written(id, o)]
    BY <1>0, <1>1, <1>4, WrittenMaps DEF LateCommit
  <2>2. Contract!ApplyLate(id, o)
    BY <1>2, <1>3, <2>1
    DEF Contract!ApplyLate, stage, answer, history, late, RemovedOf
  <2> QED
    BY <2>2
<1>5. CASE LateRollback(id)
  <2>1. history' = history
    BY <1>5 DEF LateRollback, history, RemovedOf
  <2>2. Contract!Forget(id, o)
    BY <1>2, <1>3, <2>1 DEF Contract!Forget, stage, answer, history, late, RemovedOf
  <2> QED
    BY <2>2
<1> QED
  BY <1>4, <1>5 DEF EndLost

LEMMA InitMaps == Init => Contract!Init
<1> SUFFICES ASSUME Init
             PROVE  Contract!Init
  OBVIOUS
<1>1. \A id \in Ids : RemovedOf(rows[id]) \in {<<>>, <<FALSE>>}
  <2>1. [removed |-> FALSE, at |-> 0] \in Version
    BY DEF Version
  <2>2. /\ RemovedOf(<<>>) = <<>>
        /\ RemovedOf(<<[removed |-> FALSE, at |-> 0]>>) = <<FALSE>>
    BY <2>1, Single
  <2> QED
    BY <2>2 DEF Init
<1>2. history \in [Ids -> {<<>>, <<FALSE>>}]
  BY <1>1 DEF history
<1>3. stage = [r \in Requests |-> "idle"] /\ answer = [r \in Requests |-> 0]
  BY DEF Init, stage, Stage, answer, Answer, Settled
<1>4. late = [id \in Ids |-> {}]
  BY LocksAssumption DEF Init, late
<1> QED
  BY <1>2, <1>3, <1>4 DEF Init, Contract!Init, stage, answer, history, late, RemovedOf

LEMMA StepMaps ==
    ASSUME CInv, [Next]_vars
    PROVE  [Contract!Next]_(Contract!contractVars)
<1>1. ASSUME NEW r \in Requests, NEW o \in Reads \union Writes, NEW id \in Ids,
             Call(r, o, id)
      PROVE  Contract!Next
  BY <1>1, CallMaps DEF Contract!Next, Contract!Reads, Contract!Writes, Reads, Writes
<1>2. ASSUME NEW r \in Requests, Step(r)
      PROVE  [Contract!Next]_(Contract!contractVars)
  <2>1. CASE \/ LookUp(r) \/ DropExpired(r) \/ Select(r) \/ Stamp(r) \/ Store(r)
             \/ LogFileName(r) /\ pc'[r] # "failed"
             \/ Statement(r) \/ Connect(r)
             \/ Commit(r) /\ affected[r] # 1
    BY <2>1, HiddenSteps
  <2>2. CASE Commit(r) /\ affected[r] = 1
    BY <2>2, CommitMaps DEF Contract!Next
  <2>3. CASE ServeCached(r)
    BY <2>3, ReadMaps
  <2>4. CASE Acknowledge(r)
    <3>1. op[r] \in Reads \/ op[r] \in Writes
      BY DEF CInv, IInv, TypeOK
    <3>2. CASE op[r] \in Reads
      BY <2>4, <3>2, ReadMaps
    <3>3. CASE op[r] \in Writes
      BY <2>4, <3>3, WriteMaps DEF Contract!Next
    <3> QED
      BY <3>1, <3>2, <3>3
  <2>5. CASE LogFileName(r) /\ pc'[r] = "failed"
    BY <2>5, FailMaps DEF Contract!Next
  <2> QED
    BY <1>2, <2>1, <2>2, <2>3, <2>4, <2>5 DEF Step
<1>3. ASSUME NEW r \in Requests, Fail(r)
      PROVE  Contract!Next
  BY <1>3, FailMaps DEF Contract!Next
<1>4. ASSUME NEW id \in Ids, Register(id)
      PROVE  Contract!Next
  BY <1>4, RegisterMaps DEF Contract!Next
<1>5. CASE Restart
  BY <1>5, RestartMaps DEF Contract!Next
<1>6. CASE Tick \/ UNCHANGED vars
  BY <1>6 DEF Tick, vars, storage, call, Contract!contractVars, Stage, Answer
<1>7. ASSUME NEW id \in Ids, EndLost(id)
      PROVE  Contract!Next
  BY <1>7, EndLostMaps DEF Contract!Next, Contract!Writes, Writes
<1> QED
  BY MethodsAssumption, <1>1, <1>2, <1>3, <1>4, <1>5, <1>6, <1>7 DEF Next

(***************************************************************************)
(* The theorem.                                                            *)
(***************************************************************************)

\* Whatever the cache, the pool, the locks and failures do, the user API does nothing
\* its contract does not allow (ImplementsContract).
THEOREM ContractKept == Spec => ImplementsContract
<1>1. Init => CInv /\ Contract!Init
  BY InitCInv, InitMaps
<1>2. CInv /\ [Next]_vars => CInv' /\ [Contract!Next]_(Contract!contractVars)
  BY StepCInv, StepMaps
<1> QED
  BY <1>1, <1>2, PTL DEF Spec, ImplementsContract, Contract!Spec
=============================================================================
