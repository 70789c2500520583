----------------------------- MODULE UserService -----------------------------
(***************************************************************************)
(* UserService.getProfile, updateProfile and removeUser, with everything   *)
(* they share: table "user" in Postgres, the query cache in Redis that     *)
(* getProfile reads through, the connection pool of the "user" data source *)
(* and the wall clock.  A call is an async function: each action below is  *)
(* the code between two of its awaits (or what the database or Redis does  *)
(* while it is suspended), so the calls interleave at every await.         *)
(*                                                                         *)
(* A row is the sequence of its committed versions; a reader of version n  *)
(* has seen the password the n-th write left, or no user at all when the   *)
(* row did not exist (n = 0) or that version is removed.                   *)
(***************************************************************************)
EXTENDS Integers, Sequences, FiniteSets

CONSTANTS
    Ids,          \* primary keys of table "user", stored or not
    Methods,      \* methods the clients call
    Requests,     \* calls one instance can be serving at the same time
    Ttl,          \* cache.milliseconds of getProfile, in clock ticks
    PoolSize,     \* connections of the "user" data source
    MaxTime,      \* bound: the clock stops here
    MaxVersions,  \* bound: committed versions of one row
    NoEntry,      \* Redis has no value under a key
    NoOne         \* no open transaction holds a row lock

ASSUME TtlAssumption  == Ttl \in Nat
ASSUME PoolAssumption == PoolSize \in Nat \ {0}
ASSUME RequestsAssumption == IsFiniteSet(Requests)

VARIABLES
    clock,      \* wall clock
    rows,       \* rows[id]: committed versions of the row, oldest first
    lock,       \* lock[id]: the call whose open transaction changed the row, or
                \* the method of a call that is gone and has left its COMMIT
    cache,      \* cache[key]: query results kept by Redis
    free,       \* idle connections of the pool
    pc,         \* pc[r]: what call r waits for
    op, target, \* the method it runs and the :id of its URL
    copy,       \* copy[r]: the query result a read has in hand
    affected    \* affected[r]: updateResult.affected of a write

storage == <<rows, lock>>
call    == <<pc, op, target, copy, affected>>
vars    == <<clock, rows, lock, cache, free, pc, op, target, copy, affected>>

Reads  == {"getProfile"}
Writes == {"updateProfile", "removeUser"}

ASSUME MethodsAssumption == Methods \subseteq Reads \union Writes
ASSUME LocksAssumption ==
    NoOne \notin Requests \union Writes /\ Requests \intersect Writes = {}

Settled == {"idle", "answered", "failed"}

(***************************************************************************)
(* Data.                                                                   *)
(***************************************************************************)

\* removed: deletedAt is set.  at: when the version was committed.
Version == [removed : BOOLEAN, at : Nat]

Exists(id)  == rows[id] # <<>>
Current(id) == rows[id][Len(rows[id])]

\* A query result: of which user, which version, when the SELECT ran and when
\* the result was stamped (options.time).
Copy   == [owner : Ids, version : Nat, readAt : Nat, time : Nat]
NoCopy(id) == [owner |-> id, version |-> 0, readAt |-> 0, time |-> 0]

\* Variant: the key does not name the user.
CacheKeyWithoutId(id) == <<"profile">>

CacheKeyForProfile(id) == <<"profile", id>>

Keys == {CacheKeyForProfile(id) : id \in Ids}

\* What Redis keeps, with the deadline its PX option sets.
Entry == [result : Copy, deadline : Nat]

ASSUME NoEntryAssumption == NoEntry \notin Entry

\* Variant: expiry is left to Redis.
IsExpiredInRedisOnly(c) == FALSE

\* The value of savedCache.time + savedCache.duration < now.
IsExpired(c) == c.time + Ttl < clock

TypeOK ==
    /\ clock \in Nat
    /\ rows \in [Ids -> Seq(Version)]
    /\ lock \in [Ids -> Requests \union Writes \union {NoOne}]
    /\ cache \in [Keys -> Entry \union {NoEntry}]
    /\ free \in 0..PoolSize
    /\ pc \in [Requests -> Settled \union
                {"lookup", "check", "file", "connect", "select", "stamp",
                 "store", "statement", "commit", "ack"}]
    /\ op \in [Requests -> Reads \union Writes]
    /\ target \in [Requests -> Ids]
    /\ copy \in [Requests -> Copy]
    /\ affected \in [Requests -> {0, 1}]

\* The points at which a call holds a connection of the pool.
Holding == {"select", "stamp", "store", "statement", "commit", "ack"}

Init ==
    /\ clock = 0
    /\ rows \in [Ids -> {<<>>, <<[removed |-> FALSE, at |-> 0]>>}]
    /\ lock = [id \in Ids |-> NoOne]
    /\ cache = [k \in Keys |-> NoEntry]
    /\ free = PoolSize
    /\ pc = [r \in Requests |-> "idle"]
    /\ op = [r \in Requests |-> "getProfile"]
    /\ target \in [Requests -> Ids]
    /\ copy = [r \in Requests |-> NoCopy(target[r])]
    /\ affected = [r \in Requests |-> 0]

\* Bound: every write in progress, or left behind, may still add a version.
MayWrite(id) ==
    Len(rows[id]) + Cardinality({r \in Requests : pc[r] \notin Settled
                                     /\ op[r] \in Writes /\ target[r] = id})
        + Cardinality({lock[id]} \intersect Writes)
        < MaxVersions

(***************************************************************************)
(* A call enters UserService.                                              *)
(***************************************************************************)

Call(r, o, id) ==
    /\ pc[r] \in Settled
    /\ o \in Writes => MayWrite(id)
    /\ pc' = [pc EXCEPT ![r] = CASE o = "getProfile"    -> "lookup"
                                 [] o = "updateProfile" -> "file"
                                 [] o = "removeUser"    -> "connect"]
    /\ op' = [op EXCEPT ![r] = o]
    /\ target' = [target EXCEPT ![r] = id]
    /\ copy' = [copy EXCEPT ![r] = NoCopy(id)]
    /\ affected' = [affected EXCEPT ![r] = 0]
    /\ UNCHANGED <<clock, storage, cache, free>>

(***************************************************************************)
(* getProfile: sqlFindOne with a query cache.                              *)
(***************************************************************************)

\* Redis executes the GET of getFromCache.
LookUp(r) ==
    LET k == CacheKeyForProfile(target[r]) IN
    /\ pc[r] = "lookup"
    /\ IF cache[k] = NoEntry
       THEN /\ pc' = [pc EXCEPT ![r] = "connect"]
            /\ UNCHANGED copy
       ELSE /\ pc' = [pc EXCEPT ![r] = "check"]
            /\ copy' = [copy EXCEPT ![r] = cache[k].result]
    /\ UNCHANGED <<clock, storage, cache, free, op, target, affected>>

\* The reply is back: answer from it, or query when it is too old by now.
ServeCached(r) ==
    /\ pc[r] = "check"
    /\ ~IsExpired(copy[r])
    /\ pc' = [pc EXCEPT ![r] = "answered"]
    /\ UNCHANGED <<clock, storage, cache, free, op, target, copy, affected>>

DropExpired(r) ==
    /\ pc[r] = "check"
    /\ IsExpired(copy[r])
    /\ pc' = [pc EXCEPT ![r] = "connect"]
    /\ copy' = [copy EXCEPT ![r] = NoCopy(target[r])]
    /\ UNCHANGED <<clock, storage, cache, free, op, target, affected>>

\* Variant: the statement is sent to a replica, which may lag behind.
SelectFromReplica(r) ==
    /\ pc[r] = "select"
    /\ pc' = [pc EXCEPT ![r] = "stamp"]
    /\ \E n \in 0..Len(rows[target[r]]) :
           copy' = [copy EXCEPT ![r] = [owner   |-> target[r],
                                        version |-> n,
                                        readAt  |-> clock,
                                        time    |-> clock]]
    /\ UNCHANGED <<clock, storage, cache, free, op, target, affected>>

\* A statement sees what is committed when it starts; removed or missing rows
\* give an empty result, which is a result like any other.
Select(r) ==
    /\ pc[r] = "select"
    /\ pc' = [pc EXCEPT ![r] = "stamp"]
    /\ copy' = [copy EXCEPT ![r] = [owner   |-> target[r],
                                    version |-> Len(rows[target[r]]),
                                    readAt  |-> clock,
                                    time    |-> clock]]
    /\ UNCHANGED <<clock, storage, cache, free, op, target, affected>>

\* The result is back: it is stamped and sent to Redis.
Stamp(r) ==
    /\ pc[r] = "stamp"
    /\ pc' = [pc EXCEPT ![r] = "store"]
    /\ copy' = [copy EXCEPT ![r].time = clock]
    /\ UNCHANGED <<clock, storage, cache, free, op, target, affected>>

\* Redis executes SET key .. PX milliseconds, whatever is there already.
Store(r) ==
    /\ pc[r] = "store"
    /\ pc' = [pc EXCEPT ![r] = "ack"]
    /\ cache' = [cache EXCEPT ![CacheKeyForProfile(target[r])] =
                     [result |-> copy[r], deadline |-> clock + Ttl]]
    /\ UNCHANGED <<clock, storage, free, op, target, copy, affected>>

(***************************************************************************)
(* updateProfile and removeUser: one statement inside mergeTransaction.    *)
(***************************************************************************)

\* file.originalname is read before anything else; without a file in the
\* request that throws.
LogFileName(r) ==
    /\ pc[r] = "file"
    /\ pc' \in {[pc EXCEPT ![r] = "connect"], [pc EXCEPT ![r] = "failed"]}
    /\ UNCHANGED <<clock, storage, cache, free, op, target, copy, affected>>

\* Variant: the statement goes through the default manager, on a connection of
\* its own, instead of through the transaction's manager.
StatementOnDefaultManager(r) ==
    /\ pc[r] = "statement"
    /\ free > 0
    /\ IF Exists(target[r])
       THEN /\ lock[target[r]] = NoOne
            /\ lock' = [lock EXCEPT ![target[r]] = r]
            /\ affected' = [affected EXCEPT ![r] = 1]
       ELSE UNCHANGED <<lock, affected>>
    /\ pc' = [pc EXCEPT ![r] = "commit"]
    /\ UNCHANGED <<clock, rows, cache, free, op, target, copy>>

\* UPDATE "user" SET .. WHERE id = ..: waits for the row, changes it whether or
\* not it is removed, and reports how many rows matched.
Statement(r) ==
    /\ pc[r] = "statement"
    /\ IF Exists(target[r])
       THEN /\ lock[target[r]] = NoOne
            /\ lock' = [lock EXCEPT ![target[r]] = r]
            /\ affected' = [affected EXCEPT ![r] = 1]
       ELSE UNCHANGED <<lock, affected>>
    /\ pc' = [pc EXCEPT ![r] = "commit"]
    /\ UNCHANGED <<clock, rows, cache, free, op, target, copy>>

\* The row as a committed statement of method o leaves it.
NewVersion(id, o) ==
    [removed |-> Current(id).removed \/ o = "removeUser", at |-> clock]

Written(id, o) == [rows EXCEPT ![id] = Append(@, NewVersion(id, o))]

\* Variant: the transaction is reported done whether or not it committed.
CommitUnchecked(r) ==
    /\ pc[r] = "commit"
    /\ IF affected[r] = 1
       THEN /\ rows' \in {rows, Written(target[r], op[r])}
            /\ lock' = [lock EXCEPT ![target[r]] = NoOne]
       ELSE UNCHANGED storage
    /\ pc' = [pc EXCEPT ![r] = "ack"]
    /\ UNCHANGED <<clock, cache, free, op, target, copy, affected>>

Commit(r) ==
    /\ pc[r] = "commit"
    /\ IF affected[r] = 1
       THEN /\ rows' = Written(target[r], op[r])
            /\ lock' = [lock EXCEPT ![target[r]] = NoOne]
       ELSE UNCHANGED storage
    /\ pc' = [pc EXCEPT ![r] = "ack"]
    /\ UNCHANGED <<clock, cache, free, op, target, copy, affected>>

(***************************************************************************)
(* What both paths share.                                                  *)
(***************************************************************************)

\* The pool hands over a connection (and a write starts its transaction).
Connect(r) ==
    /\ pc[r] = "connect"
    /\ free > 0
    /\ free' = free - 1
    /\ pc' = [pc EXCEPT ![r] = IF op[r] \in Reads THEN "select" ELSE "statement"]
    /\ UNCHANGED <<clock, storage, cache, op, target, copy, affected>>

\* The last reply is back: the connection is released and the call answered.
Acknowledge(r) ==
    /\ pc[r] = "ack"
    /\ free' = free + 1
    /\ pc' = [pc EXCEPT ![r] = "answered"]
    /\ UNCHANGED <<clock, storage, cache, op, target, copy, affected>>

\* What the lock of a row becomes when its holder's connection ends: nothing, or
\* that of a transaction whose COMMIT Postgres has yet to execute.
AfterLoss(holder) ==
    IF holder \in Requests THEN {NoOne} \union ({op[holder]} \intersect Writes)
    ELSE {holder}

\* Variant: the connection is released on the normal path only.
FailWithoutRelease(r) ==
    /\ pc[r] \in {"lookup", "connect"} \union (Holding \ {"stamp"})
    /\ pc' = [pc EXCEPT ![r] = "failed"]
    /\ lock' = [id \in Ids |-> IF lock[id] = r THEN NoOne ELSE lock[id]]
    /\ copy' = [copy EXCEPT ![r] = NoCopy(target[r])]
    /\ affected' = [affected EXCEPT ![r] = 0]
    /\ UNCHANGED <<clock, rows, cache, free, op, target>>

\* Variant: the connection is released even when the pool never gave one.
FailReleasingAlways(r) ==
    /\ pc[r] \in {"lookup", "connect"} \union (Holding \ {"stamp"})
    /\ pc' = [pc EXCEPT ![r] = "failed"]
    /\ lock' = [id \in Ids |-> IF lock[id] = r THEN NoOne ELSE lock[id]]
    /\ copy' = [copy EXCEPT ![r] = NoCopy(target[r])]
    /\ affected' = [affected EXCEPT ![r] = 0]
    /\ free' = free + 1
    /\ UNCHANGED <<clock, rows, cache, op, target>>

\* The reply a call waits for is an error: Redis (its errors are not ignored),
\* the pool or the database.  An open transaction is rolled back, unless the
\* connection broke with its COMMIT on the way; one whose COMMIT was executed
\* stays committed.
Fail(r) ==
    /\ pc[r] \in {"lookup", "connect"} \union (Holding \ {"stamp"})
    /\ pc' = [pc EXCEPT ![r] = "failed"]
    /\ \E left \in AfterLoss(r) :
           lock' = [id \in Ids |-> IF lock[id] = r THEN left ELSE lock[id]]
    /\ free' = IF pc[r] \in Holding THEN free + 1 ELSE free
    /\ copy' = [copy EXCEPT ![r] = NoCopy(target[r])]
    /\ affected' = [affected EXCEPT ![r] = 0]
    /\ UNCHANGED <<clock, rows, cache, op, target>>

(***************************************************************************)
(* The surroundings.                                                       *)
(***************************************************************************)

\* Time passes, and Redis drops the keys whose deadline is over.
Tick ==
    /\ clock < MaxTime
    /\ clock' = clock + 1
    /\ cache' = [k \in Keys |-> IF cache[k] # NoEntry /\ cache[k].deadline < clock + 1
                                THEN NoEntry ELSE cache[k]]
    /\ UNCHANGED <<storage, free, call>>

\* Users are created by another program: no route here inserts one.
Register(id) ==
    /\ ~Exists(id)
    /\ rows' = [rows EXCEPT ![id] = <<[removed |-> FALSE, at |-> clock]>>]
    /\ UNCHANGED <<clock, lock, cache, free, call>>

\* Postgres executes the COMMIT a lost call has left, or finds none and rolls its
\* transaction back.
LateCommit(id) ==
    /\ lock[id] \in Writes
    /\ rows' = Written(id, lock[id])
    /\ lock' = [lock EXCEPT ![id] = NoOne]
    /\ UNCHANGED <<clock, cache, free, call>>

LateRollback(id) ==
    /\ lock[id] \in Writes
    /\ lock' = [lock EXCEPT ![id] = NoOne]
    /\ UNCHANGED <<clock, rows, cache, free, call>>

EndLost(id) == LateCommit(id) \/ LateRollback(id)

\* The instance is stopped and started again: its calls are lost, Redis keeps the
\* query results and Postgres the transactions whose COMMIT is on the way.
Restart ==
    /\ pc' = [r \in Requests |-> "idle"]
    /\ copy' = [r \in Requests |-> NoCopy(target[r])]
    /\ affected' = [r \in Requests |-> 0]
    /\ free' = PoolSize
    /\ lock' \in {l \in [Ids -> Writes \union {NoOne}] :
                     \A id \in Ids : l[id] \in AfterLoss(lock[id])}
    /\ UNCHANGED <<clock, rows, cache, op, target>>

Step(r) ==
    \/ LookUp(r) \/ ServeCached(r) \/ DropExpired(r)
    \/ Select(r) \/ Stamp(r) \/ Store(r)
    \/ LogFileName(r) \/ Statement(r) \/ Commit(r)
    \/ Connect(r) \/ Acknowledge(r)

Next ==
    \/ \E r \in Requests, o \in Methods, id \in Ids : Call(r, o, id)
    \/ \E r \in Requests : Step(r) \/ Fail(r)
    \/ \E id \in Ids : Register(id) \/ EndLost(id)
    \/ Tick
    \/ Restart

Spec == Init /\ [][Next]_vars

\* Callbacks run, replies come (or fail); the pool serves its waiting calls in
\* turn and so does Postgres with the calls waiting for a row, and it ends the
\* transaction of a connection that is gone.
Fairness ==
    /\ \A r \in Requests : SF_vars(Step(r))
    /\ \A id \in Ids : WF_vars(EndLost(id))

FairSpec == Spec /\ Fairness

(***************************************************************************)
(* Properties.                                                             *)
(***************************************************************************)

\* A profile is answered from the row of the user who was asked for, also when
\* it comes out of the shared query cache (user.service.ts, cacheKeyForProfile).
AnswersOwnProfile ==
    \A r \in Requests :
        pc[r] = "answered" /\ op[r] = "getProfile" => copy[r].owner = target[r]

\* No connection is lost and none is released twice on any path through
\* mergeTransaction or sqlFindOne, the failing ones included.
ConnectionsAccounted ==
    free + Cardinality({r \in Requests : pc[r] \in Holding}) = PoolSize

Superseded(c)   == c.version < Len(rows[c.owner])
SupersededAt(c) == rows[c.owner][c.version + 1].at

Faithful(c, id) ==
    /\ c.owner = id
    /\ c.version <= Len(rows[id])
    /\ c.readAt <= c.time
    /\ c.time <= clock
    /\ Superseded(c) => c.readAt <= SupersededAt(c)

\* Every query result, in the hands of a call or under a key in Redis, is of the
\* user the call or the key names and of a version that was current when it was
\* read, however late it is stamped, stored, looked up and served.
ResultsFaithful ==
    /\ \A r \in Requests : Faithful(copy[r], target[r])
    /\ \A id \in Ids : LET e == cache[CacheKeyForProfile(id)] IN
                        e # NoEntry => Faithful(e.result, id)

\* A profile answered from the cache was overwritten (or its user removed) at
\* most 20 s ago, plus the time the SELECT behind it took to come back: neither
\* updateProfile nor removeUser drops the cached result, so only the age of the
\* result limits how long the old one is shown.
BoundedStaleness ==
    [][\A r \in Requests :
          ServeCached(r) /\ Superseded(copy[r]) =>
              clock <= SupersededAt(copy[r]) + Ttl + (copy[r].time - copy[r].readAt)]_vars

\* Every call is answered, with a result or an error, unless the instance is
\* stopped first: no call waits for a connection or a row that is never freed.
EveryCallSettles == \A r \in Requests : pc[r] \notin Settled ~> pc[r] \in Settled

(***************************************************************************)
(* The contract: a write takes effect at its COMMIT.                       *)
(***************************************************************************)

Stage(r) ==
    CASE pc[r] \in Settled -> pc[r]
      [] pc[r] = "ack" /\ affected[r] = 1 -> "applied"
      [] OTHER -> "pending"

Answer(r) ==
    IF pc[r] # "answered" THEN 0
    ELSE IF op[r] \in Reads THEN copy[r].version ELSE affected[r]

Contract == INSTANCE UserContract WITH
    history <- [id \in Ids |-> [n \in 1..Len(rows[id]) |-> rows[id][n].removed]],
    stage   <- [r \in Requests |-> Stage(r)],
    answer  <- [r \in Requests |-> Answer(r)],
    late    <- [id \in Ids |-> {lock[id]} \intersect Writes]

\* Calls on one row take effect one at a time, at most once each, and while they
\* are in progress or after they were lost with their COMMIT on the way; "1 row
\* affected" is answered exactly when the write was committed, and a read never
\* shows what was not committed.
ImplementsContract == Contract!Spec
=============================================================================
