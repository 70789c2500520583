---------------------------- MODULE ThrottleWindow ----------------------------
(***************************************************************************)
(* Throttling: the guard of every instance of the service counts the        *)
(* requests of a client to a handler in Redis.  The first hit opens a       *)
(* window; a hit beyond the limit blocks the client; refused hits count     *)
(* too.  One client and one handler: counters of others are other keys.     *)
(***************************************************************************)
EXTENDS Integers, Sequences

CONSTANTS
    Instances,       \* of the service
    THROTTLE_TTL,
    THROTTLE_LIMIT,
    MaxTime,         \* bound: how long the clock runs
    MaxHits          \* bound: requests of the client

ASSUME ThrottleAssumption ==
    /\ THROTTLE_TTL \in Nat \ {0}
    /\ THROTTLE_LIMIT \in Nat \ {0}
    /\ MaxTime \in Nat
    /\ MaxHits \in Nat
    /\ "redis" \notin Instances

VARIABLES
    now,      \* clock of Redis, in its unit
    store,    \* per storage: hits of the window, the last moment of the window and that
              \* of the block, 0 for a key that was never set
    hits,     \* every request: when it was counted, what became of it, and whether it
              \* came in the last moment of a window
    passed    \* requests the guard let through: time, start of the window, number, and
              \* whether they came in the last moment of a block

vars == <<now, store, hits, passed>>

\* Variant: ttl and limit are swapped in app.module.ts.
ThrottlersSwapped == [ttl |-> THROTTLE_LIMIT, limit |-> THROTTLE_TTL]

\* Variant: the unit of ttl is mistaken.
ThrottlersInOtherUnit == [ttl |-> 2 * THROTTLE_TTL, limit |-> THROTTLE_LIMIT]

Throttlers == [ttl |-> THROTTLE_TTL, limit |-> THROTTLE_LIMIT]

\* Variant: no storage is given, and each instance counts for itself.
StorageOfInstance(i) == i

Storage(i) == "redis"

Counter == [hits : Nat, until : Nat, blocked : Nat]

Hit == [at : 0..now, result : {"pass", "block", "error"}, prolonged : BOOLEAN]

Pass == [at : 0..now, start : Int, no : 1..THROTTLE_LIMIT, freed : BOOLEAN]

TypeOK ==
    /\ now \in Nat
    /\ store \in [Instances \cup {"redis"} -> Counter]
    /\ hits \in Seq(Hit)
    /\ passed \in Seq(Pass)

Init ==
    /\ now = 1
    /\ store = [s \in Instances \cup {"redis"} |-> [hits |-> 0, until |-> 0, blocked |-> 0]]
    /\ hits = <<>>
    /\ passed = <<>>

\* A key is there up to and with its last moment.
Live(c) == now <= c.until
Blocked(c) == now <= c.blocked

\* The hit comes in the last moment of a block: the script takes it as ended.
Freed(c) == now = c.blocked

\* The hit comes in the last moment of a window.
Prolonged(c) == now = c.until /\ ~Freed(c)

\* The script of the storage: a hit on no key opens a window of ttl, one in the last
\* moment of a window prolongs it and goes on counting, one beyond the limit blocks
\* for as long, one in the last moment of a block starts anew.
Incremented(c) ==
    LET n == IF Live(c) THEN c.hits + 1 ELSE 1
    IN [hits |-> IF Freed(c) THEN 1 ELSE n,
        until |-> IF now < c.until /\ ~Freed(c) THEN c.until ELSE now + Throttlers.ttl,
        blocked |-> IF ~Blocked(c) /\ n > Throttlers.limit
                    THEN now + Throttlers.ttl ELSE c.blocked]

\* The guard of instance i counts a request and lets it pass, answers 429, or
\* answers 500 because the reply of Redis is lost.  (A request Redis does not count
\* is answered 500 and leaves no trace.)
canActivate(i) ==
    LET old == store[Storage(i)]
        c == Incremented(old)
        Ended(result) == hits' = Append(hits, [at |-> now, result |-> result,
                                               prolonged |-> Prolonged(old)])
    IN
    /\ Len(hits) < MaxHits
    /\ store' = [store EXCEPT ![Storage(i)] = c]
    /\ \/ /\ now >= c.blocked
          /\ Ended("pass")
          /\ passed' = Append(passed, [at |-> now, start |-> c.until - Throttlers.ttl,
                                       no |-> c.hits, freed |-> Freed(old)])
       \/ now < c.blocked /\ Ended("block") /\ UNCHANGED passed
       \/ Ended("error") /\ UNCHANGED passed
    /\ UNCHANGED now

Tick ==
    /\ now < MaxTime
    /\ now' = now + 1
    /\ UNCHANGED <<store, hits, passed>>

Next == Tick \/ \E i \in Instances : canActivate(i)

Spec == Init /\ [][Next]_vars

(***************************************************************************)
(* Properties.                                                             *)
(***************************************************************************)

\* A second request that passes in the last moment of a block, in which each hit
\* starts anew.
Again(i) == passed[i].freed /\ \E h \in 1..(i - 1) : passed[h].at = passed[i].at

\* However many instances answer a client and however its requests fall on the ends
\* of windows and blocks, no THROTTLE_TTL of time sees twice the limit pass, unless
\* several come in the very moment a block ends; a fixed window can let through one
\* less (app.module.ts, throttlers and storage).
AdmittedBounded ==
    \A j, k \in DOMAIN passed :
        k = j + 2 * THROTTLE_LIMIT - 1 =>
            \/ passed[k].at >= passed[j].at + THROTTLE_TTL
            \/ \E i \in (j + 1)..k : Again(i)

\* Hits m to n never paused for longer than THROTTLE_TTL, and they came within it or
\* one of them prolonged the window of those before.
Dense(m, n) ==
    /\ \A i \in m..(n - 1) : hits[i + 1].at <= hits[i].at + THROTTLE_TTL
    /\ \/ hits[n].at < hits[m].at + THROTTLE_TTL
       \/ \E i \in (m + 1)..n : hits[i].prolonged

\* A request is refused only if the client sent more than the limit in such a row and
\* the last of these was less than THROTTLE_TTL ago.
RefusedForCause ==
    \A k \in DOMAIN hits :
        hits[k].result = "block" =>
            \E j \in 1..k :
                /\ j > THROTTLE_LIMIT
                /\ Dense(j - THROTTLE_LIMIT, j)
                /\ hits[k].at < hits[j].at + THROTTLE_TTL
=============================================================================
