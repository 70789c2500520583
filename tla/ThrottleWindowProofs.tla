------------------------- MODULE ThrottleWindowProofs -------------------------
(***************************************************************************)
(* Proofs about ThrottleWindow, for every ttl, limit, set of instances and  *)
(* length of the run.                                                       *)
(***************************************************************************)
EXTENDS ThrottleWindow, SequenceTheorems, TLAPS

redis == store["redis"]

(***************************************************************************)
(* The inductive invariant.                                                *)
(***************************************************************************)

\* Requests are counted in the order of time.
Ordered == \A j, k \in DOMAIN hits : j <= k => hits[j].at <= hits[k].at

\* The hits of the window are the last ones, without a pause of more than
\* THROTTLE_TTL; those older than its start were followed by one that prolonged it.
Window ==
    /\ redis.until <= now + THROTTLE_TTL
    /\ redis.hits <= Len(hits)
    /\ redis.until > 0 => redis.hits > 0
    /\ \A k \in DOMAIN hits :
        k > Len(hits) - redis.hits =>
            /\ \/ hits[k].at >= redis.until - THROTTLE_TTL
               \/ \E i \in (k + 1)..Len(hits) : hits[i].prolonged
            /\ k < Len(hits) => hits[k + 1].at <= hits[k].at + THROTTLE_TTL

\* A block was set by a hit that found the limit used up.
Block ==
    redis.blocked # 0 =>
        \E j \in DOMAIN hits :
            /\ j > THROTTLE_LIMIT
            /\ Dense(j - THROTTLE_LIMIT, j)
            /\ redis.blocked = hits[j].at + THROTTLE_TTL

\* Nothing passes during a block, and the windows of what passed before end with it at
\* the latest; a request that passes in its last moment leaves a new window.
Shut ==
    now <= redis.blocked =>
        \A j \in DOMAIN passed :
            \/ passed[j].start + THROTTLE_TTL <= redis.blocked
            \/ /\ passed[j].at = redis.blocked
               /\ redis.hits = 1
               /\ redis.until = redis.blocked + THROTTLE_TTL

\* One of the requests that passed from j to k did so again in the last moment of a
\* block.
AgainIn(j, k) == \E i \in j..k : Again(i)

\* A request passes within its window, the first of a window at its start; later
\* ones of the same window have higher numbers, and other windows are disjoint, that
\* of Redis among them.
Numbered ==
    /\ \A j \in DOMAIN passed :
        /\ passed[j].start <= passed[j].at
        /\ passed[j].at < passed[j].start + THROTTLE_TTL
        /\ passed[j].no = 1 => passed[j].at = passed[j].start
        /\ \/ /\ passed[j].start + THROTTLE_TTL = redis.until
              /\ passed[j].no + Len(passed) - j <= redis.hits
           \/ passed[j].start + 2 * THROTTLE_TTL <= redis.until
           \/ AgainIn(j + 1, Len(passed))
    /\ \A j, k \in DOMAIN passed :
        j < k => \/ passed[j].start + THROTTLE_TTL <= passed[k].start
                 \/ /\ passed[j].start = passed[k].start
                    /\ passed[j].no + k - j <= passed[k].no
                 \/ AgainIn(j + 1, k)

IInv == TypeOK /\ Ordered /\ Window /\ Block /\ Shut /\ Numbered /\ RefusedForCause

(***************************************************************************)
(* The steps.                                                              *)
(***************************************************************************)

\* The next counter of Redis.
next == Incremented(redis)

\* What a hit does to the window of Redis: it is one more of it, it prolongs it, or it
\* opens a new one.
CountsOn ==
    /\ now < redis.until
    /\ next.hits = redis.hits + 1
    /\ next.until = redis.until
    /\ ~Freed(redis)

Prolongs ==
    /\ now = redis.until
    /\ Prolonged(redis)
    /\ next.hits = redis.hits + 1
    /\ next.until = now + THROTTLE_TTL
    /\ ~Freed(redis)

Opens ==
    /\ now > redis.until \/ Freed(redis)
    /\ next.hits = 1
    /\ next.until = now + THROTTLE_TTL

\* What the script makes of the counter.
LEMMA IncrementedFacts ==
    ASSUME redis \in Counter, now \in Nat
    PROVE  /\ next \in Counter
           /\ CountsOn \/ Prolongs \/ Opens
           /\ \/ next.blocked = redis.blocked
              \/ /\ next.hits > THROTTLE_LIMIT
                 /\ next.blocked = now + THROTTLE_TTL
           /\ now >= next.blocked => next.hits <= THROTTLE_LIMIT
           /\ Freed(redis) => next.blocked = redis.blocked /\ redis.blocked = now
           /\ now < next.until
  <1> DEFINE n == IF Live(redis) THEN redis.hits + 1 ELSE 1
             hs == IF Freed(redis) THEN 1 ELSE n
             u == IF now < redis.until /\ ~Freed(redis) THEN redis.until
                  ELSE now + THROTTLE_TTL
             b == IF ~Blocked(redis) /\ n > THROTTLE_LIMIT
                  THEN now + THROTTLE_TTL ELSE redis.blocked
  <1>1. next = [hits |-> hs, until |-> u, blocked |-> b]
    BY DEF next, Incremented, Throttlers
  <1>2. /\ redis.hits \in Nat /\ redis.until \in Nat /\ redis.blocked \in Nat
        /\ now \in Nat /\ THROTTLE_TTL \in Nat \ {0} /\ THROTTLE_LIMIT \in Nat \ {0}
    BY ThrottleAssumption DEF Counter
  <1>3. hs \in Nat /\ u \in Nat /\ b \in Nat
    BY <1>2
  <1>4. next.hits = hs /\ next.until = u /\ next.blocked = b /\ next \in Counter
    <2> HIDE DEF hs, u, b
    <2>1. QED
      BY <1>1, <1>3 DEF Counter
  <1>5. \/ now < redis.until /\ hs = redis.hits + 1 /\ u = redis.until /\ ~Freed(redis)
        \/ /\ now = redis.until /\ Prolonged(redis) /\ hs = redis.hits + 1
           /\ u = now + THROTTLE_TTL /\ ~Freed(redis)
        \/ (now > redis.until \/ Freed(redis)) /\ hs = 1 /\ u = now + THROTTLE_TTL
    BY <1>2 DEF Live, Prolonged
  <1>6. CountsOn \/ Prolongs \/ Opens
    <2> HIDE DEF hs, u, b
    <2>1. QED
      BY <1>4, <1>5 DEF CountsOn, Prolongs, Opens
  <1>7. \/ b = redis.blocked
        \/ hs > THROTTLE_LIMIT /\ b = now + THROTTLE_TTL
    BY <1>2 DEF Blocked, Freed
  <1>8. now >= b => hs <= THROTTLE_LIMIT
    BY <1>2 DEF Blocked, Freed
  <1>9. Freed(redis) => b = redis.blocked /\ redis.blocked = now
    BY <1>2 DEF Blocked, Freed
  <1>10. now < u
    BY <1>2
  <1>11. QED
    <2> HIDE DEF hs, u, b
    <2>1. QED
      BY <1>4, <1>6, <1>7, <1>8, <1>9, <1>10

\* A counted request: Redis' counter moves on, one hit is added, and it passed or
\* not.
LEMMA Counted ==
    ASSUME TypeOK, NEW i \in Instances, canActivate(i)
    PROVE  /\ redis \in Counter
           /\ store' = [store EXCEPT !["redis"] = next]
           /\ redis' = next
           /\ now' = now
           /\ \E r \in {"pass", "block", "error"} :
                /\ hits' = Append(hits, [at |-> now, result |-> r,
                                         prolonged |-> Prolonged(redis)])
                /\ r = "block" => now < next.blocked
           /\ \/ UNCHANGED passed
              \/ /\ now >= next.blocked
                 /\ passed' = Append(passed, [at |-> now, start |-> next.until - THROTTLE_TTL,
                                              no |-> next.hits, freed |-> Freed(redis)])
  <1>1. redis \in Counter
    BY DEF TypeOK, redis
  <1>2. store' = [store EXCEPT !["redis"] = next] /\ now' = now
    BY DEF canActivate, Storage, next, redis
  <1>3. redis' = next
    BY <1>2 DEF TypeOK, redis
  <1>4. \E r \in {"pass", "block", "error"} :
            /\ hits' = Append(hits, [at |-> now, result |-> r,
                                     prolonged |-> Prolonged(redis)])
            /\ r = "block" => now < next.blocked
    BY DEF canActivate, Storage, next, redis
  <1>5. \/ UNCHANGED passed
        \/ /\ now >= next.blocked
           /\ passed' = Append(passed, [at |-> now, start |-> next.until - THROTTLE_TTL,
                                        no |-> next.hits, freed |-> Freed(redis)])
    BY DEF canActivate, Storage, next, redis, Throttlers
  <1>6. QED
    BY <1>1, <1>2, <1>3, <1>4, <1>5

\* A sequence over a set is one over any larger set.
LEMMA Widened ==
    ASSUME NEW S, NEW T, S \subseteq T, NEW s \in Seq(S)
    PROVE  s \in Seq(T)
  <1>1. PICK n \in Nat : s \in [1..n -> S]
    BY SeqDef
  <1>2. s \in [1..n -> T]
    BY <1>1
  <1>3. QED
    BY <1>2, SeqDef

\* What TypeOK says of the two histories, element by element.
LEMMA HitTypes ==
    ASSUME TypeOK
    PROVE  /\ Len(hits) \in Nat /\ DOMAIN hits = 1..Len(hits)
           /\ \A k \in DOMAIN hits : /\ hits[k].at \in Nat /\ hits[k].at <= now
                                     /\ hits[k].prolonged \in BOOLEAN
  <1>1. hits \in Seq(Hit) /\ now \in Nat
    BY DEF TypeOK
  <1>2. Len(hits) \in Nat /\ DOMAIN hits = 1..Len(hits)
        /\ \A k \in DOMAIN hits : hits[k] \in Hit
    BY <1>1
  <1>3. QED
    BY <1>1, <1>2 DEF Hit

LEMMA PassTypes ==
    ASSUME TypeOK
    PROVE  /\ Len(passed) \in Nat /\ DOMAIN passed = 1..Len(passed)
           /\ \A j \in DOMAIN passed : /\ passed[j].at \in Nat /\ passed[j].at <= now
                                       /\ passed[j].start \in Int
                                       /\ passed[j].no \in 1..THROTTLE_LIMIT
  <1>1. passed \in Seq(Pass) /\ now \in Nat
    BY DEF TypeOK
  <1>2. Len(passed) \in Nat /\ DOMAIN passed = 1..Len(passed)
        /\ \A j \in DOMAIN passed : passed[j] \in Pass
    BY <1>1
  <1>3. QED
    BY <1>1, <1>2 DEF Pass

\* The hits as they are after a request was counted.
LEMMA HitAdded ==
    ASSUME TypeOK, NEW r \in {"pass", "block", "error"},
           hits' = Append(hits, [at |-> now, result |-> r, prolonged |-> Prolonged(redis)])
    PROVE  /\ hits' \in Seq(Hit)
           /\ Len(hits') = Len(hits) + 1
           /\ DOMAIN hits' = 1..(Len(hits) + 1)
           /\ hits'[Len(hits) + 1].at = now
           /\ hits'[Len(hits) + 1].result = r
           /\ hits'[Len(hits) + 1].prolonged = Prolonged(redis)
           /\ \A k \in DOMAIN hits : hits'[k] = hits[k]
  <1> DEFINE e == [at |-> now, result |-> r, prolonged |-> Prolonged(redis)]
  <1>1. hits \in Seq(Hit) /\ now \in Nat
    BY DEF TypeOK
  <1>2. Prolonged(redis) \in BOOLEAN
    BY DEF Prolonged
  <1>3. e \in Hit /\ e.at = now /\ e.result = r /\ e.prolonged = Prolonged(redis)
    BY <1>1, <1>2 DEF Hit
  <1>4. hits' = Append(hits, e)
    OBVIOUS
  <1> HIDE DEF e
  <1>5. QED
    BY <1>1, <1>3, <1>4

\* What has passed, as it is after a request passed.
LEMMA PassAdded ==
    ASSUME TypeOK, redis \in Counter, now >= next.blocked,
           passed' = Append(passed, [at |-> now, start |-> next.until - THROTTLE_TTL,
                                     no |-> next.hits, freed |-> Freed(redis)])
    PROVE  /\ passed' \in Seq(Pass)
           /\ Len(passed') = Len(passed) + 1
           /\ DOMAIN passed' = 1..(Len(passed) + 1)
           /\ passed'[Len(passed) + 1].at = now
           /\ passed'[Len(passed) + 1].start = next.until - THROTTLE_TTL
           /\ passed'[Len(passed) + 1].no = next.hits
           /\ passed'[Len(passed) + 1].freed = Freed(redis)
           /\ \A j \in DOMAIN passed : passed'[j] = passed[j]
  <1> DEFINE e == [at |-> now, start |-> next.until - THROTTLE_TTL,
                   no |-> next.hits, freed |-> Freed(redis)]
  <1>1. passed \in Seq(Pass) /\ now \in Nat
    BY DEF TypeOK
  <1>2. next \in Counter /\ next.hits <= THROTTLE_LIMIT /\ (CountsOn \/ Prolongs \/ Opens)
    BY <1>1, IncrementedFacts
  <1>3. next.hits \in 1..THROTTLE_LIMIT /\ next.until \in Nat
    BY <1>2, ThrottleAssumption DEF Counter, CountsOn, Prolongs, Opens
  <1>4. Freed(redis) \in BOOLEAN
    BY DEF Freed
  <1>5. next.until - THROTTLE_TTL \in Int
    BY <1>3, ThrottleAssumption
  <1>6. /\ e \in Pass /\ e.at = now /\ e.start = next.until - THROTTLE_TTL
        /\ e.no = next.hits /\ e.freed = Freed(redis)
    BY <1>1, <1>3, <1>4, <1>5 DEF Pass
  <1>7. passed' = Append(passed, e)
    OBVIOUS
  <1> HIDE DEF e
  <1>8. QED
    BY <1>1, <1>6, <1>7

\* Both kinds of step keep the types.
LEMMA TypesKept ==
    ASSUME TypeOK, [Next]_vars
    PROVE  TypeOK'
  <1>1. CASE Tick
    <2>1. now' = now + 1 /\ now' \in Nat /\ 0..now \subseteq 0..now'
          /\ UNCHANGED <<store, hits, passed>>
      BY <1>1 DEF Tick, TypeOK
    <2>2. Hit \subseteq Hit' /\ Pass \subseteq Pass'
      BY <2>1 DEF Hit, Pass
    <2>3. hits \in Seq(Hit') /\ passed \in Seq(Pass')
      BY <2>2, Widened DEF TypeOK
    <2>4. QED
      BY <2>1, <2>3 DEF TypeOK
  <1>2. ASSUME NEW i \in Instances, canActivate(i)
        PROVE  TypeOK'
    <2>1. PICK r \in {"pass", "block", "error"} :
                hits' = Append(hits, [at |-> now, result |-> r, prolonged |-> Prolonged(redis)])
      BY <1>2, Counted
    <2>2. redis \in Counter /\ now \in Nat /\ now' = now
          /\ store' = [store EXCEPT !["redis"] = next]
      BY <1>2, Counted DEF TypeOK
    <2>3. next \in Counter
      BY <2>2, IncrementedFacts
    <2>4. store' \in [Instances \cup {"redis"} -> Counter]
      BY <2>2, <2>3 DEF TypeOK
    <2>5. hits' \in Seq(Hit)
      BY <2>1, HitAdded
    <2>6. passed' \in Seq(Pass)
      <3>1. CASE UNCHANGED passed
        BY <3>1 DEF TypeOK
      <3>2. CASE /\ now >= next.blocked
                 /\ passed' = Append(passed, [at |-> now, start |-> next.until - THROTTLE_TTL,
                                              no |-> next.hits, freed |-> Freed(redis)])
        BY <2>2, <3>2, PassAdded
      <3>3. QED
        BY <1>2, <3>1, <3>2, Counted
    <2>7. Hit' = Hit /\ Pass' = Pass
      BY <2>2 DEF Hit, Pass
    <2>8. QED
      BY <2>2, <2>4, <2>5, <2>6, <2>7 DEF TypeOK
  <1>3. CASE UNCHANGED vars
    <2>1. Hit' = Hit /\ Pass' = Pass
      BY <1>3 DEF vars, Hit, Pass
    <2>2. QED
      BY <1>3, <2>1 DEF vars, TypeOK
  <1>4. QED
    BY <1>1, <1>2, <1>3 DEF Next

\* A dense row of hits stays one.
LEMMA DenseKept ==
    ASSUME \A k \in DOMAIN hits : hits'[k] = hits[k],
           NEW m \in Nat, NEW n \in Nat, m..n \subseteq DOMAIN hits, m <= n, Dense(m, n)
    PROVE  Dense(m, n)'
  <1>1. \A i \in m..n : hits'[i] = hits[i]
    OBVIOUS
  <1>2. \A i \in m..(n - 1) : i \in m..n /\ i + 1 \in m..n
    OBVIOUS
  <1>3. m \in m..n /\ n \in m..n /\ (m + 1)..n \subseteq m..n
    OBVIOUS
  <1>4. QED
    BY <1>1, <1>2, <1>3 DEF Dense

LEMMA HitsKept ==
    ASSUME IInv, NEW i \in Instances, canActivate(i)
    PROVE  Ordered' /\ Window' /\ Block' /\ RefusedForCause'
  <1>0. PICK N \in Nat : N = Len(hits) + 1
    BY HitTypes DEF IInv
  <1>1. PICK r \in {"pass", "block", "error"} :
            /\ hits' = Append(hits, [at |-> now, result |-> r, prolonged |-> Prolonged(redis)])
            /\ r = "block" => now < next.blocked
    BY Counted DEF IInv
  <1>2. /\ Len(hits) \in Nat /\ DOMAIN hits = 1..Len(hits)
        /\ \A k \in DOMAIN hits : hits[k].at \in Nat /\ hits[k].at <= now
    BY HitTypes DEF IInv
  <1>3. /\ Len(hits') = N /\ DOMAIN hits' = 1..N
        /\ hits'[N].at = now /\ hits'[N].result = r
        /\ hits'[N].prolonged = Prolonged(redis)
        /\ \A k \in DOMAIN hits : hits'[k] = hits[k]
    BY <1>0, <1>1, HitAdded DEF IInv
  <1>4. redis \in Counter /\ redis' = next /\ now' = now /\ now \in Nat
    BY Counted DEF IInv, TypeOK
  <1>5. /\ redis.hits \in Nat /\ redis.until \in Nat /\ redis.blocked \in Nat
        /\ next.hits \in Nat /\ next.until \in Nat /\ next.blocked \in Nat
        /\ THROTTLE_TTL \in Nat \ {0} /\ THROTTLE_LIMIT \in Nat \ {0}
        /\ now < next.until
    BY <1>4, IncrementedFacts, ThrottleAssumption DEF Counter
  <1>6. CountsOn \/ Prolongs \/ Opens
    BY <1>4, IncrementedFacts
  <1>7. \A k \in DOMAIN hits' : hits'[k].at \in Nat /\ hits'[k].at <= now
    BY <1>0, <1>2, <1>3, <1>4
  <1>8. Ordered'
    BY <1>0, <1>2, <1>3, <1>4 DEF IInv, Ordered
  <1>9. /\ redis.until <= now + THROTTLE_TTL
        /\ redis.hits <= Len(hits)
        /\ \A k \in DOMAIN hits :
            k > Len(hits) - redis.hits =>
                /\ \/ hits[k].at >= redis.until - THROTTLE_TTL
                   \/ \E l \in (k + 1)..Len(hits) : hits[l].prolonged
                /\ k < Len(hits) => hits[k + 1].at <= hits[k].at + THROTTLE_TTL
    BY DEF IInv, Window
  <1>10. /\ next.until <= now + THROTTLE_TTL /\ next.hits <= N /\ next.hits > 0
         /\ next.until - THROTTLE_TTL <= now
    BY <1>0, <1>2, <1>4, <1>5, <1>6, <1>9 DEF CountsOn, Prolongs, Opens
  <1>11. ASSUME NEW k \in 1..N, k > N - next.hits
         PROVE  /\ \/ hits'[k].at >= next.until - THROTTLE_TTL
                   \/ \E l \in (k + 1)..N : hits'[l].prolonged
                /\ k < N => hits'[k + 1].at <= hits'[k].at + THROTTLE_TTL
    <2>1. CASE k = N
      BY <1>0, <1>3, <1>10, <2>1
    <2>2. CASE k # N
      <3>0. k \in Nat /\ Len(hits) \in Nat /\ k <= Len(hits)
        BY <1>0, <1>2, <2>2
      <3>1. k \in DOMAIN hits /\ hits'[k] = hits[k] /\ k <= Len(hits)
        BY <1>0, <1>2, <1>3, <2>2
      <3>2. ~Opens
        BY <1>0, <1>2, <1>11, <2>2 DEF Opens
      <3>3. next.hits = redis.hits + 1 /\ now <= redis.until /\ (CountsOn \/ Prolongs)
        BY <1>4, <1>5, <1>6, <3>2 DEF CountsOn, Prolongs
      <3>4. k > Len(hits) - redis.hits
        BY <1>0, <1>2, <1>5, <1>11, <3>3
      <3>5. /\ \/ hits[k].at >= redis.until - THROTTLE_TTL
               \/ \E l \in (k + 1)..Len(hits) : hits[l].prolonged
            /\ k < Len(hits) => hits[k + 1].at <= hits[k].at + THROTTLE_TTL
        BY <1>9, <3>1, <3>4
      <3>6. \/ hits'[k].at >= next.until - THROTTLE_TTL
            \/ \E l \in (k + 1)..N : hits'[l].prolonged
        <4>1. CASE \E l \in (k + 1)..Len(hits) : hits[l].prolonged
          <5>1. PICK l \in (k + 1)..Len(hits) : hits[l].prolonged
            BY <4>1
          <5>2. l \in (k + 1)..N /\ l \in DOMAIN hits
            BY <1>0, <1>2, <3>1
          <5>3. hits'[l].prolonged
            BY <1>0, <1>3, <5>1, <5>2
          <5>4. QED
            BY <5>2, <5>3
        <4>2. CASE Prolongs
          <5>1. N \in (k + 1)..N
            BY <1>0, <1>2, <3>1
          <5>2. hits'[N].prolonged
            BY <1>0, <1>3, <4>2 DEF Prolongs
          <5>3. QED
            BY <5>1, <5>2
        <4>3. CASE CountsOn /\ hits[k].at >= redis.until - THROTTLE_TTL
          BY <3>1, <4>3 DEF CountsOn
        <4>4. QED
          BY <3>3, <3>5, <4>1, <4>2, <4>3
      <3>7. hits'[k + 1].at <= hits'[k].at + THROTTLE_TTL
        <4>1. CASE k < Len(hits)
          <5>1. k + 1 \in DOMAIN hits
            BY <1>0, <1>2, <3>1, <4>1
          <5>2. QED
            BY <1>0, <1>3, <3>1, <3>5, <4>1, <5>1
        <4>2. CASE k = Len(hits)
          <5>1. (k + 1)..Len(hits) = {}
            BY <1>0, <1>2, <4>2
          <5>2. hits[k].at >= redis.until - THROTTLE_TTL
            BY <3>5, <5>1
          <5>3. hits[k].at \in Nat
            BY <1>0, <1>2, <3>1
          <5>4. now <= hits[k].at + THROTTLE_TTL
            BY <1>4, <1>5, <3>3, <5>2, <5>3
          <5>5. QED
            BY <1>0, <1>3, <3>1, <4>2, <5>4
        <4>3. k < Len(hits) \/ k = Len(hits)
          BY <3>0
        <4>4. QED
          BY <4>1, <4>2, <4>3
      <3>8. QED
        BY <3>6, <3>7
    <2>3. QED
      BY <2>1, <2>2
  <1>12. Window'
    BY <1>0, <1>3, <1>4, <1>10, <1>11 DEF Window
  <1>13. Block'
    <2>1. CASE next.blocked = redis.blocked
      <3>1. SUFFICES ASSUME redis.blocked # 0
                     PROVE  \E j \in DOMAIN hits' :
                                /\ j > THROTTLE_LIMIT
                                /\ Dense(j - THROTTLE_LIMIT, j)'
                                /\ redis.blocked = hits'[j].at + THROTTLE_TTL
        BY <1>4, <2>1 DEF Block
      <3>2. PICK j \in DOMAIN hits :
                /\ j > THROTTLE_LIMIT
                /\ Dense(j - THROTTLE_LIMIT, j)
                /\ redis.blocked = hits[j].at + THROTTLE_TTL
        BY <3>1 DEF IInv, Block
      <3>3. /\ j \in DOMAIN hits' /\ j \in Nat /\ j - THROTTLE_LIMIT \in Nat
            /\ j - THROTTLE_LIMIT <= j
            /\ (j - THROTTLE_LIMIT)..j \subseteq DOMAIN hits
        BY <1>0, <1>2, <1>3, <1>5, <3>2
      <3>4. Dense(j - THROTTLE_LIMIT, j)'
        BY <1>0, <1>3, <3>2, <3>3, DenseKept
      <3>5. QED
        BY <1>0, <1>3, <3>2, <3>3, <3>4
    <2>2. CASE next.hits > THROTTLE_LIMIT /\ next.blocked = now + THROTTLE_TTL
      <3> DEFINE m == N - THROTTLE_LIMIT
      <3>1. /\ m \in 1..N /\ m > N - next.hits /\ N > THROTTLE_LIMIT /\ N \in 1..N
            /\ m \in DOMAIN hits'
        BY <1>0, <1>2, <1>3, <1>5, <1>10, <2>2
      <3>2. ASSUME NEW k \in m..(N - 1)
            PROVE  hits'[k + 1].at <= hits'[k].at + THROTTLE_TTL
        <4>1. k \in 1..N /\ k > N - next.hits /\ k < N
          <5>1. next.hits \in Nat /\ N \in Nat /\ m \in 1..N /\ m > N - next.hits
            BY <1>5, <3>1
          <5> HIDE DEF m
          <5>2. QED
            BY <5>1
        <4>2. QED
          BY <1>11, <4>1
      <3>3. \/ hits'[N].at < hits'[m].at + THROTTLE_TTL
            \/ \E l \in (m + 1)..N : hits'[l].prolonged
        <4>1. CASE hits'[m].at >= next.until - THROTTLE_TTL
          <5>1. hits'[m].at \in Nat
            BY <1>7, <3>1
          <5> HIDE DEF m
          <5>2. now < hits'[m].at + THROTTLE_TTL
            BY <1>4, <1>5, <4>1, <5>1
          <5>3. QED
            BY <1>0, <1>3, <5>2
        <4>2. QED
          BY <1>11, <3>1, <4>1
      <3>4. Dense(m, N)'
        BY <3>2, <3>3 DEF Dense
      <3>5. QED
        BY <1>0, <1>3, <1>4, <2>2, <3>1, <3>4 DEF Block
    <2>3. QED
      BY <1>4, <2>1, <2>2, IncrementedFacts
  <1>14. RefusedForCause'
    <2>1. SUFFICES ASSUME NEW k \in DOMAIN hits', hits'[k].result = "block"
                   PROVE  \E j \in 1..k :
                            /\ j > THROTTLE_LIMIT
                            /\ Dense(j - THROTTLE_LIMIT, j)'
                            /\ hits'[k].at < hits'[j].at + THROTTLE_TTL
      BY DEF RefusedForCause
    <2>2. CASE k \in DOMAIN hits
      <3>1. hits[k].result = "block"
        BY <1>0, <1>3, <2>1, <2>2
      <3>2. PICK j \in 1..k :
                /\ j > THROTTLE_LIMIT
                /\ Dense(j - THROTTLE_LIMIT, j)
                /\ hits[k].at < hits[j].at + THROTTLE_TTL
        BY <2>2, <3>1 DEF IInv, RefusedForCause
      <3>3. /\ j \in DOMAIN hits /\ j \in Nat /\ j - THROTTLE_LIMIT \in Nat
            /\ j - THROTTLE_LIMIT <= j
            /\ (j - THROTTLE_LIMIT)..j \subseteq DOMAIN hits
        BY <1>0, <1>2, <1>5, <2>2, <3>2
      <3>4. Dense(j - THROTTLE_LIMIT, j)'
        BY <1>0, <1>3, <3>2, <3>3, DenseKept
      <3>5. QED
        BY <1>0, <1>3, <2>2, <3>2, <3>3, <3>4
    <2>3. CASE k = N
      <3>1. now < next.blocked
        BY <1>0, <1>1, <1>3, <2>1, <2>3
      <3>2. next.blocked # 0
        BY <1>4, <1>5, <3>1
      <3>3. PICK j \in DOMAIN hits' :
                /\ j > THROTTLE_LIMIT
                /\ Dense(j - THROTTLE_LIMIT, j)'
                /\ next.blocked = hits'[j].at + THROTTLE_TTL
        BY <1>4, <1>13, <3>2 DEF Block
      <3>4. j \in 1..k /\ hits'[k].at < hits'[j].at + THROTTLE_TTL
        BY <1>0, <1>3, <2>3, <3>1, <3>3
      <3>5. QED
        BY <3>3, <3>4
    <2>4. QED
      BY <1>0, <1>2, <1>3, <2>2, <2>3
  <1>15. QED
    BY <1>8, <1>12, <1>13, <1>14

\* Passing again is kept.
LEMMA AgainKept ==
    ASSUME TypeOK, \A j \in DOMAIN passed : passed'[j] = passed[j],
           NEW j \in Nat, NEW k \in Nat, NEW n \in Nat, k <= n,
           j > 0, k <= Len(passed), AgainIn(j, k)
    PROVE  AgainIn(j, n)'
  <1>1. DOMAIN passed = 1..Len(passed) /\ Len(passed) \in Nat
    BY PassTypes
  <1>2. PICK i \in j..k : Again(i)
    BY DEF AgainIn
  <1>3. i \in DOMAIN passed /\ i \in j..n /\ \A h \in 1..(i - 1) : h \in DOMAIN passed
    BY <1>1
  <1>4. Again(i)'
    BY <1>2, <1>3 DEF Again
  <1>5. QED
    BY <1>3, <1>4 DEF AgainIn

\* What a hit does to the window of Redis, seen from the requests that passed before:
\* their windows have ended, or they are counted in it, unless they passed in this very
\* moment, the last one of a block.
LEMMA PassedBefore ==
    ASSUME IInv, redis \in Counter, NEW j \in DOMAIN passed
    PROVE  /\ \/ /\ passed[j].start + THROTTLE_TTL = next.until
                 /\ passed[j].no + Len(passed) - j <= next.hits
              \/ passed[j].start + 2 * THROTTLE_TTL <= next.until
              \/ AgainIn(j + 1, Len(passed))
           /\ \/ /\ passed[j].start + THROTTLE_TTL = next.until
                 /\ passed[j].no + Len(passed) - j + 1 <= next.hits
              \/ passed[j].start + 2 * THROTTLE_TTL <= next.until
              \/ AgainIn(j + 1, Len(passed))
              \/ (Freed(redis) /\ passed[j].at = now)
  <1> DEFINE start == passed[j].start
             no == passed[j].no
             L == Len(passed)
             again == AgainIn(j + 1, L)
  <1>1. start \in Int /\ no \in Nat /\ j \in Nat /\ L \in Nat /\ now \in Nat
    BY PassTypes, ThrottleAssumption DEF IInv, TypeOK
  <1>2. /\ redis.hits \in Nat /\ redis.until \in Nat /\ redis.blocked \in Nat
        /\ THROTTLE_TTL \in Nat \ {0}
    BY ThrottleAssumption DEF Counter
  <1>3. redis.until <= now + THROTTLE_TTL
    BY DEF IInv, Window
  <1>4. \/ start + THROTTLE_TTL = redis.until /\ no + L - j <= redis.hits
        \/ start + 2 * THROTTLE_TTL <= redis.until
        \/ again
    BY DEF IInv, Numbered
  <1>5. now <= redis.blocked =>
            \/ start + THROTTLE_TTL <= redis.blocked
            \/ /\ passed[j].at = redis.blocked
               /\ redis.hits = 1
               /\ redis.until = redis.blocked + THROTTLE_TTL
    BY DEF IInv, Shut
  <1>6. Freed(redis) => now = redis.blocked
    BY DEF Freed
  <1> DEFINE Counts(n) == start + THROTTLE_TTL = next.until /\ no + L - j + n <= next.hits
             Over == start + 2 * THROTTLE_TTL <= next.until
  <1>7. /\ Counts(0) \/ Over \/ again
        /\ Counts(1) \/ Over \/ again \/ (Freed(redis) /\ passed[j].at = now)
    <2>1. CASE CountsOn
      <3> HIDE DEF start, no, L, again
      <3>1. QED
        BY <1>1, <1>2, <1>4, <2>1 DEF CountsOn
    <2>2. CASE Prolongs \/ (Opens /\ ~Freed(redis))
      <3>1. next.until = now + THROTTLE_TTL /\ now >= redis.until
        BY <1>1, <1>2, <2>2 DEF Prolongs, Opens
      <3> HIDE DEF start, no, L, again
      <3>2. QED
        BY <1>1, <1>2, <1>3, <1>4, <3>1
    <2>3. CASE Opens /\ Freed(redis)
      <3>1. next.until = now + THROTTLE_TTL /\ next.hits = 1 /\ now = redis.blocked
        BY <1>6, <2>3 DEF Opens
      <3>2. CASE start + THROTTLE_TTL <= redis.blocked
        <4> HIDE DEF start, no, L, again
        <4>1. QED
          BY <1>1, <1>2, <3>1, <3>2
      <3>3. CASE /\ passed[j].at = redis.blocked
                 /\ redis.hits = 1
                 /\ redis.until = redis.blocked + THROTTLE_TTL
        <4>1. Freed(redis) /\ passed[j].at = now
          BY <2>3, <3>1, <3>3
        <4> HIDE DEF start, no, L, again
        <4>2. Counts(0) \/ Over \/ again
          BY <1>1, <1>2, <1>4, <3>1, <3>3
        <4>3. QED
          BY <4>1, <4>2
      <3>4. QED
        BY <1>1, <1>2, <1>5, <3>1, <3>2, <3>3
    <2>4. QED
      BY <2>1, <2>2, <2>3, IncrementedFacts, <1>1
  <1>8. no + L - j + 0 = no + L - j
    <2> HIDE DEF start, no, L, again
    <2>1. QED
      BY <1>1
  <1>9. QED
    BY <1>7, <1>8

LEMMA ShutKept ==
    ASSUME IInv, NEW i \in Instances, canActivate(i)
    PROVE  Shut'
  <1>1. redis \in Counter /\ redis' = next /\ now' = now /\ now \in Nat
    BY Counted DEF IInv, TypeOK
  <1>2. /\ redis.hits \in Nat /\ redis.until \in Nat /\ redis.blocked \in Nat
        /\ next.hits \in Nat /\ next.until \in Nat /\ next.blocked \in Nat
        /\ THROTTLE_TTL \in Nat \ {0}
    BY <1>1, IncrementedFacts, ThrottleAssumption DEF Counter
  <1>3. \A j \in DOMAIN passed : /\ passed[j].start <= now /\ passed[j].start \in Int
                                 /\ passed[j].at \in Nat /\ passed[j].at <= now
    <2>1. \A j \in DOMAIN passed : passed[j].start <= passed[j].at
      BY DEF IInv, Numbered
    <2>2. QED
      BY <1>1, <2>1, PassTypes DEF IInv
  <1>4. ASSUME now <= next.blocked, NEW j \in DOMAIN passed
        PROVE  \/ passed[j].start + THROTTLE_TTL <= next.blocked
               \/ /\ passed[j].at = next.blocked
                  /\ next.hits = 1
                  /\ next.until = next.blocked + THROTTLE_TTL
    <2>1. CASE next.blocked = now + THROTTLE_TTL
      BY <1>1, <1>2, <1>3, <2>1
    <2>2. CASE next.blocked = redis.blocked
      <3>1. CASE Freed(redis)
        <4>1. next.blocked = now /\ redis.blocked = now
          BY <1>1, <3>1, IncrementedFacts
        <4>2. next.hits = 1 /\ next.until = now + THROTTLE_TTL
          BY <1>1, <3>1, IncrementedFacts DEF CountsOn, Prolongs, Opens
        <4>3. \/ passed[j].start + THROTTLE_TTL <= redis.blocked
              \/ passed[j].at = redis.blocked
          BY <1>1, <4>1 DEF IInv, Shut
        <4>4. QED
          BY <4>1, <4>2, <4>3
      <3>2. CASE ~Freed(redis)
        <4>1. now < redis.blocked
          BY <1>1, <1>2, <1>4, <2>2, <3>2 DEF Freed
        <4>2. \/ passed[j].start + THROTTLE_TTL <= redis.blocked
              \/ passed[j].at = redis.blocked
          BY <1>1, <1>2, <4>1 DEF IInv, Shut
        <4>3. passed[j].at # redis.blocked
          BY <1>1, <1>2, <1>3, <4>1
        <4>4. QED
          BY <2>2, <4>2, <4>3
      <3>3. QED
        BY <3>1, <3>2
    <2>3. QED
      BY <1>1, <2>1, <2>2, IncrementedFacts
  <1>5. CASE UNCHANGED passed
    BY <1>1, <1>4, <1>5 DEF Shut
  <1>6. CASE /\ now >= next.blocked
             /\ passed' = Append(passed, [at |-> now, start |-> next.until - THROTTLE_TTL,
                                          no |-> next.hits, freed |-> Freed(redis)])
    <2> DEFINE n == Len(passed) + 1
    <2>1. /\ DOMAIN passed' = 1..n /\ passed'[n].at = now
          /\ \A j \in DOMAIN passed : passed'[j] = passed[j]
      BY <1>1, <1>6, PassAdded DEF IInv
    <2>2. DOMAIN passed = 1..Len(passed) /\ Len(passed) \in Nat
      BY PassTypes DEF IInv
    <2>3. SUFFICES ASSUME now <= next.blocked, NEW j \in DOMAIN passed'
                   PROVE  \/ passed'[j].start + THROTTLE_TTL <= next.blocked
                          \/ /\ passed'[j].at = next.blocked
                             /\ next.hits = 1
                             /\ next.until = next.blocked + THROTTLE_TTL
      BY <1>1 DEF Shut
    <2>4. CASE j \in DOMAIN passed
      BY <1>4, <2>1, <2>3, <2>4
    <2>5. CASE j = n
      <3>1. next.blocked = now
        BY <1>1, <1>2, <1>6, <2>3
      <3>2. next.blocked = redis.blocked
        BY <1>1, <1>2, <3>1, IncrementedFacts
      <3>3. Freed(redis)
        BY <3>1, <3>2 DEF Freed
      <3>4. next.hits = 1 /\ next.until = now + THROTTLE_TTL
        BY <1>1, <3>3, IncrementedFacts DEF CountsOn, Prolongs, Opens
      <3>5. QED
        BY <2>1, <2>5, <3>1, <3>4
    <2>6. QED
      BY <2>1, <2>2, <2>4, <2>5
  <1>7. QED
    BY <1>5, <1>6, Counted DEF IInv

LEMMA NumberedKept ==
    ASSUME IInv, NEW i \in Instances, canActivate(i)
    PROVE  Numbered'
  <1>1. redis \in Counter /\ redis' = next /\ now' = now /\ now \in Nat
    BY Counted DEF IInv, TypeOK
  <1>2. /\ redis.hits \in Nat /\ redis.until \in Nat
        /\ next.hits \in Nat /\ next.until \in Nat /\ THROTTLE_TTL \in Nat \ {0}
        /\ now < next.until
    BY <1>1, IncrementedFacts, ThrottleAssumption DEF Counter
  <1>3. /\ Len(passed) \in Nat /\ DOMAIN passed = 1..Len(passed)
        /\ \A j \in DOMAIN passed :
            passed[j].at \in Nat /\ passed[j].start \in Int /\ passed[j].no \in Nat
    BY PassTypes, ThrottleAssumption DEF IInv
  <1>4. CASE UNCHANGED passed
    <2>1. \A j, k : AgainIn(j, k)' = AgainIn(j, k)
      BY <1>4 DEF AgainIn, Again
    <2>2. \A j \in DOMAIN passed :
            \/ /\ passed[j].start + THROTTLE_TTL = next.until
               /\ passed[j].no + Len(passed) - j <= next.hits
            \/ passed[j].start + 2 * THROTTLE_TTL <= next.until
            \/ AgainIn(j + 1, Len(passed))
      BY <1>1, PassedBefore
    <2>3. QED
      BY <1>1, <1>4, <2>1, <2>2 DEF IInv, Numbered
  <1>5. CASE /\ now >= next.blocked
             /\ passed' = Append(passed, [at |-> now, start |-> next.until - THROTTLE_TTL,
                                          no |-> next.hits, freed |-> Freed(redis)])
    <2>0. PICK n \in Nat : n = Len(passed) + 1
      BY <1>3
    <2>1. /\ Len(passed') = n /\ DOMAIN passed' = 1..n
          /\ passed'[n].at = now /\ passed'[n].start = next.until - THROTTLE_TTL
          /\ passed'[n].no = next.hits /\ passed'[n].freed = Freed(redis)
          /\ \A j \in DOMAIN passed : passed'[j] = passed[j]
      BY <1>1, <1>5, <2>0, PassAdded DEF IInv
    <2>2. /\ next.until - THROTTLE_TTL <= now
          /\ now < next.until
          /\ next.hits = 1 => now = next.until - THROTTLE_TTL
      <3>1. redis.until <= now + THROTTLE_TTL /\ (redis.until > 0 => redis.hits > 0)
        BY DEF IInv, Window
      <3>2. QED
        BY <1>1, <1>2, <3>1, IncrementedFacts DEF CountsOn, Prolongs, Opens
    <2>3. ASSUME NEW j \in DOMAIN passed
          PROVE  \/ /\ passed[j].start + THROTTLE_TTL = next.until
                    /\ passed[j].no + n - j <= next.hits
                 \/ passed[j].start + 2 * THROTTLE_TTL <= next.until
                 \/ AgainIn(j + 1, n)'
      <3>1. j \in Nat /\ j <= Len(passed) /\ n \in Nat
        BY <1>3, <2>0
      <3>2. CASE Freed(redis) /\ passed[j].at = now
        <4>1. n \in (j + 1)..n /\ j \in 1..(n - 1)
          BY <1>3, <2>0, <3>1
        <4>2. Again(n)'
          BY <2>0, <2>1, <3>2, <4>1 DEF Again
        <4>3. QED
          BY <4>1, <4>2 DEF AgainIn
      <3>3. CASE AgainIn(j + 1, Len(passed))
        <4>1. AgainIn(j + 1, n)'
          BY <1>3, <2>0, <2>1, <3>1, <3>3, AgainKept DEF IInv
        <4>2. QED
          BY <4>1
      <3>4. CASE \/ /\ passed[j].start + THROTTLE_TTL = next.until
                    /\ passed[j].no + Len(passed) - j + 1 <= next.hits
                 \/ passed[j].start + 2 * THROTTLE_TTL <= next.until
        <4>1. passed[j].no + Len(passed) - j + 1 = passed[j].no + n - j
          BY <1>3, <2>0, <3>1
        <4>2. QED
          BY <3>4, <4>1
      <3>5. QED
        BY <1>1, <3>2, <3>3, <3>4, PassedBefore
    <2>4. ASSUME NEW j \in DOMAIN passed'
          PROVE  /\ passed'[j].start <= passed'[j].at
                 /\ passed'[j].at < passed'[j].start + THROTTLE_TTL
                 /\ passed'[j].no = 1 => passed'[j].at = passed'[j].start
                 /\ \/ /\ passed'[j].start + THROTTLE_TTL = next.until
                       /\ passed'[j].no + n - j <= next.hits
                    \/ passed'[j].start + 2 * THROTTLE_TTL <= next.until
                    \/ AgainIn(j + 1, n)'
      <3>1. CASE j \in DOMAIN passed
        <4>1. /\ passed[j].start <= passed[j].at
              /\ passed[j].at < passed[j].start + THROTTLE_TTL
              /\ passed[j].no = 1 => passed[j].at = passed[j].start
          BY <3>1 DEF IInv, Numbered
        <4>2. QED
          BY <2>1, <2>3, <3>1, <4>1
      <3>2. CASE j = n
        <4>1. /\ passed'[n].start + THROTTLE_TTL = next.until
              /\ passed'[n].no + n - n <= next.hits
              /\ passed'[n].start <= passed'[n].at
              /\ passed'[n].at < passed'[n].start + THROTTLE_TTL
              /\ passed'[n].no = 1 => passed'[n].at = passed'[n].start
          BY <1>1, <1>2, <1>3, <2>1, <2>2
        <4>2. QED
          BY <3>2, <4>1
      <3>3. QED
        BY <1>3, <2>0, <2>1, <3>1, <3>2
    <2>5. ASSUME NEW j \in DOMAIN passed', NEW k \in DOMAIN passed', j < k
          PROVE  \/ passed'[j].start + THROTTLE_TTL <= passed'[k].start
                 \/ /\ passed'[j].start = passed'[k].start
                    /\ passed'[j].no + k - j <= passed'[k].no
                 \/ AgainIn(j + 1, k)'
      <3>1. CASE k \in DOMAIN passed
        <4>1. j \in DOMAIN passed /\ passed'[j] = passed[j] /\ passed'[k] = passed[k]
          BY <1>3, <2>0, <2>1, <2>5, <3>1
        <4>2. \/ passed[j].start + THROTTLE_TTL <= passed[k].start
              \/ /\ passed[j].start = passed[k].start
                 /\ passed[j].no + k - j <= passed[k].no
              \/ AgainIn(j + 1, k)
          BY <2>5, <3>1, <4>1 DEF IInv, Numbered
        <4>3. AgainIn(j + 1, k) => AgainIn(j + 1, k)'
          <5>1. j + 1 \in Nat /\ k \in Nat /\ j + 1 > 0 /\ k <= Len(passed) /\ k <= k
            BY <1>3, <2>0, <3>1, <4>1
          <5>2. QED
            BY <2>1, <5>1, AgainKept DEF IInv
        <4>4. QED
          BY <4>1, <4>2, <4>3
      <3>2. CASE k = n
        <4>1. j \in DOMAIN passed /\ passed'[j] = passed[j]
          BY <1>3, <2>0, <2>1, <2>5, <3>2
        <4>2. passed'[k].start = next.until - THROTTLE_TTL /\ passed'[k].no = next.hits
          BY <2>1, <3>2
        <4>3. /\ passed[j].start \in Int /\ passed[j].no \in Nat /\ next.until \in Nat
              /\ next.hits \in Nat /\ j \in Nat /\ n \in Nat
          BY <1>2, <1>3, <4>1
        <4>4. CASE /\ passed[j].start + THROTTLE_TTL = next.until
                   /\ passed[j].no + n - j <= next.hits
          <5>1. passed[j].start = next.until - THROTTLE_TTL
            BY <1>2, <4>3, <4>4
          <5>2. QED
            BY <3>2, <4>1, <4>2, <4>4, <5>1
        <4>5. CASE passed[j].start + 2 * THROTTLE_TTL <= next.until
          BY <1>2, <4>1, <4>2, <4>3, <4>5
        <4>6. CASE AgainIn(j + 1, n)'
          BY <3>2, <4>6
        <4>7. QED
          BY <2>3, <4>1, <4>4, <4>5, <4>6
      <3>3. QED
        BY <1>3, <2>0, <2>1, <3>1, <3>2
    <2>6. QED
      BY <1>1, <2>1, <2>4, <2>5 DEF Numbered
  <1>6. QED
    BY <1>4, <1>5, Counted DEF IInv

\* Time and stuttering disturb none of it.
LEMMA TickKeeps ==
    ASSUME IInv, Tick \/ UNCHANGED vars
    PROVE  IInv'
  <1>1. TypeOK'
    BY TypesKept DEF IInv, Next
  <1>2. UNCHANGED <<store, hits, passed>> /\ now' \in Int /\ now' >= now /\ now \in Int
    BY DEF IInv, TypeOK, Tick, vars
  <1>3. redis' = redis
    BY <1>2 DEF redis
  <1>4. redis.until \in Int /\ THROTTLE_TTL \in Int
    BY ThrottleAssumption DEF IInv, TypeOK, redis, Counter
  <1>5. Window'
    <2>1. redis.until <= now' + THROTTLE_TTL
      BY <1>2, <1>4 DEF IInv, Window
    <2>2. QED
      BY <1>2, <1>3, <2>1 DEF IInv, Window
  <1>6. Ordered' /\ RefusedForCause'
    BY <1>2 DEF IInv, Ordered, RefusedForCause, Dense
  <1>7. Block' /\ Numbered'
    BY <1>2, <1>3 DEF IInv, Block, Numbered, Dense, AgainIn, Again
  <1>8. Shut'
    <2>1. redis.blocked \in Int
      BY DEF IInv, TypeOK, redis, Counter
    <2>2. QED
      BY <1>2, <1>3, <2>1 DEF IInv, Shut
  <1>9. QED
    BY <1>1, <1>5, <1>6, <1>7, <1>8 DEF IInv

LEMMA InitIInv == Init => IInv
  <1> SUFFICES ASSUME Init
               PROVE  IInv
    OBVIOUS
  <1>1. TypeOK
    BY ThrottleAssumption DEF Init, TypeOK, Counter
  <1>2. redis = [hits |-> 0, until |-> 0, blocked |-> 0]
    BY DEF Init, redis
  <1>3. Len(hits) = 0 /\ DOMAIN hits = {} /\ DOMAIN passed = {} /\ now = 1
    BY DEF Init
  <1>4. Ordered /\ RefusedForCause
    BY <1>3 DEF Ordered, RefusedForCause
  <1>5. Window
    BY <1>2, <1>3, ThrottleAssumption DEF Window
  <1>6. Block /\ Shut /\ Numbered
    BY <1>2, <1>3 DEF Block, Shut, Numbered
  <1>7. QED
    BY <1>1, <1>4, <1>5, <1>6 DEF IInv

LEMMA Invariance == Spec => []IInv
  <1>1. Init => IInv
    BY InitIInv
  <1>2. IInv /\ [Next]_vars => IInv'
    <2> SUFFICES ASSUME IInv, [Next]_vars
                 PROVE  IInv'
      OBVIOUS
    <2>1. CASE Tick \/ UNCHANGED vars
      BY <2>1, TickKeeps
    <2>2. ASSUME NEW i \in Instances, canActivate(i)
          PROVE  IInv'
      <3>1. TypeOK'
        BY TypesKept DEF IInv
      <3>2. QED
        BY <2>2, <3>1, HitsKept, ShutKept, NumberedKept DEF IInv
    <2>3. QED
      BY <2>1, <2>2 DEF Next
  <1>3. QED
    BY <1>1, <1>2, PTL DEF Spec

(***************************************************************************)
(* The theorems.                                                           *)
(***************************************************************************)

\* Types; what has passed carries a number no higher than the limit.
THEOREM TypeCorrect == Spec => []TypeOK
  <1>1. IInv => TypeOK
    BY DEF IInv
  <1>2. QED
    BY <1>1, Invariance, PTL

\* A 429 has its reason in what the client sent (RefusedForCause), also when the
\* block was set by a request whose own reply was lost.
THEOREM RefusalsCaused == Spec => []RefusedForCause
  <1>1. IInv => RefusedForCause
    BY DEF IInv
  <1>2. QED
    BY <1>1, Invariance, PTL

\* 2 * THROTTLE_LIMIT requests that pass are in three windows, or the first of them
\* opened its own (AdmittedBounded).
THEOREM AdmissionBounded == Spec => []AdmittedBounded
  <1>1. IInv => AdmittedBounded
    <2> SUFFICES ASSUME IInv, NEW j \in DOMAIN passed, NEW k \in DOMAIN passed,
                        k = j + 2 * THROTTLE_LIMIT - 1, ~AgainIn(j + 1, k)
                 PROVE  passed[k].at >= passed[j].at + THROTTLE_TTL
      BY DEF AdmittedBounded, AgainIn
    <2> DEFINE m == j + THROTTLE_LIMIT - 1
    <2>1. Len(passed) \in Nat /\ DOMAIN passed = 1..Len(passed)
          /\ \A l \in DOMAIN passed : /\ passed[l].at \in Nat
                                     /\ passed[l].start \in Int
                                     /\ passed[l].no \in 1..THROTTLE_LIMIT
      BY PassTypes DEF IInv
    <2>2. THROTTLE_LIMIT \in Nat /\ THROTTLE_TTL \in Nat \ {0}
      BY ThrottleAssumption
    <2>3. THROTTLE_LIMIT >= 1
      BY ThrottleAssumption
    <2>4. /\ passed[j].at < passed[j].start + THROTTLE_TTL
          /\ passed[j].no = 1 => passed[j].at = passed[j].start
          /\ passed[k].start <= passed[k].at
      BY DEF IInv, Numbered
    <2>5. \A a, b \in DOMAIN passed :
            j <= a /\ a < b /\ b <= k =>
                \/ passed[a].start + THROTTLE_TTL <= passed[b].start
                \/ /\ passed[a].start = passed[b].start
                   /\ passed[a].no + b - a <= passed[b].no
      <3> SUFFICES ASSUME NEW a \in DOMAIN passed, NEW b \in DOMAIN passed,
                          j <= a, a < b, b <= k
                   PROVE  \/ passed[a].start + THROTTLE_TTL <= passed[b].start
                          \/ /\ passed[a].start = passed[b].start
                             /\ passed[a].no + b - a <= passed[b].no
        OBVIOUS
      <3>1. (a + 1)..b \subseteq (j + 1)..k
        BY <2>1
      <3>2. ~AgainIn(a + 1, b)
        BY <3>1 DEF AgainIn
      <3>3. QED
        BY <3>2 DEF IInv, Numbered
    <2>6. j \in Nat /\ k \in Nat /\ j < k /\ j <= j /\ k <= k
      BY <2>1, <2>2, <2>3
    <2>7. CASE passed[j].no = 1
      <3>1. ~(passed[j].no + k - j <= passed[k].no)
        BY <2>1, <2>2, <2>3, <2>6, <2>7
      <3>2. passed[j].start + THROTTLE_TTL <= passed[k].start
        <4>1. \/ passed[j].start + THROTTLE_TTL <= passed[k].start
              \/ /\ passed[j].start = passed[k].start
                 /\ passed[j].no + k - j <= passed[k].no
          BY <2>5, <2>6
        <4>2. QED
          BY <3>1, <4>1
      <3>3. passed[j].at = passed[j].start /\ passed[k].start <= passed[k].at
        BY <2>1, <2>4, <2>7
      <3>4. QED
        BY <2>1, <2>2, <3>2, <3>3
    <2>8. CASE passed[j].no # 1
      <3>1. passed[j].no > 1 /\ THROTTLE_LIMIT > 1
        BY <2>1, <2>2, <2>8
      <3>2. m \in DOMAIN passed /\ j < m /\ m < k /\ m \in Nat /\ j <= m /\ m <= k
        BY <2>1, <2>2, <2>6, <3>1
      <3>3. ~(passed[j].no + m - j <= passed[m].no)
        BY <2>1, <2>2, <2>6, <3>1, <3>2
      <3>4. ~(passed[m].no + k - m <= passed[k].no)
        BY <2>1, <2>2, <2>6, <3>1, <3>2
      <3>5. /\ passed[j].start + THROTTLE_TTL <= passed[m].start
            /\ passed[m].start + THROTTLE_TTL <= passed[k].start
        <4> HIDE DEF m
        <4>1. QED
          <5>1. \/ passed[j].start + THROTTLE_TTL <= passed[m].start
                \/ /\ passed[j].start = passed[m].start
                   /\ passed[j].no + m - j <= passed[m].no
            BY <2>5, <2>6, <3>2
          <5>2. \/ passed[m].start + THROTTLE_TTL <= passed[k].start
                \/ /\ passed[m].start = passed[k].start
                   /\ passed[m].no + k - m <= passed[k].no
            BY <2>5, <2>6, <3>2
          <5>3. QED
            BY <3>3, <3>4, <5>1, <5>2
      <3>6. passed[j].at < passed[j].start + THROTTLE_TTL /\ passed[k].start <= passed[k].at
        BY <2>1, <2>2, <2>4
      <3>7. QED
        <4> HIDE DEF m
        <4>1. QED
          <5>1. /\ passed[j].start \in Int /\ passed[m].start \in Int
                /\ passed[k].start \in Int /\ passed[j].at \in Nat /\ passed[k].at \in Nat
            BY <2>1, <3>2
          <5>2. QED
            BY <2>2, <3>5, <3>6, <5>1
    <2>9. QED
      BY <2>7, <2>8
  <1>2. QED
    BY <1>1, Invariance, PTL
=============================================================================
